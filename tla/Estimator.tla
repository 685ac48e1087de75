------------------------------- MODULE Estimator -------------------------------
(***************************************************************************)
(* The estimator (estimator.rs): exchange rates per pool and token, kept   *)
(* as scaled integers, the aggregated WETH rate per token, and the filter  *)
(* of the searcher that lives on them.                                     *)
(*                                                                         *)
(* Each step is one batch: the pools of a block get new reserves and       *)
(* process_pools runs on them.  That reserves may move on while the rates  *)
(* are computed is Searcher's subject.  Swaps follow the constant-product  *)
(* formula of uniswap_v2_out; integers stand for U256 and never wrap here. *)
(***************************************************************************)
EXTENDS Naturals, FiniteSets, Functions

CONSTANTS
    Pools,
    Token0, Token1,  \* [Pools -> tokens]
    Decimals,        \* [tokens -> decimals]
    WETH,
    RATE_SCALE,      \* decimals of a rate, and of WETH (18 in the code)
    AMOUNT,          \* the input of every path, in WETH
    MinProfit,       \* Searchoor.min_profit
    MaxEstimate,     \* the estimate from which on a path is taken for an error (1e18)
    Reserves,        \* [Pools -> the pairs of reserves the pool may have]
    NoRate,
    MaxBatches       \* bound: batches after the first

Tokens == {Token0[p] : p \in Pools} \cup {Token1[p] : p \in Pools}
RATE_SCALE_VALUE == 10 ^ RATE_SCALE

\* Pairs that were ever funded keep a little of both tokens.
ASSUME EstimatorAssumption ==
    /\ IsFiniteSet(Pools) /\ MaxBatches \in Nat /\ RATE_SCALE \in Nat
    /\ \A p \in Pools : Token0[p] # Token1[p] /\ Reserves[p] \subseteq (Nat \ {0}) \X (Nat \ {0})
    /\ \A t \in Tokens : Decimals[t] \in Nat
    /\ WETH \in Tokens /\ Decimals[WETH] = RATE_SCALE
    /\ NoRate \notin Nat
    /\ AMOUNT \in 1..RATE_SCALE_VALUE /\ {MinProfit, MaxEstimate} \subseteq Nat
    /\ AMOUNT < MinProfit

\* A law of arithmetic for the decimals at hand; the provers know none of powers.
ASSUME PowersOfTen ==
    \A m, n \in {0, RATE_SCALE} \cup {Decimals[t] : t \in Tokens} :
        m <= n => 10 ^ (n - m) \in Nat \ {0}

VARIABLES
    reserves,             \* the database: <<reserve of token0, reserve of token1>>
    rates,                \* rates[p][t]: the rate of a swap of t in p, or NoRate
    aggregated_weth_rate, \* [Tokens -> rate], NoRate where the map has no entry
    batches               \* how many batches were processed; 0 before the first

vars == <<reserves, rates, aggregated_weth_rate, batches>>

TokensOf(p) == {Token0[p], Token1[p]}
IsEthPool(p) == WETH \in TokensOf(p)
Other(p, t) == IF t = Token0[p] THEN Token1[p] ELSE Token0[p]
Alt(p) == Other(p, WETH)

TypeOK ==
    /\ reserves \in [Pools -> Nat \X Nat]
    /\ DOMAIN rates = Pools
    /\ \A p \in Pools : rates[p] \in [TokensOf(p) -> Nat \cup {NoRate}]
    /\ aggregated_weth_rate \in [Tokens -> Nat \cup {NoRate}]
    /\ batches \in 0..(MaxBatches + 1)

-----------------------------------------------------------------------------
(* Arithmetic. *)

scale_to_rate(x, decimals) ==
    IF decimals <= RATE_SCALE THEN x * 10 ^ (RATE_SCALE - decimals)
                              ELSE x \div 10 ^ (decimals - RATE_SCALE)

\* checked_div: a rate over nothing is 0
CheckedDiv(a, b) == IF b = 0 THEN 0 ELSE a \div b

\* Decimals are learnt from pools with WETH, all of which the first batch has; a
\* token without one counts as having 18.
token_decimals(t) ==
    IF \E p \in Pools : WETH \in TokensOf(p) /\ t \in TokensOf(p)
    THEN Decimals[t] ELSE RATE_SCALE

calculate_rate(input, output, t_in, t_out) ==
    CheckedDiv(scale_to_rate(output, token_decimals(t_out)) * RATE_SCALE_VALUE,
               scale_to_rate(input, token_decimals(t_in)))

\* uniswap_v2_out with the fee of UniswapV2: 9970 of 10000
compute_pool_output(rs, p, t, x) ==
    LET in  == IF t = Token0[p] THEN rs[p][1] ELSE rs[p][2]
        out == IF t = Token0[p] THEN rs[p][2] ELSE rs[p][1]
    IN  (x * 997 * out) \div (in * 1000 + x * 997)

-----------------------------------------------------------------------------
(* process_pools on the pools ps, with the reserves rs.  A mutant is a plausible
   slip in the operator below it. *)

\* The two rates of a pool from x units of t: out, and what came out back again.
Out(rs, p, t, x)  == compute_pool_output(rs, p, t, x)
Back(rs, p, t, x) == compute_pool_output(rs, p, Other(p, t), Out(rs, p, t, x))
OutRate(rs, p, t, x)  == calculate_rate(x, Out(rs, p, t, x), t, Other(p, t))
BackRate(rs, p, t, x) ==
    calculate_rate(Out(rs, p, t, x), Back(rs, p, t, x), Other(p, t), t)

\* zero_one_rate, the rate of the first quote, is stored for token0, also where
\* the quote went out from token1 (l. 242).  The mutants store the rates the other
\* way round, and store one under WETH in every pool.
MutantSwapped(p, out, back) ==
    [t \in TokensOf(p) |-> IF t = Token0[p] THEN back ELSE out]
MutantAlsoWeth(p, out, back) ==
    [t \in TokensOf(p) \cup {WETH} |-> IF t = Token0[p] THEN out ELSE back]
StoreRates(p, out, back) ==
    [t \in TokensOf(p) |-> IF t = Token0[p] THEN out ELSE back]

process_eth_pool(rs, p) ==
    StoreRates(p, OutRate(rs, p, WETH, AMOUNT), BackRate(rs, p, WETH, AMOUNT))

\* What a pool adds to its token's aggregate: the rate filed under WETH.
EthPools(ps) == {p \in ps : IsEthPool(p)}
EthPoolsOf(ps, t) == {p \in EthPools(ps) : Alt(p) = t}
OrZero(rate) == IF rate = NoRate THEN 0 ELSE rate

\* Add the rates of the batch, divide by their number; the old value stays in.
Aggregate(old, newRates, ps) ==
    [t \in Tokens |->
        LET mine == EthPoolsOf(ps, t)
        IN  IF mine = {} THEN old[t]
            ELSE (OrZero(old[t]) + SumFunctionOnSet([p \in mine |-> newRates[p][WETH]], mine))
                    \div Cardinality(mine)]

\* The input of a pool without WETH is the aggregate of its token0, as it is;
\* without one the pool is skipped.
process_nonweth_pool(rs, p, aggregated, old) ==
    LET input == aggregated[Token0[p]]
    IN  IF input = NoRate THEN old
        ELSE StoreRates(p, OutRate(rs, p, Token0[p], input),
                           BackRate(rs, p, Token0[p], input))

\* The aggregate the pools without WETH see: WETH pools come first.
MutantNonWethFirst(old, new) == old
AggregateInUse(old, new) == new

\* The pools whose rates are computed anew; the mutant keeps what it has.
MutantOnlyUnrated(ps) == {p \in ps : rates[p][Token0[p]] = NoRate}
PoolsToRate(ps) == ps

process_pools(rs, ps) ==
    LET ethRates == [p \in Pools |-> IF p \in EthPools(PoolsToRate(ps))
                                     THEN process_eth_pool(rs, p) ELSE rates[p]]
        aggregated == Aggregate(aggregated_weth_rate, ethRates, PoolsToRate(ps))
        inUse == AggregateInUse(aggregated_weth_rate, aggregated)
    IN  /\ aggregated_weth_rate' = aggregated
        /\ rates' = [p \in Pools |->
              IF p \in PoolsToRate(ps) \ EthPools(PoolsToRate(ps))
              THEN process_nonweth_pool(rs, p, inUse, ethRates[p]) ELSE ethRates[p]]

-----------------------------------------------------------------------------
ReserveStates ==
    {rs \in [Pools -> UNION {Reserves[p] : p \in Pools}] : \A p \in Pools : rs[p] \in Reserves[p]}

Init ==
    /\ reserves \in ReserveStates
    /\ rates = [p \in Pools |-> [t \in TokensOf(p) |-> NoRate]]
    /\ aggregated_weth_rate = [t \in Tokens |-> NoRate]
    /\ batches = 0

\* start_workers: all pools, once the catch-up is over.
InitialRates ==
    /\ batches = 0
    /\ batches' = 1
    /\ process_pools(reserves, Pools)
    /\ UNCHANGED reserves

\* update_rates: the pools ps a block touched, any of which has new reserves; the others may
\* have been swapped back and forth.
UpdateRates(ps, rs) ==
    /\ batches \in 1..MaxBatches
    /\ batches' = batches + 1
    /\ \A p \in Pools \ ps : rs[p] = reserves[p]
    /\ reserves' = rs
    /\ process_pools(rs, ps)

Next ==
    \/ InitialRates
    \/ \E ps \in SUBSET Pools, rs \in ReserveStates : UpdateRates(ps, rs)

Spec == Init /\ [][Next]_vars

-----------------------------------------------------------------------------
(* The filter of search_paths on a path of two hops, out through p and back
   through q (generate_cycles makes no longer ones). *)

TwoHops(p, q) == p # q /\ IsEthPool(p) /\ IsEthPool(q) /\ Alt(p) = Alt(q)

estimate_output_amount(p, q) ==
    IF NoRate \in {rates[p][WETH], rates[q][Alt(q)]} THEN 0
    ELSE (((AMOUNT * rates[p][WETH]) \div RATE_SCALE_VALUE) * rates[q][Alt(q)])
            \div RATE_SCALE_VALUE

calculate_output(p, q) ==
    compute_pool_output(reserves, q, Alt(q), compute_pool_output(reserves, p, WETH, AMOUNT))

Selected(p, q) ==
    estimate_output_amount(p, q) >= MinProfit /\ estimate_output_amount(p, q) < MaxEstimate

Quote(p) == compute_pool_output(reserves, p, WETH, AMOUNT)
WethFirst(p) == Token0[p] = WETH

-----------------------------------------------------------------------------
(* Properties. *)

\* A path passes the filter only if its first pool pays more for WETH than its
\* second would: no sequence of updates, scaling or rounding makes up a profit.
\* (For pools with WETH as token0; see SelectedPaysMore.)
NoProfitMadeUp ==
    \A p, q \in Pools :
        TwoHops(p, q) /\ WethFirst(p) /\ WethFirst(q) /\ Selected(p, q)
            => Quote(p) > Quote(q)

\* What the roundings may take away: that of q's way back, of the amount and the rate that
\* the second hop multiplies, and of their product.
RoundingLoss(p, q) ==
    LET scaled(x) == scale_to_rate(Quote(x), Decimals[Alt(x)])
    IN  2 + (scaled(p) + Back(reserves, q, WETH, AMOUNT)) \div scaled(q)
          + scaled(p) \div RATE_SCALE_VALUE

\* A path whose calculated output is profitable passes the filter, both ends of it: the
\* estimate, a chord of the output curve, lies above the curve but for its roundings; and the
\* most it can be is what AMOUNT comes to at the ratio of the two quotes, so that it stays
\* under MaxEstimate unless the prices of the pools are MaxEstimate / AMOUNT times apart.
\* Tokens of more decimals than the rates have, and pools that give nothing for AMOUNT, are
\* estimated at a loss of any size.
NoProfitMissed ==
    \A p, q \in Pools :
        /\ TwoHops(p, q) /\ WethFirst(p) /\ WethFirst(q)
        /\ batches > 0
        /\ Decimals[Alt(p)] <= RATE_SCALE /\ Quote(q) > 0
        /\ AMOUNT * Quote(p) < MaxEstimate * Quote(q)
        /\ calculate_output(p, q) >= MinProfit + RoundingLoss(p, q)
        => Selected(p, q)

\* Once the first rates are computed, exactly the pools whose token0 is WETH or has
\* a pair with WETH, and the pools with WETH as token1, are rated.
RatedPools ==
    batches > 0 =>
        \A p \in Pools :
            (rates[p][Token0[p]] # NoRate) <=>
                (IsEthPool(p) \/ \E q \in Pools : IsEthPool(q) /\ Alt(q) = Token0[p])

\* What estimator.rs:30 says of the rates, for every pool: the rate filed under a
\* token is that of a swap of this token, so a selected path pays more.
SelectedPaysMore ==
    \A p, q \in Pools : TwoHops(p, q) /\ Selected(p, q) => Quote(p) > Quote(q)

\* What estimator.rs:173 says of the aggregate, an average of the rates of the
\* token's pairs with WETH: it does not exceed all of them.
AggregateInSpan ==
    \A t \in Tokens : aggregated_weth_rate[t] # NoRate =>
        \E p \in EthPoolsOf(Pools, t) : aggregated_weth_rate[t] <= rates[p][WETH]

=============================================================================
