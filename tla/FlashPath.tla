------------------------------ MODULE FlashPath ------------------------------
(***************************************************************************)
(* A path through the two contracts (FlashQuoter.sol, FlashSwap.sol): it   *)
(* is calculated and quoted on the pools as they stand, the quote's state  *)
(* is thrown away, somebody may trade, and then the path is executed with  *)
(* a flash loan.  A call is a transaction: nobody trades inside it, and a  *)
(* revert undoes it.  Pairs, V3 pools and the lender are external; the     *)
(* price of a V3 pool stops where its last position ends.                  *)
(***************************************************************************)
EXTENDS Integers, Sequences, FiniteSetsExt

CONSTANTS
    Asset,        \* WETH
    MarketPools,
    PoolOf,       \* [MarketPools -> [protocol, token0, token1]]
    InitialReserves,
    LastPosition, \* what a V3 pool keeps of each token
    PREMIUM,      \* of a loan, in parts of PRECISION
    Arbs,         \* [pools, amountIn]: paths from Asset to Asset over different pools
    TradedAmount  \* by somebody else

PRECISION == 10000
V3_FEE == 9970

ASSUME FlashAssumption ==
    /\ InitialReserves \in [MarketPools -> (Nat \ {0}) \X (Nat \ {0})]
    /\ \A a \in Arbs : a.pools \in Seq(MarketPools) /\ a.amountIn \in Nat \ {0}
    /\ PREMIUM \in Nat /\ LastPosition \in Nat /\ TradedAmount \in Nat \ {0}
    /\ \A a \in Arbs : \A i, j \in DOMAIN a.pools : i # j => a.pools[i] # a.pools[j]

VARIABLES
    reserves,  \* of the pools on the chain: <<of token0, of token1>>
    call,      \* "none", "quote" or "execute"
    arb,       \* SwapParams
    frame,     \* the reserves inside the call
    amounts,
    currentTokenIn,
    kept,      \* what the contract has of Asset inside the call
    calculated, quoted, executed,  \* what came of it
    moved      \* somebody has traded since the quote (history)

flashVars == <<reserves, call, arb, frame, amounts, currentTokenIn, kept, calculated, quoted,
               executed, moved>>

None     == [done |-> FALSE, reverted |-> FALSE, amounts |-> <<>>, kept |-> 0]
Reverted == [done |-> TRUE, reverted |-> TRUE, amounts |-> <<>>, kept |-> 0]
Success(k) == [done |-> TRUE, reverted |-> FALSE, amounts |-> amounts, kept |-> k]

IsV3(p) ==
    PoolOf[p].protocol \in {"UniswapV3", "SushiSwapV3", "BaseSwapV3", "Slipstream",
                            "PancakeSwapV3", "AlienBaseV3", "SwapBasedV3", "DackieSwapV3"}

-----------------------------------------------------------------------------
(* The three tables of fees; every factory is named by its protocol. *)

compute_fee(protocol) ==
    CASE protocol \in {"UniswapV2", "SushiSwapV2", "SwapBasedV2"} -> 9970
      [] protocol \in {"PancakeSwapV2", "BaseSwapV2", "DackieSwapV2"} -> 9975
      [] protocol = "AlienBaseV2" -> 9984

getFee(factory) ==
    CASE factory \in {"PancakeSwapV2", "BaseSwapV2", "DackieSwapV2"} -> 9975
      [] factory = "AlienBaseV2" -> 9984
      [] OTHER -> 9970

Registered == <<"UniswapV2", "SushiSwapV2", "PancakeSwapV2", "SwapBasedV2", "BaseSwapV2",
                "DackieSwapV2", "AlienBaseV2">>
Fees == <<9970, 9970, 9975, 9970, 9975, 9975, 9984>>

\* An entry never made is 0.  A mutant of the constructor that stops one short.
MutantOneShort(factory) ==
    IF \E i \in 1..6 : Registered[i] = factory
    THEN Fees[CHOOSE i \in 1..6 : Registered[i] = factory] ELSE 0
factoryFees(factory) ==
    IF \E i \in DOMAIN Fees : Registered[i] = factory
    THEN Fees[CHOOSE i \in DOMAIN Fees : Registered[i] = factory] ELSE 0

\* A pair is of a protocol that has its fee in the tables; a V3 pool has what it keeps.
ASSUME MarketAssumption ==
    \A p \in MarketPools :
        IF IsV3(p)
        THEN InitialReserves[p][1] >= LastPosition /\ InitialReserves[p][2] >= LastPosition
        ELSE \E i \in DOMAIN Registered : Registered[i] = PoolOf[p].protocol

-----------------------------------------------------------------------------
(* The pools. *)

AmountOut(in, reserveIn, reserveOut, fee) ==
    (in * fee * reserveOut) \div (reserveIn * PRECISION + in * fee)

InOut(rs, zeroForOne) == IF zeroForOne THEN rs ELSE <<rs[2], rs[1]>>

\* A V3 pool takes what it can before its price limit, and gives for that.
V3Taken(in, r) ==
    Max({x \in 0..in : AmountOut(x, r[1], r[2], V3_FEE) <= r[2] - LastPosition})
V3Out(in, r) == AmountOut(V3Taken(in, r), r[1], r[2], V3_FEE)

\* A pair demands that the product of its reserves, less its fee, does not shrink.
PairAllows(p, in, out, r) ==
    out > 0 /\ out < r[2]
    /\ out <= AmountOut(in, r[1], r[2], compute_fee(PoolOf[p].protocol))

After(p, zeroForOne, in, out, rs) ==
    [rs EXCEPT ![p] = IF zeroForOne THEN <<@[1] + in, @[2] - out>> ELSE <<@[1] - out, @[2] + in>>]

-----------------------------------------------------------------------------
(* calculate_output: the output of each step, until one is 0. *)

OutOf(p, token, in) ==
    LET r == InOut(reserves[p], token = PoolOf[p].token0)
    IN  IF in = 0 THEN 0
        ELSE IF IsV3(p) THEN V3Out(in, r)
        ELSE AmountOut(in, r[1], r[2], compute_fee(PoolOf[p].protocol))

TokenAfter(p, token) ==
    IF token = PoolOf[p].token0 THEN PoolOf[p].token1 ELSE PoolOf[p].token0

calculate_output(a) ==
    LET token[i \in 1..Len(a.pools)] ==
            IF i = 1 THEN Asset ELSE TokenAfter(a.pools[i - 1], token[i - 1])
        out[i \in 0..Len(a.pools)] ==
            IF i = 0 THEN a.amountIn ELSE OutOf(a.pools[i], token[i], out[i - 1])
    IN  out[Len(a.pools)]

-----------------------------------------------------------------------------
(* The calls. *)

FlashInit ==
    /\ reserves = InitialReserves
    /\ call = "none" /\ arb \in Arbs
    /\ frame = reserves /\ amounts = <<>> /\ currentTokenIn = Asset /\ kept = 0
    /\ calculated = 0 /\ quoted = None /\ executed = None /\ moved = FALSE

Begin(kind) ==
    /\ call' = kind
    /\ frame' = reserves
    /\ amounts' = <<arb.amountIn>>
    /\ currentTokenIn' = Asset
    /\ kept' = arb.amountIn

\* The amount comes from the caller, who was granted a balance.
quoteArbitrage ==
    /\ call = "none" /\ ~quoted.done
    /\ Begin("quote")
    /\ calculated' = calculate_output(arb)
    /\ UNCHANGED <<reserves, arb, quoted, executed, moved>>

\* flashLoanSimple hands out the amount and calls executeOperation.
executeArbitrage ==
    /\ call = "none" /\ quoted.done /\ ~executed.done
    /\ Begin("execute")
    /\ UNCHANGED <<reserves, arb, calculated, quoted, executed, moved>>

InHop == call # "none" /\ Len(amounts) <= Len(arb.pools)

\* One round of the loop (FlashSwap.sol:91-121 is the same text): what the pool takes in is
\* paid out of what the contract has, and the next pool is asked with what came out.
SwapWith(p, taken, out) ==
    LET zeroForOne == currentTokenIn = PoolOf[p].token0
    IN  /\ frame' = After(p, zeroForOne, taken, out, frame)
        /\ amounts' = Append(amounts, out)
        /\ currentTokenIn' = TokenAfter(p, currentTokenIn)
        /\ kept' = (kept - IF currentTokenIn = Asset THEN taken ELSE 0)
                   + IF TokenAfter(p, currentTokenIn) = Asset THEN out ELSE 0
        /\ UNCHANGED <<reserves, call, arb, calculated, quoted, executed, moved>>

Revert ==
    /\ call' = "none"
    /\ quoted' = IF call = "quote" THEN Reverted ELSE quoted
    /\ executed' = IF call = "execute" THEN Reverted ELSE executed
    /\ UNCHANGED <<reserves, arb, frame, amounts, currentTokenIn, kept, calculated, moved>>

\* The quoter's swap with a pair.
quoteSwapV2 ==
    /\ call = "quote" /\ InHop
    /\ LET p  == arb.pools[Len(amounts)]
           in == amounts[Len(amounts)]
           r  == InOut(frame[p], currentTokenIn = PoolOf[p].token0)
           out == AmountOut(in, r[1], r[2], getFee(PoolOf[p].protocol))
       IN  /\ ~IsV3(p)
           /\ IF PairAllows(p, in, out, r) THEN SwapWith(p, in, out) ELSE Revert

\* The swap contract's own copy of it, with the fees it was deployed with.
executeSwapV2 ==
    /\ call = "execute" /\ InHop
    /\ LET p  == arb.pools[Len(amounts)]
           in == amounts[Len(amounts)]
           r  == InOut(frame[p], currentTokenIn = PoolOf[p].token0)
           out == AmountOut(in, r[1], r[2], factoryFees(PoolOf[p].protocol))
       IN  /\ ~IsV3(p)
           /\ IF PairAllows(p, in, out, r) THEN SwapWith(p, in, out) ELSE Revert

\* The callback pays what the pool has taken; a swap of nothing is refused.
quoteSwapV3 ==
    /\ call = "quote" /\ InHop
    /\ LET p  == arb.pools[Len(amounts)]
           in == amounts[Len(amounts)]
           r  == InOut(frame[p], currentTokenIn = PoolOf[p].token0)
       IN  /\ IsV3(p)
           /\ IF in > 0 THEN SwapWith(p, V3Taken(in, r), V3Out(in, r)) ELSE Revert

executeSwapV3 ==
    /\ call = "execute" /\ InHop
    /\ LET p  == arb.pools[Len(amounts)]
           in == amounts[Len(amounts)]
           r  == InOut(frame[p], currentTokenIn = PoolOf[p].token0)
       IN  /\ IsV3(p)
           /\ IF in > 0 THEN SwapWith(p, V3Taken(in, r), V3Out(in, r)) ELSE Revert

\* The EVM's changes are not committed.
QuoteReturns ==
    /\ call = "quote" /\ ~InHop
    /\ quoted' = Success(kept)
    /\ call' = "none"
    /\ UNCHANGED <<reserves, arb, frame, amounts, currentTokenIn, kept, calculated, executed,
                   moved>>

amountToRepay == arb.amountIn + (arb.amountIn * PREMIUM) \div PRECISION

\* The lender takes the loan and the premium, the caller the rest of the balance.
Repays ==
    /\ call = "execute" /\ ~InHop /\ kept >= amountToRepay
    /\ reserves' = frame
    /\ executed' = Success(kept - amountToRepay)
    /\ call' = "none"
    /\ UNCHANGED <<arb, frame, amounts, currentTokenIn, kept, calculated, quoted, moved>>

CannotRepay ==
    /\ call = "execute" /\ ~InHop /\ kept < amountToRepay
    /\ Revert

\* Somebody else trades in a pool, at whatever the pool gives; once, that is the bound.
Trade(p, token) ==
    LET out == OutOf(p, token, TradedAmount)
    IN  /\ call = "none" /\ quoted.done /\ ~executed.done /\ ~moved
        /\ ~IsV3(p)
        /\ reserves' = After(p, token = PoolOf[p].token0, TradedAmount, out, reserves)
        /\ moved' = TRUE
        /\ UNCHANGED <<call, arb, frame, amounts, currentTokenIn, kept, calculated, quoted,
                       executed>>

FlashNext ==
    \/ quoteArbitrage \/ executeArbitrage
    \/ quoteSwapV2 \/ executeSwapV2 \/ quoteSwapV3 \/ executeSwapV3
    \/ QuoteReturns \/ Repays \/ CannotRepay
    \/ \E p \in MarketPools : \E token \in {PoolOf[p].token0, PoolOf[p].token1} : Trade(p, token)

FlashSpec == FlashInit /\ [][FlashNext]_flashVars

-----------------------------------------------------------------------------
(* Properties. *)

\* Calculator, quoter and swap contract work from three tables of fees, and each has its own
\* way to say no.  A quote returns the amount calculated, or reverts where nothing comes out
\* (simulator.rs:46).  And if nobody has traded since, the execution goes through the quoted
\* amounts, and fails just where the quote did or leaves less than loan and premium; what the
\* quote kept beyond them is what the caller gains.
ExecutesAsQuoted ==
    /\ quoted.done =>
          calculated = IF quoted.reverted THEN 0 ELSE quoted.amounts[Len(quoted.amounts)]
    /\ executed.done /\ ~moved =>
          executed = IF quoted.reverted \/ quoted.kept < amountToRepay THEN Reverted
                     ELSE [quoted EXCEPT !.kept = @ - amountToRepay]

=============================================================================
