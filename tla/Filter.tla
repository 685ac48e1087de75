-------------------------------- MODULE Filter --------------------------------
(***************************************************************************)
(* filter_pools: the list of top-volume tokens, which is fetched page by   *)
(* page once and kept in a file for all later processes, and the trial     *)
(* swaps on the pools of listed tokens.  A process may crash, panic and be *)
(* started again between any two steps; the file stays.  The routers of    *)
(* V2 pools are modelled by the constant product formula with their fees;  *)
(* what a V3 or an Aerodrome router gives back is any number.  A token is  *)
(* modelled by the slots that its balanceOf reads, and by whether it moves *)
(* what it is asked to.                                                    *)
(***************************************************************************)
EXTENDS Integers, FiniteSets, SequencesExt

CONSTANTS
    Tokens, WETH_ADDRESS, BLACKLIST,
    PAGES, PAGE,          \* pages asked for (80) and tokens on one (50)
    SyncedPools,          \* the pools to filter, in the order they were synced
    AMOUNT,
    AccessList,           \* the slots a token's balanceOf reads, as numbers
    BalanceSlot,          \* the one of them with the balance
    Sound,                \* the tokens that transfer what they are asked to, without a fee
    known_slots,          \* in the order of the array
    IMPLEMENTATION_SLOT

\* The types with a router; any other panics ("will not reach here").  main.rs loads no other.
V2Basic == {"UniswapV2", "SushiSwapV2", "PancakeSwapV2", "BaseSwapV2", "SwapBasedV2",
            "DackieSwapV2", "AlienBaseV2"}
OtherSwaps == {"UniswapV3", "AlienBaseV3", "DackieSwapV3", "PancakeSwapV3", "SushiSwapV3",
               "SwapBasedV3", "BaseSwapV3", "Slipstream", "Aerodrome"}

\* What a router of another kind gives for AMOUNT, there and back, is any number, 0 if one of
\* the calls reverts: positions, stable curves and the tokens' transfers decide it.
PoolRecord == [type : V2Basic \cup OtherSwaps, token0 : Tokens, token1 : Tokens,
               reserve0 : Nat, reserve1 : Nat, back : Nat]

ASSUME FilterAssumption ==
    /\ {WETH_ADDRESS} \cup BLACKLIST \cup Sound \subseteq Tokens
    /\ {PAGES, PAGE} \subseteq Nat \ {0}
    /\ AMOUNT \in Nat /\ AMOUNT >= 100   \* 95% of less can be rounded far down; it is 1e15
    /\ SyncedPools \in Seq(PoolRecord)
    /\ AccessList \in [Tokens -> SUBSET Nat]
    /\ \A t \in Tokens : BalanceSlot[t] \in AccessList[t] \ {IMPLEMENTATION_SLOT}
    /\ known_slots \in Seq(Nat \ {IMPLEMENTATION_SLOT})

VARIABLES
    file,
    stage,           \* "down", "fetch", "write", "trial", "panicked"
    offset,          \* pages asked for so far
    addresses,
    pools_left,      \* the places in SyncedPools of the pools still to try
    filtered_pools,
    lists_used       \* the lists that pools were ever matched with (history)

filterVars == <<file, stage, offset, addresses, pools_left, filtered_pools, lists_used>>

-----------------------------------------------------------------------------
(* The list of tokens. *)

NoFile == [content |-> "none", list |-> {}]
Torn == [content |-> "torn", list |-> {}]   \* created, but not written to its end
Whole(list) == [content |-> "whole", list |-> list]

FilterInit ==
    /\ file = NoFile /\ stage = "down" /\ offset = 0 /\ addresses = {}
    /\ pools_left = {} /\ filtered_pools = <<>> /\ lists_used = {}

\* The pools are matched with the list, and the trials begin.
MatchPools(list) ==
    /\ stage' = "trial"
    /\ lists_used' = lists_used \cup {list}
    /\ pools_left' = {i \in DOMAIN SyncedPools :
                         {SyncedPools[i].token0, SyncedPools[i].token1} \subseteq list \ BLACKLIST}
    /\ filtered_pools' = <<>>

ReadFile ==
    /\ stage = "down" /\ file.content = "whole"
    /\ MatchPools(file.list)
    /\ UNCHANGED <<file, offset, addresses>>

\* A file that ends early is no JSON: the error comes back and is expected away.
ReadTornFile ==
    /\ stage = "down" /\ file = Torn
    /\ stage' = "panicked"
    /\ UNCHANGED <<file, offset, addresses, pools_left, filtered_pools, lists_used>>

StartFetch ==
    /\ stage = "down" /\ file = NoFile
    /\ stage' = "fetch" /\ offset' = 0 /\ addresses' = {}
    /\ UNCHANGED <<file, pools_left, filtered_pools, lists_used>>

\* A page with any tokens, or none: a status other than success is passed over.  Requests
\* that fail, answers that are no JSON and bad addresses panic, which Stop stands for.
FetchPage ==
    /\ stage = "fetch" /\ offset < PAGES
    /\ offset' = offset + 1
    /\ \E page \in {s \in SUBSET Tokens : Cardinality(s) <= PAGE} :
          addresses' = addresses \cup page
    /\ UNCHANGED <<file, stage, pools_left, filtered_pools, lists_used>>

\* A mutant that goes on with the list and never writes it.
MutantNotCached ==
    /\ stage = "fetch" /\ offset = PAGES
    /\ MatchPools(addresses)
    /\ UNCHANGED <<file, offset, addresses>>

CreateFile ==
    /\ stage = "fetch" /\ offset = PAGES
    /\ file' = Torn /\ stage' = "write"
    /\ UNCHANGED <<offset, addresses, pools_left, filtered_pools, lists_used>>

\* What the buffer still holds is written when it is dropped, and an error is lost there.
WriteFile ==
    /\ stage = "write"
    /\ file' \in {Whole(addresses), Torn}
    /\ MatchPools(addresses)
    /\ UNCHANGED <<offset, addresses>>

\* The process ends between any two steps: by a crash, at an operator's hand, or by one of
\* the panics of a failed fetch, an unreadable list or a database that cannot be opened.
Stop ==
    /\ stage # "down"
    /\ stage' = "down"
    /\ offset' = 0 /\ addresses' = {} /\ pools_left' = {} /\ filtered_pools' = <<>>
    /\ UNCHANGED <<file, lists_used>>

-----------------------------------------------------------------------------
(* The trial swaps. *)

KnownAt(token) == {i \in DOMAIN known_slots : known_slots[i] \in AccessList[token]}

\* A mutant that takes a proxy's pointer for the balance.
MutantAnySlot(token) == AccessList[token]
Others(token) == AccessList[token] \ {IMPLEMENTATION_SLOT}

\* The first known slot that is read, or else the first one (the list is sorted) that is
\* not the implementation's.  A single slot is a special case of either.
slot_map ==
    [token \in {t \in Tokens : KnownAt(t) # {} \/ Others(t) # {}} |->
        IF KnownAt(token) # {} THEN known_slots[Min(KnownAt(token))] ELSE Min(Others(token))]

\* WETH goes in first, if the pool has it.
Forth(pool) == pool.token0 = WETH_ADDRESS \/ pool.token1 # WETH_ADDRESS

\* The account is given tokens by writing the slot that was found for the token.
Funded(token) == slot_map[token] = BalanceSlot[token]

\* Of what goes in, the part that is traded, as a fraction in lowest terms (9970, 9975 and
\* 9984 of 10000 in the calculator).
router_fee(type) ==
    CASE type \in {"UniswapV2", "SushiSwapV2", "SwapBasedV2"} -> <<997, 1000>>
      [] type \in {"PancakeSwapV2", "BaseSwapV2", "DackieSwapV2"} -> <<399, 400>>
      [] type = "AlienBaseV2" -> <<624, 625>>

getAmountOut(fee, amt, in, out) ==
    IF in = 0 \/ out = 0 THEN 0
    ELSE (amt * fee[1] * out) \div (in * fee[2] + amt * fee[1])

\* What a call of a V2 router returns, 0 if it reverts: there is no balance to take from,
\* or less arrives in the pair than the amounts were computed for.
RouterSwap(pool, forth, amt) ==
    LET tokenIn == IF forth THEN pool.token0 ELSE pool.token1
        in      == IF forth THEN pool.reserve0 ELSE pool.reserve1
        out     == IF forth THEN pool.reserve1 ELSE pool.reserve0
    IN  IF Funded(tokenIn) /\ tokenIn \in Sound
        THEN getAmountOut(router_fee(pool.type), amt, in, out) ELSE 0

OtherTrip(pool) == IF Funded(pool.token0) /\ Funded(pool.token1) THEN pool.back ELSE 0

\* A mutant that commits the first swap, so that the second one undoes it.
MutantCommitted(pool) ==
    LET forth == Forth(pool)
        got   == RouterSwap(pool, forth, AMOUNT)
        after == IF forth
                 THEN [pool EXCEPT !.reserve0 = @ + AMOUNT, !.reserve1 = @ - got]
                 ELSE [pool EXCEPT !.reserve1 = @ + AMOUNT, !.reserve0 = @ - got]
    IN  IF pool.type \in V2Basic THEN RouterSwap(after, ~forth, got) ELSE OtherTrip(pool)

\* There and back; neither call is committed, so both meet the same reserves.
RoundTrip(pool) ==
    IF pool.type \in V2Basic
    THEN RouterSwap(pool, ~Forth(pool), RouterSwap(pool, Forth(pool), AMOUNT))
    ELSE OtherTrip(pool)

lower_bound == (AMOUNT * 95) \div 100

TrialSwap ==
    /\ stage = "trial" /\ pools_left # {}
    /\ LET pool   == SyncedPools[Min(pools_left)]
           passes == /\ {pool.token0, pool.token1} \subseteq DOMAIN slot_map
                     /\ RoundTrip(pool) >= lower_bound
       IN  filtered_pools' = IF passes THEN Append(filtered_pools, pool) ELSE filtered_pools
    /\ pools_left' = pools_left \ {Min(pools_left)}
    /\ UNCHANGED <<file, stage, offset, addresses, lists_used>>

FilterNext ==
    \/ ReadFile \/ ReadTornFile \/ StartFetch \/ FetchPage \/ CreateFile \/ WriteFile
    \/ TrialSwap \/ Stop

FilterSpec == FilterInit /\ [][FilterNext]_filterVars

-----------------------------------------------------------------------------
(* Properties. *)

\* Processes match their pools with one and the same list, whenever they crashed and
\* whatever became of the file: nobody trades on a list that is read in part or fetched anew.
ListsAgree == Cardinality(lists_used) <= 1

\* A V2 pool that passes, of whatever protocol, is deep where AMOUNT goes in (AMOUNT is no
\* more than a 33rd of the reserve), as "filter out pools that ... dont have any liq to swap
\* with" (filter.rs:86) promises, although a swap there and back in itself returns what was put
\* in.  Of V3 and Aerodrome pools it is not true: liquidity around the price or a stable curve
\* returns 95 of 100 of a large part of a reserve.
KeptAreDeep ==
    \A p \in ToSet(filtered_pools) :
        p.type \in V2Basic => AMOUNT * 33 <= IF Forth(p) THEN p.reserve0 ELSE p.reserve1

\* The slot of a token can be told if its balance is at a known slot and nothing else is, or
\* if there is nothing else but a proxy's pointer.
Plain(token) ==
    \/ AccessList[token] \cap ToSet(known_slots) = {BalanceSlot[token]}
    \/ AccessList[token] \subseteq {BalanceSlot[token], IMPLEMENTATION_SLOT}

\* No V2 pool is lost that the bot is meant to trade on: one of listed, unblocked and plain
\* tokens without a fee on transfers is kept if it has 60 times AMOUNT of what goes in, and
\* gives so many units for AMOUNT that the roundings do not count.  (A token with a fee
\* reverts in the pair; of V3 and Aerodrome pools nothing is said.)
DeepAreKept ==
    stage = "trial" /\ pools_left = {} =>
        \A p \in ToSet(SyncedPools) :
            LET in  == IF Forth(p) THEN p.reserve0 ELSE p.reserve1
                out == IF Forth(p) THEN p.reserve1 ELSE p.reserve0
            IN  (/\ p.type \in V2Basic /\ {p.token0, p.token1} \subseteq Sound
                 /\ \E list \in lists_used : {p.token0, p.token1} \subseteq list \ BLACKLIST
                 /\ Plain(p.token0) /\ Plain(p.token1)
                 /\ in >= AMOUNT * 60 /\ getAmountOut(router_fee(p.type), AMOUNT, in, out) >= 100)
                => p \in ToSet(filtered_pools)

=============================================================================
