-------------------------------- MODULE Searcher --------------------------------
(***************************************************************************)
(* The searcher thread (searcher.rs) with the calculator's output cache    *)
(* (calculator.rs, cache.rs) and the versions of the rates the estimator   *)
(* keeps, beside an updater that goes on writing the pools it reads.  The  *)
(* updater is BlockFeed, which BlockSync implements.                       *)
(*                                                                         *)
(* What a pool holds is abstracted to its version, the last block written  *)
(* that touched it; what a swap yields is a constant function of pool,     *)
(* direction, version and amount.  Which of the touched paths, if any, the *)
(* estimates single out is left open here (Estimator models the rates).    *)
(***************************************************************************)
EXTENDS BlockFeed

CONSTANTS
    Pools,      \* the working set
    Paths,      \* the cycles: sequences of steps [pool, dir]
    Dirs,       \* the direction of a swap, token_in
    Amounts,    \* the amounts that occur, with 0 and AMOUNT
    AMOUNT,     \* the input of every path
    MinProfit,  \* Searchoor.min_profit: the output a path must reach
    Output,     \* Output[pool, dir, version, amount]: compute_amount_out
    NoEntry,    \* a missing entry of the cache or of the rates
    NoArb       \* nothing sent yet

Steps    == [pool : Pools, dir : Dirs]
Versions == FeedBlocks \cup {SyncedAt}

ASSUME SearcherAssumption ==
    /\ SyncedAt \in Nat /\ FeedBlocks \subseteq Nat
    /\ Paths \subseteq Seq(Steps)
    /\ Amounts \subseteq Nat /\ {0, AMOUNT} \subseteq Amounts
    /\ MinProfit \in Nat \ {0}
    /\ Output \in [Pools \X Dirs \X Versions \X Amounts -> Amounts]

ASSUME NoEntryAssumption == NoEntry \notin [out : Amounts, ver : Versions] \cup (Versions \X Versions)

VARIABLES
    touches,   \* the feed: the pools each block of applied wrote, parallel to it
    version,   \* the database: the last block written that touched the pool
    received,  \* how many PoolsTouched events the searcher has taken
    pc,        \* "start" and "initial": main; then the searcher thread
    toRate,    \* process_pools: the pools still to rate
    rating,    \* process_pools: {<<pool, version of its first quote>>}, or empty
    rates,     \* the versions the two rates of a pool were computed from
    cache,     \* the calculator's cache, by pool and input amount
    path,      \* calculate_output: the path in hand, the amount so far and
    amount,    \*   the versions its steps used (history)
    used,
    arb        \* the last ArbPath sent

feedSide   == <<feedVars, touches, version>>
rateVars   == <<toRate, rating, rates>>
calcVars   == <<path, amount, used>>
vars == <<feedSide, received, pc, rateVars, cache, calcVars, arb>>

Keys    == Pools \X Amounts
Entries == [out : Amounts, ver : Versions]

TypeOK ==
    /\ FeedTypeOK
    /\ touches \in Seq(SUBSET Pools) /\ Len(touches) = Len(applied)
    /\ version \in [Pools -> Versions]
    /\ received \in 0..Len(published)
    /\ pc \in {"start", "initial", "recv", "rates", "choose", "calc"}
    /\ toRate \subseteq Pools
    /\ rating \subseteq toRate \X Versions
    /\ rates \in [Pools -> (Versions \X Versions) \cup {NoEntry}]
    /\ cache \in [Keys -> Entries \cup {NoEntry}]
    /\ path \in Paths \cup {<<>>}
    /\ amount \in Amounts
    /\ used \in Seq(Versions) /\ Len(used) <= Len(path)
    /\ arb \in [path : Paths, block : FeedBlocks, used : Seq(Versions)] \cup {NoArb}

Init ==
    /\ FeedInit
    /\ touches = <<>>
    /\ version = [p \in Pools |-> SyncedAt]
    /\ received = 0
    /\ pc = "start"
    /\ toRate = {} /\ rating = {}
    /\ rates = [p \in Pools |-> NoEntry]
    /\ cache = [k \in Keys |-> NoEntry]
    /\ path = <<>> /\ amount = 0 /\ used = <<>>
    /\ arb = NoArb

-----------------------------------------------------------------------------
(* The feed: update_state writes the pools of a block under the write lock,
   in one step for every reader; the event goes out later. *)

WritePools(b, ps) ==
    /\ touches' = Append(touches, ps)
    /\ version' = [p \in Pools |-> IF p \in ps THEN b ELSE version[p]]

WriteBlock(b, ps) ==
    /\ CatchUp(b) \/ Apply(b)
    /\ WritePools(b, ps)
    /\ UNCHANGED <<received, pc, rateVars, cache, calcVars, arb>>

StoreCaughtUp ==
    /\ GoLive
    /\ UNCHANGED <<touches, version, received, pc, rateVars, cache, calcVars, arb>>

\* The channel loses nothing: it is the log published, read at received.
SendPoolsTouched ==
    /\ Publish
    /\ UNCHANGED <<touches, version, received, pc, rateVars, cache, calcVars, arb>>

-----------------------------------------------------------------------------
(* start_workers rates every pool once the catch-up is over, then hands the
   estimator to the searcher thread.  A mutant is a plausible slip in the
   operator below it. *)

MutantNoWait == TRUE
CaughtUp == live

StartRates ==
    /\ pc = "start"
    /\ CaughtUp
    /\ pc' = "initial"
    /\ toRate' = Pools
    /\ UNCHANGED <<feedSide, received, rating, rates, cache, calcVars, arb>>

(* process_pools: two quotes of each pool, each under a read lock of its own. *)

FirstQuote(p) ==
    /\ pc \in {"initial", "rates"}
    /\ p \in toRate
    /\ rating = {}
    /\ rating' = {<<p, version[p]>>}
    /\ UNCHANGED <<feedSide, received, pc, toRate, rates, cache, calcVars, arb>>

SecondQuote(p, v) ==
    /\ <<p, v>> \in rating
    /\ rates' = [rates EXCEPT ![p] = <<v, version[p]>>]
    /\ rating' = {}
    /\ toRate' = toRate \ {p}
    /\ UNCHANGED <<feedSide, received, pc, cache, calcVars, arb>>

MutantHalfRated == TRUE
AllRated == toRate = {}

RatesDone ==
    /\ pc \in {"initial", "rates"}
    /\ AllRated
    /\ pc' = IF pc = "initial" THEN "recv" ELSE "choose"
    /\ UNCHANGED <<feedSide, received, rateVars, cache, calcVars, arb>>

-----------------------------------------------------------------------------
(* search_paths. *)

\* The next event of the channel; the mutant jumps to the newest one.
MutantTakeNewest == received' = Len(published)
TakeNext == received' = received + 1

\* The pools of the n-th batch, and the block of the one in hand.
Batch(n) == touches[base + n]
BatchBlock == published[received]

MutantInvalidateNone(ps) == UNCHANGED cache
InvalidateCache(ps) ==
    cache' = [k \in Keys |-> IF k[1] \in ps THEN NoEntry ELSE cache[k]]

\* The pools to rate again; the mutant is content with a rate it has.
MutantRateOnce(ps) == {p \in ps : rates[p] = NoEntry}
UpdateRates(ps) == ps

\* recv, then invalidate_cache: only this thread uses the cache.
Receive ==
    /\ pc = "recv"
    /\ received < Len(published)
    /\ TakeNext
    /\ InvalidateCache(Batch(received'))
    /\ toRate' = UpdateRates(Batch(received'))
    /\ pc' = "rates"
    /\ UNCHANGED <<feedSide, rating, rates, calcVars, arb>>

PoolsOf(pa) == {pa[i].pool : i \in DOMAIN pa}

\* The best estimate among the touched paths is to be calculated.
Choose(pa) ==
    /\ pc = "choose"
    /\ PoolsOf(pa) \cap Batch(received) # {}
    /\ path' = pa
    /\ amount' = AMOUNT
    /\ used' = <<>>
    /\ pc' = "calc"
    /\ UNCHANGED <<feedSide, received, rateVars, cache, arb>>

\* No touched path is estimated to be profitable.
ChooseNone ==
    /\ pc = "choose"
    /\ pc' = "recv"
    /\ UNCHANGED <<feedSide, received, rateVars, cache, calcVars, arb>>

-----------------------------------------------------------------------------
(* calculate_output. *)

Step      == path[Len(used) + 1]
Calculating == pc = "calc" /\ Len(used) < Len(path) /\ amount # 0
CacheKey  == <<Step.pool, amount>>
compute_amount_out == Output[<<Step.pool, Step.dir, version[Step.pool], amount>>]

UseCached ==
    /\ Calculating
    /\ cache[CacheKey] # NoEntry
    /\ amount' = cache[CacheKey].out
    /\ used' = Append(used, cache[CacheKey].ver)
    /\ UNCHANGED <<feedSide, received, pc, rateVars, cache, path, arb>>

\* Each computation takes the read lock for itself.
Compute ==
    /\ Calculating
    /\ cache[CacheKey] = NoEntry
    /\ amount' = compute_amount_out
    /\ used' = Append(used, version[Step.pool])
    /\ cache' = [cache EXCEPT ![CacheKey] = [out |-> compute_amount_out,
                                             ver |-> version[Step.pool]]]
    /\ UNCHANGED <<feedSide, received, pc, rateVars, path, arb>>

\* A result of at least min_profit is sent, any other is dropped.
Finish ==
    /\ pc = "calc"
    /\ ~Calculating
    /\ arb' = IF amount >= MinProfit
              THEN [path |-> path, block |-> BatchBlock, used |-> used]
              ELSE arb
    /\ path' = <<>> /\ amount' = 0 /\ used' = <<>>
    /\ pc' = "recv"
    /\ UNCHANGED <<feedSide, received, rateVars, cache>>

-----------------------------------------------------------------------------
Updater == StoreCaughtUp \/ SendPoolsTouched
        \/ \E b \in FeedBlocks, ps \in SUBSET Pools : WriteBlock(b, ps)
Rating  == StartRates \/ RatesDone
        \/ \E p \in Pools : FirstQuote(p) \/ \E v \in Versions : SecondQuote(p, v)
Search  == Receive \/ (\E pa \in Paths : Choose(pa)) \/ ChooseNone
        \/ UseCached \/ Compute \/ Finish

Next == Updater \/ Rating \/ Search

Spec == Init /\ [][Next]_vars

\* The searcher is a thread of its own, and a block written is announced in the
\* same iteration of the updater; no block need ever come.
FairSpec == Spec /\ WF_vars(Rating) /\ WF_vars(Search) /\ WF_vars(SendPoolsTouched)

-----------------------------------------------------------------------------
(* Properties. *)

\* A block that touched the pool is written, and the searcher has not yet taken
\* the event that says so.
Pending(p) == \E i \in (base + received + 1)..Len(applied) : p \in touches[i]

\* A cached output comes from what the pool holds now, unless the event that will
\* throw it out is on its way: an output stored after the pool was rewritten
\* (calculator.rs computes, unlocks, then stores) is never left behind.
CacheCoherent ==
    \A k \in Keys : cache[k] # NoEntry => cache[k].ver = version[k[1]] \/ Pending(k[1])

\* The same for rates, from the moment main has computed the first ones; both
\* directions of a pool are then of one version.
RatesCoherent ==
    pc # "start" =>
        \A p \in Pools \ toRate : rates[p] = <<version[p], version[p]>> \/ Pending(p)

\* An ArbPath for block b uses no pool state older than b, cached or computed: the
\* simulator never gets a result from before the block it is told.
ArbsFresh ==
    arb # NoArb =>
        \A i \in DOMAIN applied, j \in DOMAIN arb.path :
            applied[i] <= arb.block /\ arb.path[j].pool \in touches[i]
                => arb.used[j] >= applied[i]

\* If the blocks stop, rates and cache end up and stay at what the pools hold.
Settles ==
    <>[](live => /\ \A p \in Pools : rates[p] = <<version[p], version[p]>>
                 /\ \A k \in Keys : cache[k] # NoEntry => cache[k].ver = version[k[1]])

\* What calculator.rs:41 says: the database does not change while an output is
\* calculated, so the steps of an ArbPath all used the state after one block.
OneSnapshot ==
    arb # NoArb =>
        \E b \in Versions : \A j \in DOMAIN arb.path :
            /\ arb.used[j] <= b
            /\ \A i \in DOMAIN applied :
                  arb.path[j].pool \in touches[i] /\ applied[i] <= b => applied[i] <= arb.used[j]

=============================================================================
