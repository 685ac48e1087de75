---------------------------- MODULE SearcherProofs ----------------------------
(***************************************************************************)
(* Proofs about Searcher for every set of pools, cycles, blocks and        *)
(* outputs: rates and cache never outlive the pools without an event on    *)
(* the way, and an ArbPath is never older than its block.                  *)
(*                                                                         *)
(* The idea: a version covers a pool if it is no older than any block the  *)
(* searcher has been told of that touched the pool.  A version just read   *)
(* covers its pool whatever the searcher knows; taking an event can only   *)
(* end this for the pools of the event, whose entries go at that moment.   *)
(***************************************************************************)
EXTENDS Searcher, BlockFeedProofs

USE DEF CaughtUp, AllRated, TakeNext, InvalidateCache, UpdateRates

\* How far the searcher has been told of the blocks written.
Told == base + received

Covers(v, p) ==
    /\ SyncedAt <= v /\ v <= version[p]
    /\ \A i \in DOMAIN applied : i <= Told /\ p \in touches[i] => applied[i] <= v

\* A pool's version is the last block that touched it.
VersionInv ==
    \A p \in Pools :
        /\ SyncedAt <= version[p]
        /\ \A i \in DOMAIN applied : p \in touches[i] => applied[i] <= version[p]
        /\ \/ version[p] = SyncedAt
           \/ \E i \in DOMAIN applied : p \in touches[i] /\ version[p] = applied[i]

\* Where the thread is.
PcInv ==
    /\ pc = "start" => received = 0 /\ toRate = {} /\ \A k \in Keys : cache[k] = NoEntry
    /\ pc # "start" => live
    /\ pc \in {"recv", "choose", "calc"} => toRate = {}
    /\ pc \in {"rates", "choose", "calc"} => received > 0
    /\ pc = "calc" => path \in Paths

\* All the searcher keeps covers the pools it comes from.
KeptInv ==
    /\ \A p \in Pools, v \in Versions : <<p, v>> \in rating => Covers(v, p)
    /\ pc # "start" =>
          \A p \in Pools \ toRate :
              \E v, w \in Versions : rates[p] = <<v, w>> /\ Covers(v, p) /\ Covers(w, p)
    /\ \A k \in Keys : cache[k] # NoEntry => Covers(cache[k].ver, k[1])
    /\ pc = "calc" => \A j \in 1..Len(used) : Covers(used[j], path[j].pool)

ArbInv ==
    arb # NoArb =>
        \E n \in 1..Told :
            /\ n \in DOMAIN applied /\ arb.block = applied[n]
            /\ \A i \in DOMAIN applied, j \in DOMAIN arb.path :
                  i <= n /\ arb.path[j].pool \in touches[i] => applied[i] <= arb.used[j]

\* OrderInv is BlockFeedProofs': blocks ascend, events name the live ones in order.
SearchInv == OrderInv /\ VersionInv /\ PcInv /\ KeptInv /\ ArbInv

IInv == TypeOK /\ SearchInv

-----------------------------------------------------------------------------

\* The initial state satisfies the inductive invariant.
LEMMA InitEstablishes == Init => IInv
<1> SUFFICES ASSUME Init PROVE IInv
  OBVIOUS
<1> USE SearcherAssumption, NoEntryAssumption
<1>1. TypeOK
  <2>1. FeedTypeOK
    <3>1. live \in BOOLEAN
      BY Zenon DEF Init, FeedInit
    <3> QED BY <3>1 DEF Init, FeedInit, FeedTypeOK
  <2>2. version \in [Pools -> Versions] /\ cache \in [Keys -> Entries \cup {NoEntry}]
        /\ rates \in [Pools -> (Versions \X Versions) \cup {NoEntry}]
    BY DEF Init, Versions
  <2>3. used \in Seq(Versions) /\ Len(used) <= Len(path) /\ touches \in Seq(SUBSET Pools)
        /\ Len(touches) = Len(applied) /\ received \in 0..Len(published)
    BY DEF Init, FeedInit
  <2> QED BY <2>1, <2>2, <2>3 DEF Init, TypeOK
<1>2. SearchInv
  BY DEF Init, FeedInit, SearchInv, OrderInv, VersionInv, PcInv, KeptInv, ArbInv, Versions
<1> QED BY <1>1, <1>2 DEF IInv

\* A step of the feed keeps the types of what it writes.
LEMMA TypeStep == IInv /\ [Next]_vars => TypeOK'
<1> SUFFICES ASSUME IInv, [Next]_vars PROVE TypeOK'
  OBVIOUS
<1> USE SearcherAssumption, NoEntryAssumption
        DEF feedSide, feedVars, rateVars, calcVars
<1> TypeOK /\ SearchInv
  BY DEF IInv
<1>t. /\ FeedTypeOK /\ DOMAIN applied = 1..Len(applied) /\ Len(applied) \in Nat
      /\ Len(published) \in Nat
  BY DEF TypeOK, FeedTypeOK
<1>1. ASSUME NEW b \in FeedBlocks, NEW ps \in SUBSET Pools, WriteBlock(b, ps) PROVE TypeOK'
  <2>1. /\ applied' = Append(applied, b) /\ UNCHANGED <<live, base, published>>
    BY <1>1 DEF WriteBlock, CatchUp, Apply
  <2>2. /\ applied' \in Seq(FeedBlocks) /\ Len(applied') = Len(applied) + 1
    BY <2>1, <1>t DEF FeedTypeOK
  <2>3. touches' \in Seq(SUBSET Pools) /\ Len(touches') = Len(applied')
    BY <1>1, <2>2 DEF WriteBlock, WritePools, TypeOK
  <2>4. version' \in [Pools -> Versions]
    BY <1>1 DEF WriteBlock, WritePools, TypeOK, Versions
  <2>5. FeedTypeOK'
    BY <2>1, <2>2, <1>t DEF FeedTypeOK
  <2> QED BY <1>1, <2>1, <2>3, <2>4, <2>5 DEF WriteBlock, TypeOK
<1>2. CASE StoreCaughtUp
  <2>1. FeedTypeOK'
    <3>1. live' = TRUE
      BY <1>2 DEF StoreCaughtUp, GoLive
    <3>2. live' \in BOOLEAN
      BY <3>1, Zenon
    <3> QED BY <1>2, <1>t, <3>2 DEF StoreCaughtUp, GoLive, FeedTypeOK
  <2> QED BY <1>2, <2>1 DEF StoreCaughtUp, GoLive, TypeOK
<1>3. CASE SendPoolsTouched
  <2>1. applied # <<>>
    BY <1>3, <1>t DEF SendPoolsTouched, Publish, Settled, SearchInv, OrderInv, TypeOK, FeedTypeOK
  <2>2. Newest \in FeedBlocks
    BY <1>t, <2>1 DEF Newest, FeedTypeOK
  <2>3. published' \in Seq(FeedBlocks) /\ Len(published') = Len(published) + 1
    BY <1>3, <2>2, <1>t DEF SendPoolsTouched, Publish, FeedTypeOK
  <2>4. FeedTypeOK'
    BY <1>3, <2>3, <1>t DEF SendPoolsTouched, Publish, FeedTypeOK
  <2> QED BY <1>3, <2>3, <2>4, <1>t DEF SendPoolsTouched, Publish, TypeOK
<1>4. CASE StartRates
  BY <1>4 DEF StartRates, TypeOK, FeedTypeOK
<1>5. ASSUME NEW p \in Pools, FirstQuote(p) PROVE TypeOK'
  <2>1. rating' \subseteq toRate' \X Versions
    BY <1>5 DEF FirstQuote, TypeOK
  <2> QED BY <1>5, <2>1 DEF FirstQuote, TypeOK, FeedTypeOK
<1>6. ASSUME NEW p \in Pools, NEW v \in Versions, SecondQuote(p, v) PROVE TypeOK'
  <2>1. rates' \in [Pools -> (Versions \X Versions) \cup {NoEntry}]
    BY <1>6 DEF SecondQuote, TypeOK
  <2> QED BY <1>6, <2>1 DEF SecondQuote, TypeOK, FeedTypeOK
<1>7. CASE RatesDone
  BY <1>7 DEF RatesDone, TypeOK, FeedTypeOK
<1>8. CASE Receive
  <2>1. base + received' \in 1..Len(touches)
    BY <1>8, <1>t DEF Receive, SearchInv, OrderInv, TypeOK, FeedTypeOK
  <2>2. Batch(received)' \subseteq Pools /\ Batch(received') = Batch(received)'
    BY <1>8, <2>1 DEF Receive, Batch, TypeOK
  <2>3. cache' \in [Keys -> Entries \cup {NoEntry}]
    BY <1>8 DEF Receive, TypeOK
  <2>4. rating = {}
    BY <1>8 DEF Receive, SearchInv, PcInv, TypeOK
  <2>5. received' \in 0..Len(published')
    BY <1>8, <1>t DEF Receive, TypeOK
  <2>6. toRate' \subseteq Pools /\ rating' \subseteq toRate' \X Versions
    BY <1>8, <2>2, <2>4 DEF Receive
  <2> QED BY <1>8, <2>3, <2>5, <2>6 DEF Receive, TypeOK, FeedTypeOK
<1>9. ASSUME NEW pa \in Paths, Choose(pa) PROVE TypeOK'
  <2>1. Len(pa) \in Nat
    OBVIOUS
  <2>2. used' \in Seq(Versions) /\ Len(used') <= Len(path')
    BY <1>9, <2>1 DEF Choose
  <2> QED BY <1>9, <2>2 DEF Choose, TypeOK, FeedTypeOK
<1>10. CASE ChooseNone
  BY <1>10 DEF ChooseNone, TypeOK, FeedTypeOK
<1>s. ASSUME Calculating
      PROVE  /\ Step \in Steps /\ CacheKey \in Keys /\ Len(used) \in Nat /\ Len(path) \in Nat
             /\ Len(used) + 1 <= Len(path)
  <2>1. path \in Paths /\ path \in Seq(Steps)
    BY <1>s DEF Calculating, SearchInv, PcInv
  <2>2. Len(used) \in Nat /\ Len(path) \in Nat /\ Len(used) < Len(path)
    BY <1>s, <2>1 DEF Calculating, TypeOK
  <2>3. Len(used) + 1 \in 1..Len(path)
    BY <2>2
  <2>4. Step \in Steps
    BY <2>1, <2>3 DEF Step
  <2>5. CacheKey \in Keys
    BY <2>4 DEF CacheKey, Keys, Steps, TypeOK
  <2> QED BY <2>2, <2>4, <2>5
<1>11. CASE UseCached
  <2>1. cache[CacheKey] \in Entries
    BY <1>11, <1>s DEF UseCached, TypeOK
  <2>2. amount' \in Amounts /\ used' \in Seq(Versions) /\ Len(used') = Len(used) + 1
    BY <1>11, <2>1 DEF UseCached, Entries, TypeOK
  <2> QED BY <1>11, <1>s, <2>2 DEF UseCached, TypeOK, FeedTypeOK
<1>12. CASE Compute
  <2>1. version[Step.pool] \in Versions
    BY <1>12, <1>s DEF Compute, Steps, TypeOK
  <2>2. compute_amount_out \in Amounts
    <3>1. <<Step.pool, Step.dir, version[Step.pool], amount>>
              \in Pools \X Dirs \X Versions \X Amounts
      BY <1>12, <1>s, <2>1 DEF Compute, Steps, TypeOK
    <3> QED BY <3>1 DEF compute_amount_out
  <2>3. [out |-> compute_amount_out, ver |-> version[Step.pool]] \in Entries
    BY <2>1, <2>2 DEF Entries
  <2>4. cache' \in [Keys -> Entries \cup {NoEntry}]
    BY <1>12, <2>3 DEF Compute, TypeOK
  <2>5. used' \in Seq(Versions) /\ Len(used') = Len(used) + 1
    BY <1>12, <2>1 DEF Compute, TypeOK
  <2> QED BY <1>12, <1>s, <2>2, <2>4, <2>5 DEF Compute, TypeOK, FeedTypeOK
<1>13. CASE Finish
  <2>1. received > 0 /\ path \in Paths
    BY <1>13 DEF Finish, SearchInv, PcInv
  <2>2. BatchBlock \in FeedBlocks
    BY <2>1, <1>t DEF BatchBlock, TypeOK, FeedTypeOK
  <2>3. [path |-> path, block |-> BatchBlock, used |-> used]
            \in [path : Paths, block : FeedBlocks, used : Seq(Versions)]
    BY <2>1, <2>2 DEF TypeOK
  <2>4. arb' \in [path : Paths, block : FeedBlocks, used : Seq(Versions)] \cup {NoArb}
    BY <1>13, <2>3 DEF Finish, TypeOK
  <2>5. used' \in Seq(Versions) /\ Len(used') <= Len(path') /\ path' = <<>> /\ amount' \in Amounts
    BY <1>13 DEF Finish
  <2> QED BY <1>13, <2>4, <2>5 DEF Finish, TypeOK, FeedTypeOK
<1>14. CASE UNCHANGED vars
  BY <1>14 DEF vars, TypeOK, FeedTypeOK
<1> QED BY <1>1, <1>2, <1>3, <1>4, <1>5, <1>6, <1>7, <1>8, <1>9, <1>10, <1>11, <1>12, <1>13, <1>14
        DEF Next, Updater, Rating, Search

-----------------------------------------------------------------------------

\* Facts about the types that the steps below share.
LEMMA Types ==
    ASSUME IInv
    PROVE  /\ DOMAIN applied = 1..Len(applied) /\ Len(applied) \in Nat
           /\ DOMAIN published = 1..Len(published) /\ Len(published) \in Nat
           /\ \A i \in 1..Len(applied) : applied[i] \in Nat /\ applied[i] \in FeedBlocks
           /\ base \in Nat /\ received \in Nat /\ received <= Len(published)
           /\ Told \in Nat /\ Told <= Len(applied)
           /\ SyncedAt \in Nat /\ Versions \subseteq Nat
           /\ \A p \in Pools : version[p] \in Versions
<1>1. TypeOK /\ FeedTypeOK /\ OrderInv /\ PcInv
  BY DEF IInv, TypeOK, SearchInv
<1>2. /\ DOMAIN applied = 1..Len(applied) /\ Len(applied) \in Nat
      /\ DOMAIN published = 1..Len(published) /\ Len(published) \in Nat
      /\ \A i \in 1..Len(applied) : applied[i] \in FeedBlocks
  BY <1>1 DEF FeedTypeOK
<1>3. base \in Nat /\ received \in Nat /\ received <= Len(published)
  BY <1>1, <1>2 DEF FeedTypeOK, TypeOK
<1>4. Told <= Len(applied)
  <2>1. CASE live
    <3>1. Len(applied) = base + Len(published) \/ Len(applied) = base + Len(published) + 1
      BY <2>1, <1>1, Zenon DEF OrderInv
    <3>2. /\ Len(applied) \in Nat /\ Len(published) \in Nat /\ base \in Nat
          /\ received \in Nat /\ received <= Len(published)
      BY <1>2, <1>3
    <3> QED BY ONLY <3>1, <3>2 DEF Told
  <2>2. CASE ~live
    <3>1. base = 0 /\ Len(published) = 0
      BY <2>2, <1>1 DEF OrderInv
    <3> QED BY <3>1, <1>2, <1>3 DEF Told
  <2> QED BY <2>1, <2>2
<1>5. SyncedAt \in Nat /\ Versions \subseteq Nat /\ FeedBlocks \subseteq Nat
  BY SearcherAssumption DEF Versions
<1>6. \A p \in Pools : version[p] \in Versions
  BY <1>1 DEF TypeOK
<1>7. \A i \in 1..Len(applied) : applied[i] \in Nat /\ applied[i] \in FeedBlocks
  BY <1>2, <1>5
<1>8. Told \in Nat
  BY <1>3 DEF Told
<1> QED BY <1>2, <1>3, <1>4, <1>5, <1>6, <1>7, <1>8

\* What the pool holds at the moment covers it.
LEMMA ReadCovers == ASSUME IInv, NEW p \in Pools PROVE Covers(version[p], p)
<1>1. version[p] \in Nat
  BY Types
<1>2. /\ SyncedAt <= version[p]
      /\ \A i \in DOMAIN applied : p \in touches[i] => applied[i] <= version[p]
  BY DEF IInv, SearchInv, VersionInv
<1> QED BY <1>1, <1>2 DEF Covers

\* A version that covers a pool is what the pool holds, or an event is on its way.
LEMMA CoversCurrent ==
    ASSUME IInv, NEW p \in Pools, NEW v \in Versions, Covers(v, p), ~Pending(p)
    PROVE  v = version[p]
<1> USE Types
<1>1. v \in Nat /\ version[p] \in Nat /\ SyncedAt <= v /\ v <= version[p]
  BY DEF Covers
<1>2. CASE version[p] = SyncedAt
  BY <1>1, <1>2
<1>3. ASSUME NEW i \in DOMAIN applied, p \in touches[i], version[p] = applied[i]
      PROVE  v = version[p]
  <2>1. i \in Nat /\ i <= Len(applied)
    OBVIOUS
  <2>2. i <= Told
    BY <1>3, <2>1 DEF Pending, Told
  <2> QED BY <1>1, <1>3, <2>2 DEF Covers
<1> QED BY <1>2, <1>3 DEF IInv, SearchInv, VersionInv

\* A block written moves neither the searcher nor anything it was told of.
LEMMA WriteStep ==
    ASSUME IInv, NEW b \in FeedBlocks, NEW ps \in SUBSET Pools, WriteBlock(b, ps)
    PROVE  SearchInv'
<1> USE Types DEF rateVars, calcVars
<1> OrderInv /\ VersionInv /\ PcInv /\ KeptInv /\ ArbInv /\ TypeOK /\ b \in Nat
  BY SearcherAssumption DEF IInv, SearchInv
<1> DEFINE n == Len(applied)
<1>1. /\ applied' = Append(applied, b) /\ UNCHANGED <<live, base, published, received>>
      /\ b > Newest \/ b = Newest + 1
      /\ live => Len(applied) = base + Len(published)
  BY DEF WriteBlock, CatchUp, Apply, Settled
<1>2. /\ Len(applied') = n + 1 /\ DOMAIN applied' = 1..(n + 1)
      /\ \A i \in 1..n : applied'[i] = applied[i]
      /\ applied'[n + 1] = b
  <2>1. applied \in Seq(FeedBlocks)
    BY DEF TypeOK, FeedTypeOK
  <2> QED BY <1>1, <2>1
<1>3. (\A i \in 1..n : touches'[i] = touches[i]) /\ touches'[n + 1] = ps
  BY DEF WriteBlock, WritePools, TypeOK
<1>4. \A p \in Pools : version'[p] = IF p \in ps THEN b ELSE version[p]
  BY DEF WriteBlock, WritePools
<1>5. SyncedAt < b /\ \A i \in 1..n : applied[i] < b
  BY <1>1, NextIsNewer, SearcherAssumption DEF TypeOK
<1>6. Told' = Told /\ Told <= n
  BY <1>1 DEF Told
<1>7. OrderInv'
  <2>1. FeedNext
    BY DEF WriteBlock, FeedNext
  <2> QED BY <2>1, FeedStep, SearcherAssumption DEF TypeOK
<1>8. VersionInv'
  <2> SUFFICES ASSUME NEW p \in Pools
               PROVE  /\ SyncedAt <= version'[p]
                      /\ \A i \in 1..(n + 1) : p \in touches'[i] => applied'[i] <= version'[p]
                      /\ \/ version'[p] = SyncedAt
                         \/ \E i \in 1..(n + 1) : p \in touches'[i] /\ version'[p] = applied'[i]
    BY <1>2 DEF VersionInv
  <2>1. CASE p \in ps
    <3>1. version'[p] = b /\ SyncedAt <= b
      BY <2>1, <1>4, <1>5
    <3>2. \A i \in 1..n : applied'[i] = applied[i] /\ applied[i] < b /\ applied[i] \in Nat
      BY <1>2, <1>5
    <3>3. \A i \in 1..(n + 1) : i \in 1..n \/ i = n + 1
      OBVIOUS
    <3>4. \A i \in 1..(n + 1) : applied'[i] <= b
      BY ONLY <3>2, <3>3, <1>2, b \in Nat
    <3>5. n + 1 \in 1..(n + 1) /\ p \in touches'[n + 1] /\ b = applied'[n + 1]
      BY <2>1, <1>2, <1>3
    <3> QED BY <3>1, <3>4, <3>5
  <2>2. CASE p \notin ps
    <3>1. version'[p] = version[p] /\ SyncedAt <= version'[p]
      BY <2>2, <1>4 DEF VersionInv
    <3>2. \A i \in 1..(n + 1) : i \in 1..n \/ i = n + 1
      OBVIOUS
    <3>3. \A i \in 1..(n + 1) : p \in touches'[i] => applied'[i] <= version'[p]
      BY <2>2, <3>1, <3>2, <1>2, <1>3 DEF VersionInv
    <3>4. \/ version'[p] = SyncedAt
          \/ \E i \in 1..n : p \in touches[i] /\ version[p] = applied[i]
      BY <3>1 DEF VersionInv
    <3>5. \A i \in 1..n : i \in 1..(n + 1) /\ touches'[i] = touches[i] /\ applied'[i] = applied[i]
      BY <1>2, <1>3
    <3> QED BY <3>1, <3>3, <3>4, <3>5
  <2> QED BY <2>1, <2>2
<1>9. \A p \in Pools, v \in Versions : Covers(v, p) => Covers(v, p)'
  <2> SUFFICES ASSUME NEW p \in Pools, NEW v \in Versions, Covers(v, p)
               PROVE  Covers(v, p)'
    OBVIOUS
  <2>1. SyncedAt <= v /\ v <= version'[p]
    <3>1. version[p] <= version'[p]
      <4>1. version[p] <= b
        BY <1>5 DEF VersionInv
      <4> QED BY <4>1, <1>4
    <3> QED BY <3>1, <1>4 DEF Covers
  <2>2. ASSUME NEW i \in 1..(n + 1), i <= Told, p \in touches'[i] PROVE applied'[i] <= v
    <3>1. i \in 1..n
      BY <2>2, <1>6
    <3> QED BY <3>1, <2>2, <1>2, <1>3 DEF Covers
  <2> QED BY <2>1, <2>2, <1>2, <1>6 DEF Covers
<1>10. PcInv'
  BY <1>1 DEF PcInv, WriteBlock
<1>11. KeptInv'
  <2>1. \A k \in Keys : cache[k] # NoEntry => cache[k].ver \in Versions /\ k[1] \in Pools
    BY DEF TypeOK, Entries, Keys
  <2>2. pc = "calc" => \A j \in 1..Len(used) : used[j] \in Versions /\ path[j].pool \in Pools
    <3> SUFFICES ASSUME pc = "calc", NEW j \in 1..Len(used)
                 PROVE  used[j] \in Versions /\ path[j].pool \in Pools
      OBVIOUS
    <3>1. path \in Seq(Steps) /\ Len(used) <= Len(path) /\ used \in Seq(Versions)
      BY SearcherAssumption DEF PcInv, TypeOK
    <3>2. path[j] \in Steps
      BY <3>1
    <3> QED BY <3>1, <3>2 DEF Steps
  <2> QED BY <2>1, <2>2, <1>9 DEF KeptInv, WriteBlock
<1>12. ArbInv'
  <2> SUFFICES ASSUME arb # NoArb
               PROVE  \E m \in 1..Told' :
                         /\ m \in DOMAIN applied' /\ arb.block = applied'[m]
                         /\ \A i \in DOMAIN applied', j \in DOMAIN arb.path :
                               i <= m /\ arb.path[j].pool \in touches'[i]
                                   => applied'[i] <= arb.used[j]
    BY DEF ArbInv, WriteBlock
  <2>1. PICK m \in 1..Told :
            /\ m \in 1..n /\ arb.block = applied[m]
            /\ \A i \in 1..n, j \in DOMAIN arb.path :
                  i <= m /\ arb.path[j].pool \in touches[i] => applied[i] <= arb.used[j]
    BY DEF ArbInv
  <2>2. \A i \in 1..(n + 1) : i <= m => i \in 1..n
    BY <2>1
  <2>3. m \in 1..Told' /\ m \in DOMAIN applied' /\ arb.block = applied'[m]
    BY <2>1, <1>2, <1>6
  <2>4. \A i \in 1..(n + 1), j \in DOMAIN arb.path :
            i <= m /\ arb.path[j].pool \in touches'[i] => applied'[i] <= arb.used[j]
    BY <2>1, <2>2, <1>2, <1>3
  <2>5. DOMAIN applied' = 1..(n + 1)
    BY <1>2
  <2> QED BY <2>3, <2>4, <2>5
<1> QED BY <1>7, <1>8, <1>10, <1>11, <1>12 DEF SearchInv

\* What the searcher keeps is of the right kind for Covers.
LEMMA KeptKinds ==
    ASSUME IInv
    PROVE  /\ \A k \in Keys : cache[k] # NoEntry => cache[k].ver \in Versions /\ k[1] \in Pools
           /\ pc = "calc" => \A j \in 1..Len(used) : used[j] \in Versions /\ path[j].pool \in Pools
<1> TypeOK /\ PcInv
  BY DEF IInv, SearchInv
<1>1. \A k \in Keys : cache[k] # NoEntry => cache[k].ver \in Versions /\ k[1] \in Pools
  BY DEF TypeOK, Entries, Keys
<1>2. ASSUME pc = "calc", NEW j \in 1..Len(used)
      PROVE  used[j] \in Versions /\ path[j].pool \in Pools
  <2>1. path \in Seq(Steps) /\ Len(used) <= Len(path) /\ used \in Seq(Versions)
    BY <1>2, SearcherAssumption DEF PcInv, TypeOK
  <2>2. path[j] \in Steps
    BY <2>1
  <2> QED BY <2>1, <2>2 DEF Steps
<1> QED BY <1>1, <1>2

\* The invariants on the feed survive every step of the searcher, and as long as
\* it takes no event the same versions cover.
LEMMA FeedKept ==
    ASSUME IInv, UNCHANGED feedSide
    PROVE  /\ OrderInv' /\ VersionInv'
           /\ UNCHANGED received =>
                 /\ \A p \in Pools, v \in Versions : Covers(v, p)' <=> Covers(v, p)
                 /\ UNCHANGED arb => ArbInv'
<1> OrderInv /\ VersionInv /\ ArbInv
  BY DEF IInv, SearchInv
<1> USE DEF feedSide, feedVars
<1>1. OrderInv' /\ VersionInv'
  BY DEF OrderInv, VersionInv
<1>2. ASSUME UNCHANGED received
      PROVE  \A p \in Pools, v \in Versions : Covers(v, p)' <=> Covers(v, p)
  BY <1>2 DEF Covers, Told
<1>3. ASSUME UNCHANGED received, UNCHANGED arb PROVE ArbInv'
  BY <1>3 DEF ArbInv, Told
<1> QED BY <1>1, <1>2, <1>3

\* If what the searcher keeps stays as it is and covers as it did, KeptInv stays.
LEMMA KeptStep ==
    ASSUME IInv, UNCHANGED <<rateVars, cache, calcVars>>, pc' = pc,
           \A p \in Pools, v \in Versions : Covers(v, p) => Covers(v, p)'
    PROVE  KeptInv'
<1> KeptInv
  BY DEF IInv, SearchInv
<1> QED BY KeptKinds DEF KeptInv, rateVars, calcVars

\* The other two steps of the updater.
LEMMA EventStep ==
    ASSUME IInv, StoreCaughtUp \/ SendPoolsTouched
    PROVE  SearchInv'
<1> USE Types
<1> OrderInv /\ VersionInv /\ PcInv /\ KeptInv /\ ArbInv /\ TypeOK
  BY DEF IInv, SearchInv
<1>1. CASE StoreCaughtUp
  <2>1. /\ ~live /\ live' = TRUE /\ base' = Len(applied)
        /\ UNCHANGED <<applied, published, touches, version, received, pc, rateVars, cache,
                       calcVars, arb>>
    BY <1>1 DEF StoreCaughtUp, GoLive
  <2>2. pc = "start" /\ received = 0 /\ published = <<>> /\ base = 0 /\ toRate = {}
        /\ \A k \in Keys : cache[k] = NoEntry
    BY <2>1, Zenon DEF PcInv, OrderInv
  <2>3. OrderInv'
    <3>1. FeedNext
      BY <1>1 DEF StoreCaughtUp, FeedNext
    <3> QED BY <3>1, FeedStep, SearcherAssumption DEF TypeOK
  <2>4. VersionInv'
    BY <2>1 DEF VersionInv
  <2>5. PcInv'
    BY <2>1, <2>2 DEF PcInv, rateVars, calcVars
  <2>6. rating = {}
    BY <2>2 DEF TypeOK
  <2>7. KeptInv'
    BY <2>1, <2>2, <2>6 DEF KeptInv, rateVars, calcVars
  <2>8. arb = NoArb
    <3>1. Told = 0 /\ 1..Told = {}
      BY <2>2 DEF Told
    <3> QED BY <3>1 DEF ArbInv
  <2>9. ArbInv'
    BY <2>1, <2>8 DEF ArbInv
  <2> QED BY <2>3, <2>4, <2>5, <2>7, <2>9 DEF SearchInv
<1>2. CASE SendPoolsTouched
  <2>1. /\ published' = Append(published, Newest)
        /\ UNCHANGED <<live, applied, base, touches, version, received, pc, rateVars, cache,
                       calcVars, arb>>
    BY <1>2 DEF SendPoolsTouched, Publish
  <2>2. OrderInv'
    <3>1. FeedNext
      BY <1>2 DEF SendPoolsTouched, FeedNext
    <3> QED BY <3>1, FeedStep, SearcherAssumption DEF TypeOK
  <2>3. VersionInv'
    BY <2>1 DEF VersionInv
  <2>4. PcInv'
    BY <2>1 DEF PcInv, rateVars, calcVars
  <2>5. \A p \in Pools, v \in Versions : Covers(v, p) => Covers(v, p)'
    BY <2>1 DEF Covers, Told
  <2>6. KeptInv'
    BY <2>1, <2>5, KeptStep
  <2>7. ArbInv'
    BY <2>1 DEF ArbInv, Told
  <2> QED BY <2>2, <2>3, <2>4, <2>6, <2>7 DEF SearchInv
<1> QED BY <1>1, <1>2

\* Rating: a rate is two quotes just taken, with no event taken between them.
LEMMA RatingStep == ASSUME IInv, Rating PROVE SearchInv'
<1> USE Types
<1> OrderInv /\ VersionInv /\ PcInv /\ KeptInv /\ ArbInv /\ TypeOK
  BY DEF IInv, SearchInv
<1>1. /\ UNCHANGED <<feedSide, received, arb, cache, calcVars>>
      /\ OrderInv' /\ VersionInv' /\ ArbInv'
      /\ \A p \in Pools, v \in Versions : Covers(v, p)' <=> Covers(v, p)
  <2>1. UNCHANGED <<feedSide, received, arb, cache, calcVars>>
    BY DEF Rating, StartRates, RatesDone, FirstQuote, SecondQuote, rateVars
  <2> QED BY <2>1, FeedKept
\* the cache is out of it
<1>2. \A k \in Keys : cache'[k] # NoEntry => Covers(cache[k].ver, k[1])'
  BY <1>1, KeptKinds DEF KeptInv
<1>3. CASE StartRates
  <2>0. live' = live
    BY <1>1 DEF feedSide, feedVars
  <2>1. live /\ live' /\ pc = "start" /\ pc' = "initial" /\ toRate' = Pools /\ toRate = {}
    <3>1. live /\ pc = "start" /\ pc' = "initial" /\ toRate' = Pools
      BY <1>3, Zenon DEF StartRates
    <3>2. toRate = {}
      BY <3>1 DEF PcInv
    <3> QED BY <2>0, <3>1, <3>2, Zenon
  <2>2. rating' = {}
    BY <1>3, <2>1 DEF StartRates, TypeOK
  <2>3. PcInv'
    BY <1>1, <2>1 DEF PcInv
  <2>4. KeptInv'
    BY <1>1, <1>2, <2>1, <2>2 DEF KeptInv
  <2> QED BY <1>1, <2>3, <2>4 DEF SearchInv
<1>4. ASSUME NEW p \in Pools, FirstQuote(p) PROVE SearchInv'
  <2>1. rating' = {<<p, version[p]>>} /\ UNCHANGED <<pc, toRate, rates>>
    BY <1>4 DEF FirstQuote
  <2>2. Covers(version[p], p)'
    <3>1. Covers(version[p], p)
      BY ReadCovers
    <3>2. version' = version
      BY <1>1 DEF feedSide
    <3> QED BY <1>1, <3>1, <3>2 DEF Covers, Told, feedSide, feedVars
  <2>3. \A q \in Pools, v \in Versions : <<q, v>> \in rating' => Covers(v, q)'
    <3>1. version' = version
      BY <1>1 DEF feedSide
    <3> QED BY <2>1, <2>2, <3>1
  <2>4. PcInv'
    BY <1>1, <2>1 DEF PcInv, feedSide, feedVars, calcVars
  <2>5. KeptInv'
    BY <1>1, <1>2, <2>1, <2>3, KeptKinds DEF KeptInv, calcVars
  <2> QED BY <1>1, <2>4, <2>5 DEF SearchInv
<1>5. ASSUME NEW p \in Pools, NEW v \in Versions, SecondQuote(p, v) PROVE SearchInv'
  <2>1. /\ <<p, v>> \in rating /\ rates' = [rates EXCEPT ![p] = <<v, version[p]>>]
        /\ rating' = {} /\ toRate' = toRate \ {p} /\ pc' = pc
    BY <1>5 DEF SecondQuote
  <2>2. p \in toRate /\ pc \notin {"start", "recv", "choose", "calc"}
    BY <2>1 DEF TypeOK, PcInv
  <2>3. Covers(v, p)' /\ Covers(version[p], p) /\ version[p] \in Versions
    BY <1>1, <2>1, ReadCovers DEF KeptInv
  <2>4. \A q \in Pools \ toRate' :
            \E x, y \in Versions : rates'[q] = <<x, y>> /\ Covers(x, q)' /\ Covers(y, q)'
    <3> SUFFICES ASSUME NEW q \in Pools, q \notin toRate'
                 PROVE  \E x, y \in Versions :
                           rates'[q] = <<x, y>> /\ Covers(x, q)' /\ Covers(y, q)'
      OBVIOUS
    <3>1. CASE q = p
      <4>1. rates'[q] = <<v, version[p]>>
        BY <2>1, <3>1 DEF TypeOK
      <4>2. PICK w \in Versions : w = version[p]
        BY <2>3
      <4>3. Covers(w, p)'
        BY <1>1, <2>3, <4>2
      <4> QED BY <2>3, <3>1, <4>1, <4>2, <4>3
    <3>2. CASE q # p
      <4>1. q \in Pools \ toRate /\ rates'[q] = rates[q] /\ pc # "start"
        BY <2>1, <2>2, <3>2 DEF TypeOK
      <4>2. PICK x \in Versions, y \in Versions :
                rates[q] = <<x, y>> /\ Covers(x, q) /\ Covers(y, q)
        BY <4>1 DEF KeptInv
      <4> QED BY <1>1, <4>1, <4>2
    <3> QED BY <3>1, <3>2
  <2>5. PcInv'
    BY <1>1, <2>1, <2>2 DEF PcInv, feedSide, feedVars
  <2>6. KeptInv'
    BY <1>1, <1>2, <2>1, <2>2, <2>4 DEF KeptInv
  <2> QED BY <1>1, <2>5, <2>6 DEF SearchInv
<1>6. CASE RatesDone
  <2>1. /\ pc \in {"initial", "rates"} /\ toRate = {} /\ UNCHANGED <<toRate, rating, rates>>
        /\ pc' = IF pc = "initial" THEN "recv" ELSE "choose"
    BY <1>6 DEF RatesDone, rateVars
  <2>2. PcInv'
    BY <1>1, <2>1 DEF PcInv, feedSide, feedVars
  <2>3. KeptInv'
    BY <1>1, <1>2, <2>1 DEF KeptInv
  <2> QED BY <1>1, <2>2, <2>3 DEF SearchInv
<1> QED BY <1>3, <1>4, <1>5, <1>6 DEF Rating

\* An event taken ends only what is thrown out with it.
LEMMA ReceiveStep == ASSUME IInv, Receive PROVE SearchInv'
<1> USE Types
<1> OrderInv /\ VersionInv /\ PcInv /\ KeptInv /\ ArbInv /\ TypeOK
  BY DEF IInv, SearchInv
<1> DEFINE ps == touches[Told + 1]
<1>1. /\ pc = "recv" /\ pc' = "rates" /\ received < Len(published) /\ received' = received + 1
      /\ cache' = [k \in Keys |-> IF k[1] \in ps THEN NoEntry ELSE cache[k]]
      /\ toRate' = ps /\ toRate = {}
      /\ UNCHANGED <<feedSide, rating, rates, calcVars, arb>>
  <2>1. base + (received + 1) = Told + 1
    BY DEF Told
  <2> QED BY <2>1 DEF Receive, Batch, PcInv
<1>2. OrderInv' /\ VersionInv'
  BY <1>1, FeedKept
<1>3. Told' = Told + 1
  BY <1>1 DEF Told, feedSide, feedVars
<1>4. ASSUME NEW p \in Pools, NEW v \in Versions, Covers(v, p), p \notin ps
      PROVE  Covers(v, p)'
  <2>1. applied' = applied /\ version' = version /\ touches' = touches
    BY <1>1 DEF feedSide, feedVars
  <2>2. ASSUME NEW i \in 1..Len(applied), i <= Told + 1, p \in touches[i] PROVE applied[i] <= v
    <3>1. i # Told + 1
      BY <1>4, <2>2
    <3>2. i <= Told
      BY <2>2, <3>1
    <3> QED BY <1>4, <2>2, <3>2 DEF Covers
  <2> QED BY <1>3, <1>4, <2>1, <2>2 DEF Covers
<1>5. PcInv'
  <2>1. live' = live
    BY <1>1 DEF feedSide, feedVars
  <2> QED BY <1>1, <2>1 DEF PcInv
<1>6. KeptInv'
  <2>1. rating' = {}
    BY <1>1 DEF TypeOK
  <2>2. \A p \in Pools \ toRate' :
            \E v, w \in Versions : rates'[p] = <<v, w>> /\ Covers(v, p)' /\ Covers(w, p)'
    BY <1>1, <1>4 DEF KeptInv
  <2>3. ASSUME NEW k \in Keys, cache'[k] # NoEntry PROVE Covers(cache[k].ver, k[1])'
    <3>1. k[1] \notin ps /\ cache'[k] = cache[k]
      BY <1>1, <2>3
    <3>2. cache[k].ver \in Versions /\ k[1] \in Pools /\ Covers(cache[k].ver, k[1])
      BY <2>3, <3>1, KeptKinds DEF KeptInv
    <3>3. PICK v \in Versions, p \in Pools : v = cache[k].ver /\ p = k[1]
      BY <3>2
    <3>4. Covers(v, p)'
      BY <1>4, <3>1, <3>2, <3>3
    <3>5. v = cache'[k].ver
      BY <3>1, <3>3
    <3> QED BY <3>3, <3>4, <3>5 DEF Covers
  <2> QED BY <1>1, <2>1, <2>2, <2>3 DEF KeptInv
<1>7. ArbInv'
  <2> SUFFICES ASSUME arb # NoArb
               PROVE  \E n \in 1..Told' :
                         /\ n \in DOMAIN applied /\ arb.block = applied[n]
                         /\ \A i \in DOMAIN applied, j \in DOMAIN arb.path :
                               i <= n /\ arb.path[j].pool \in touches[i]
                                   => applied[i] <= arb.used[j]
    BY <1>1 DEF ArbInv, feedSide, feedVars
  <2>1. 1..Told \subseteq 1..Told'
    BY <1>3
  <2> QED BY <2>1 DEF ArbInv
<1> QED BY <1>2, <1>5, <1>6, <1>7 DEF SearchInv

\* The step of the path in hand.
LEMMA StepKind ==
    ASSUME IInv, pc = "calc", Len(used) < Len(path)
    PROVE  Step.pool \in Pools /\ CacheKey \in Keys
<1>1. path \in Seq(Steps) /\ Len(path) \in Nat /\ Len(used) \in Nat /\ amount \in Amounts
  BY SearcherAssumption DEF IInv, TypeOK, SearchInv, PcInv
<1>2. Len(used) + 1 \in 1..Len(path)
  BY <1>1
<1>3. Step.pool \in Pools
  <2>1. path[Len(used) + 1] \in Steps
    BY <1>1, <1>2
  <2> QED BY <2>1 DEF Step, Steps
<1> QED BY <1>1, <1>3 DEF CacheKey, Keys

\* Choosing a path, running through it with the cache and sending the result.
LEMMA CalcStep ==
    ASSUME IInv, \/ \E pa \in Paths : Choose(pa)
                 \/ ChooseNone \/ UseCached \/ Compute \/ Finish
    PROVE  SearchInv'
<1> USE Types, KeptKinds
<1> OrderInv /\ VersionInv /\ PcInv /\ KeptInv /\ ArbInv /\ TypeOK
  BY DEF IInv, SearchInv
<1>1. /\ pc \in {"choose", "calc"} /\ UNCHANGED <<feedSide, received, toRate, rating, rates>>
      /\ OrderInv' /\ VersionInv' /\ (UNCHANGED arb => ArbInv')
      /\ \A p \in Pools, v \in Versions : Covers(v, p)' <=> Covers(v, p)
  <2>1. pc \in {"choose", "calc"} /\ UNCHANGED <<feedSide, received, toRate, rating, rates>>
    BY DEF Choose, ChooseNone, UseCached, Compute, Finish, Calculating, rateVars
  <2> QED BY <2>1, FeedKept
<1>2. live' = live /\ live /\ toRate = {} /\ received > 0 /\ pc # "start"
  BY <1>1 DEF feedSide, feedVars, PcInv
\* rates and pools to rate are out of it
<1>3. /\ \A p \in Pools, v \in Versions : <<p, v>> \in rating' => Covers(v, p)'
      /\ \A p \in Pools \ toRate' :
             \E v, w \in Versions : rates'[p] = <<v, w>> /\ Covers(v, p)' /\ Covers(w, p)'
  BY <1>1 DEF KeptInv
<1>4. cache' = cache => \A k \in Keys : cache'[k] # NoEntry => Covers(cache[k].ver, k[1])'
  <2> SUFFICES ASSUME cache' = cache, NEW k \in Keys, cache[k] # NoEntry
               PROVE  Covers(cache[k].ver, k[1])'
    OBVIOUS
  <2>1. PICK v \in Versions, p \in Pools : v = cache[k].ver /\ p = k[1] /\ Covers(v, p)
    BY DEF KeptInv
  <2> QED BY <1>1, <2>1 DEF Covers
<1>5. ASSUME NEW pa \in Paths, Choose(pa) PROVE SearchInv'
  <2>1. path' = pa /\ used' = <<>> /\ pc' = "calc" /\ cache' = cache /\ arb' = arb
    BY <1>5 DEF Choose
  <2>2. PcInv'
    BY <1>1, <1>2, <2>1, Zenon DEF PcInv
  <2>3. KeptInv'
    BY <1>3, <1>4, <2>1 DEF KeptInv
  <2> QED BY <1>1, <2>1, <2>2, <2>3 DEF SearchInv
<1>6. CASE ChooseNone
  <2>1. pc' = "recv" /\ cache' = cache /\ arb' = arb
    BY <1>6 DEF ChooseNone
  <2>2. PcInv'
    BY <1>1, <1>2, <2>1, Zenon DEF PcInv
  <2>3. KeptInv'
    BY <1>3, <1>4, <2>1 DEF KeptInv
  <2> QED BY <1>1, <2>1, <2>2, <2>3 DEF SearchInv
\* one more version used, which covers the pool of the step
<1>7. ASSUME pc = "calc", pc' = "calc", path' = path, Len(used) < Len(path),
             NEW v \in Versions, used' = Append(used, v), Covers(v, Step.pool)
      PROVE  \A j \in 1..Len(used') : Covers(used[j], path[j].pool)'
  <2>1. used \in Seq(Versions) /\ Len(used) \in Nat
    BY DEF TypeOK
  <2>2. Len(used') = Len(used) + 1 /\ used'[Len(used) + 1] = v
        /\ \A j \in 1..Len(used) : used'[j] = used[j]
    BY <1>7, <2>1
  <2>3. Step.pool \in Pools
    BY <1>7, StepKind
  <2> SUFFICES ASSUME NEW j \in 1..(Len(used) + 1) PROVE Covers(used[j], path[j].pool)'
    BY <2>2
  <2>4. CASE j = Len(used) + 1
    <3>1. PICK p \in Pools : p = path[j].pool /\ Covers(v, p)
      BY <1>7, <2>3, <2>4 DEF Step
    <3>2. v = used'[j] /\ p = path'[j].pool
      BY <1>7, <2>2, <2>4, <3>1
    <3> QED BY <1>1, <3>1, <3>2 DEF Covers
  <2>5. CASE j \in 1..Len(used)
    <3>1. PICK w \in Versions, p \in Pools : w = used[j] /\ p = path[j].pool /\ Covers(w, p)
      BY <1>7, <2>5 DEF KeptInv
    <3>2. w = used'[j] /\ p = path'[j].pool
      BY <1>7, <2>2, <2>5, <3>1
    <3> QED BY <1>1, <3>1, <3>2 DEF Covers
  <2>6. j = Len(used) + 1 \/ j \in 1..Len(used)
    BY <2>1
  <2> QED BY <2>4, <2>5, <2>6
<1>8. ASSUME UseCached PROVE SearchInv'
  <2>1. /\ pc = "calc" /\ Len(used) < Len(path) /\ cache[CacheKey] # NoEntry
        /\ used' = Append(used, cache[CacheKey].ver)
        /\ pc' = pc /\ path' = path /\ cache' = cache /\ arb' = arb
    BY <1>8 DEF UseCached, Calculating
  <2>2. Step.pool \in Pools /\ CacheKey \in Keys
    BY <2>1, StepKind
  <2>3. PICK v \in Versions : v = cache[CacheKey].ver /\ Covers(v, Step.pool)
    BY <2>1, <2>2 DEF KeptInv, CacheKey
  <2>4. \A j \in 1..Len(used') : Covers(used[j], path[j].pool)'
    BY <1>7, <2>1, <2>3
  <2>5. PcInv'
    BY <1>1, <1>2, <2>1 DEF PcInv
  <2>6. KeptInv'
    BY <1>3, <1>4, <2>1, <2>4 DEF KeptInv
  <2> QED BY <1>1, <2>1, <2>5, <2>6 DEF SearchInv
<1>9. ASSUME Compute PROVE SearchInv'
  <2> DEFINE v == version[Step.pool]
  <2>1. /\ pc = "calc" /\ Len(used) < Len(path) /\ used' = Append(used, v)
        /\ cache' = [cache EXCEPT ![CacheKey] = [out |-> compute_amount_out, ver |-> v]]
        /\ pc' = pc /\ path' = path /\ arb' = arb
    BY <1>9 DEF Compute, Calculating
  <2>2. Step.pool \in Pools /\ CacheKey \in Keys
    BY <2>1, StepKind
  <2>3. v \in Versions /\ Covers(v, Step.pool)
    BY <2>2, ReadCovers
  <2>4. \A j \in 1..Len(used') : Covers(used[j], path[j].pool)'
    BY <1>7, <2>1, <2>3
  <2>5. PcInv'
    BY <1>1, <1>2, <2>1 DEF PcInv
  <2>6. ASSUME NEW k \in Keys, cache'[k] # NoEntry PROVE Covers(cache[k].ver, k[1])'
    <3>1. PICK w \in Versions, p \in Pools : w = cache'[k].ver /\ p = k[1] /\ Covers(w, p)
      <4>1. CASE k = CacheKey
        <5>1. cache'[k].ver = v /\ k[1] = Step.pool
          BY <2>1, <2>2, <4>1 DEF TypeOK, CacheKey
        <5> QED BY <2>2, <2>3, <5>1
      <4>2. CASE k # CacheKey
        <5>1. cache'[k] = cache[k]
          BY <2>1, <4>2 DEF TypeOK
        <5> QED BY <2>6, <5>1 DEF KeptInv
      <4> QED BY <4>1, <4>2
    <3> QED BY <1>1, <3>1 DEF Covers
  <2>7. KeptInv'
    BY <1>3, <2>1, <2>4, <2>6 DEF KeptInv
  <2> QED BY <1>1, <2>1, <2>5, <2>7 DEF SearchInv
<1>10. ASSUME Finish PROVE SearchInv'
  <2>1. /\ pc = "calc" /\ pc' = "recv" /\ cache' = cache
        /\ ~Calculating
        /\ arb' = IF amount >= MinProfit
                  THEN [path |-> path, block |-> BatchBlock, used |-> used] ELSE arb
    BY <1>10 DEF Finish
  <2>2. PcInv'
    BY <1>1, <1>2, <2>1, Zenon DEF PcInv
  <2>3. KeptInv'
    BY <1>3, <1>4, <2>1 DEF KeptInv
  <2>4. ASSUME amount >= MinProfit PROVE ArbInv'
    <3>1. path \in Seq(Steps) /\ Len(path) \in Nat /\ DOMAIN path = 1..Len(path)
          /\ Len(used) \in Nat
      BY <2>1, SearcherAssumption DEF PcInv, TypeOK
    <3>2. Len(used) >= Len(path)
      <4>1. amount # 0
        BY <2>4, SearcherAssumption
      <4> QED BY <2>1, <3>1, <4>1 DEF Calculating
    <3>3. Told \in 1..Told /\ Told \in DOMAIN applied /\ BatchBlock = applied[Told]
      <4>1. received \in DOMAIN published /\ Told \in 1..Len(applied)
        BY <1>2 DEF Told
      <4> QED BY <1>2, <4>1 DEF OrderInv, BatchBlock, Told
    <3>4. ASSUME NEW i \in DOMAIN applied, NEW j \in DOMAIN path,
                 i <= Told, path[j].pool \in touches[i]
          PROVE  applied[i] <= used[j]
      <4>1. j \in 1..Len(used)
        BY <3>1, <3>2
      <4>2. Covers(used[j], path[j].pool)
        BY <2>1, <4>1 DEF KeptInv
      <4> QED BY <3>4, <4>2 DEF Covers
    <3>5. arb'.path = path /\ arb'.block = applied[Told] /\ arb'.used = used
      BY <2>1, <2>4, <3>3
    <3>6. Told' = Told /\ applied' = applied /\ touches' = touches
      BY <1>1 DEF Told, feedSide, feedVars
    <3> QED BY <3>3, <3>4, <3>5, <3>6 DEF ArbInv
  <2>5. ArbInv'
    <3>1. CASE amount >= MinProfit
      BY <2>4, <3>1
    <3>2. CASE ~(amount >= MinProfit)
      BY <1>1, <2>1, <3>2
    <3> QED BY <3>1, <3>2
  <2> QED BY <1>1, <2>2, <2>3, <2>5 DEF SearchInv
<1> QED BY <1>5, <1>6, <1>8, <1>9, <1>10

\* SearchInv survives every step.
LEMMA SearchStep == IInv /\ [Next]_vars => SearchInv'
<1> SUFFICES ASSUME IInv, [Next]_vars PROVE SearchInv'
  OBVIOUS
<1>1. CASE UNCHANGED vars
  <2>1. OrderInv /\ VersionInv /\ PcInv /\ KeptInv /\ ArbInv
    BY DEF IInv, SearchInv
  <2>2. UNCHANGED <<feedSide, received, pc, rateVars, cache, calcVars, arb>>
    BY <1>1 DEF vars
  <2>3. PcInv'
    BY <2>1, <2>2 DEF PcInv, feedSide, feedVars, rateVars, calcVars
  <2>4. KeptInv'
    BY <2>2, FeedKept, KeptStep
  <2> QED BY <2>2, <2>3, <2>4, FeedKept DEF SearchInv
<1> QED BY <1>1, WriteStep, EventStep, RatingStep, ReceiveStep, CalcStep
        DEF Next, Updater, Search

\* What the searcher keeps, what it sent and the order of the feed are as IInv
\* says in every reachable state, for any pools, cycles, blocks and outputs.
THEOREM Invariance == Spec => []IInv
<1>1. IInv /\ [Next]_vars => IInv'
  BY TypeStep, SearchStep DEF IInv
<1> QED BY InitEstablishes, <1>1, PTL DEF Spec

\* The types: in particular the searcher never takes an event that was not sent
\* and never has more outputs than the path in hand has steps.
THEOREM TypeCorrect == Spec => []TypeOK
<1>1. IInv => TypeOK
  BY DEF IInv
<1> QED BY Invariance, <1>1, PTL

\* A cached output is of what the pool holds or an event that discards it is on its
\* way: the store after the unlock (calculator.rs) leaves no stale output behind.
THEOREM CacheNeverStale == Spec => []CacheCoherent
<1>1. IInv => CacheCoherent
  <2> SUFFICES ASSUME IInv, NEW k \in Keys, cache[k] # NoEntry, ~Pending(k[1])
               PROVE  cache[k].ver = version[k[1]]
    BY DEF CacheCoherent
  <2>1. cache[k].ver \in Versions /\ k[1] \in Pools
    BY KeptKinds
  <2>2. Covers(cache[k].ver, k[1])
    BY DEF IInv, SearchInv, KeptInv
  <2> QED BY <2>1, <2>2, CoversCurrent
<1> QED BY Invariance, <1>1, PTL

\* Both rates of a pool that is not waiting to be rated are of what it holds, or an
\* event that has it rated again is on its way, although the two quotes of
\* process_pools are taken under different locks.
THEOREM RatesNeverStale == Spec => []RatesCoherent
<1>1. IInv => RatesCoherent
  <2> SUFFICES ASSUME IInv, pc # "start", NEW p \in Pools \ toRate, ~Pending(p)
               PROVE  rates[p] = <<version[p], version[p]>>
    BY DEF RatesCoherent
  <2>1. PICK v \in Versions, w \in Versions :
            rates[p] = <<v, w>> /\ Covers(v, p) /\ Covers(w, p)
    BY DEF IInv, SearchInv, KeptInv
  <2>2. v = version[p] /\ w = version[p]
    BY <2>1, CoversCurrent
  <2> QED BY <2>1, <2>2
<1> QED BY Invariance, <1>1, PTL

\* No ArbPath sent for a block rests on a pool state from before it.
THEOREM ArbsNeverOld == Spec => []ArbsFresh
<1>1. IInv => ArbsFresh
  <2> SUFFICES ASSUME IInv, arb # NoArb, NEW i \in DOMAIN applied, NEW j \in DOMAIN arb.path,
                      applied[i] <= arb.block, arb.path[j].pool \in touches[i]
               PROVE  arb.used[j] >= applied[i]
    BY DEF ArbsFresh
  <2>1. PICK n \in DOMAIN applied :
            /\ arb.block = applied[n]
            /\ i <= n => applied[i] <= arb.used[j]
    BY DEF IInv, SearchInv, ArbInv
  <2>2. /\ i \in Nat /\ n \in Nat /\ applied[i] \in Nat /\ applied[n] \in Nat
        /\ (n < i => applied[n] < applied[i])
    BY Types DEF IInv, SearchInv, OrderInv
  <2>3. i <= n
    BY <2>1, <2>2
  <2>4. applied[i] <= arb.used[j]
    BY <2>1, <2>3
  <2> QED BY <2>4
<1> QED BY Invariance, <1>1, PTL

=============================================================================
