---------------------------- MODULE BlockFeedProofs ----------------------------
(***************************************************************************)
(* What every reader of the feed may rely on, for any blocks: the blocks   *)
(* written ascend, and the events name those written live, in their order. *)
(***************************************************************************)
EXTENDS BlockFeed, TLAPS

OrderInv ==
    /\ ~live => published = <<>> /\ base = 0
    /\ live => \/ Len(applied) = base + Len(published)
               \/ Len(applied) = base + Len(published) + 1
    /\ \A i \in DOMAIN applied : SyncedAt < applied[i]
    /\ \A i, j \in DOMAIN applied : i < j => applied[i] < applied[j]
    /\ \A k \in DOMAIN published : published[k] = applied[base + k]

\* The feed starts in order.
LEMMA FeedStart == FeedInit => FeedTypeOK /\ OrderInv
<1> SUFFICES ASSUME FeedInit PROVE FeedTypeOK /\ OrderInv
  OBVIOUS
<1>1. live \in BOOLEAN /\ ~live
  BY Zenon DEF FeedInit
<1>2. FeedTypeOK
  BY <1>1 DEF FeedInit, FeedTypeOK
<1> QED BY <1>1, <1>2 DEF FeedInit, OrderInv

\* The logs are sequences of numbers.
LEMMA FeedTypes ==
    ASSUME FeedBlocks \subseteq Nat, FeedTypeOK
    PROVE  /\ Len(applied) \in Nat /\ DOMAIN applied = 1..Len(applied)
           /\ Len(published) \in Nat /\ DOMAIN published = 1..Len(published)
           /\ base \in Nat
           /\ \A i \in 1..Len(applied) : applied[i] \in FeedBlocks /\ applied[i] \in Nat
           /\ \A k \in 1..Len(published) : published[k] \in FeedBlocks /\ published[k] \in Nat
<1>1. applied \in Seq(FeedBlocks) /\ published \in Seq(FeedBlocks) /\ base \in Nat
  BY DEF FeedTypeOK
<1>2. /\ Len(applied) \in Nat /\ DOMAIN applied = 1..Len(applied)
      /\ Len(published) \in Nat /\ DOMAIN published = 1..Len(published)
  BY <1>1
<1>3. \A i \in 1..Len(applied) : applied[i] \in FeedBlocks
  BY <1>1
<1>4. \A k \in 1..Len(published) : published[k] \in FeedBlocks
  BY <1>1
<1> QED BY <1>1, <1>2, <1>3, <1>4

\* A block about to be written lies above the synchronized state and every block
\* written before.
LEMMA NextIsNewer ==
    ASSUME SyncedAt \in Nat, FeedBlocks \subseteq Nat, FeedTypeOK, OrderInv,
           NEW b \in FeedBlocks, b > Newest \/ b = Newest + 1
    PROVE  SyncedAt < b /\ \A i \in 1..Len(applied) : applied[i] < b
<1> DEFINE n == Len(applied)
<1>1. n \in Nat /\ DOMAIN applied = 1..n /\ b \in Nat /\ \A i \in 1..n : applied[i] \in Nat
  BY FeedTypes
<1>2. CASE applied = <<>>
  BY <1>1, <1>2 DEF Newest
<1>3. CASE applied # <<>>
  <2>1. n \in 1..n /\ Newest = applied[n] /\ Newest < b
    BY <1>1, <1>3 DEF Newest
  <2>2. \A i \in 1..n : applied[i] < b
    <3> SUFFICES ASSUME NEW i \in 1..n PROVE applied[i] < b
      OBVIOUS
    <3>1. i \in Nat /\ n \in Nat /\ i <= n
      BY <1>1
    <3>2. i = n \/ i < n
      BY ONLY <3>1
    <3>3. i < n => applied[i] < applied[n]
      BY <1>1, <2>1 DEF OrderInv
    <3>4. applied[i] \in Nat /\ applied[n] \in Nat /\ applied[n] < b
      BY <1>1, <2>1
    <3>5. CASE i = n
      BY <3>4, <3>5
    <3>6. CASE i < n
      <4>1. applied[i] < applied[n]
        BY <3>3, <3>6
      <4> QED BY <3>4, <4>1, <1>1
    <3> QED BY <3>2, <3>5, <3>6
  <2>3. SyncedAt < applied[n] /\ applied[n] \in Nat /\ applied[n] < b
    BY <1>1, <2>1 DEF OrderInv
  <2> QED BY <1>1, <2>2, <2>3
<1> QED BY <1>2, <1>3

\* Every step of the feed keeps it in order.
LEMMA FeedStep ==
    ASSUME SyncedAt \in Nat, FeedBlocks \subseteq Nat, FeedTypeOK, OrderInv, [FeedNext]_feedVars
    PROVE  FeedTypeOK' /\ OrderInv'
<1> DEFINE n == Len(applied)
           m == Len(published)
<1>t. /\ applied \in Seq(FeedBlocks) /\ n \in Nat /\ DOMAIN applied = 1..n
      /\ published \in Seq(FeedBlocks) /\ m \in Nat /\ DOMAIN published = 1..m
      /\ \A i \in 1..n : applied[i] \in FeedBlocks /\ applied[i] \in Nat
      /\ base \in Nat /\ live \in BOOLEAN
  BY FeedTypes DEF FeedTypeOK
<1>s. applied \in Seq(FeedBlocks) /\ published \in Seq(FeedBlocks)
  BY <1>t
\* an event has been sent only if live
<1>l. ASSUME NEW k \in 1..m PROVE live
  <2>1. m # 0
    BY <1>t
  <2>2. published # <<>>
    BY <2>1
  <2> QED BY <2>2 DEF OrderInv
<1>1. ASSUME NEW b \in FeedBlocks, CatchUp(b) \/ Apply(b) PROVE FeedTypeOK' /\ OrderInv'
  <2>1. /\ applied' = Append(applied, b) /\ UNCHANGED <<live, base, published>>
        /\ b > Newest \/ b = Newest + 1
        /\ live => n = base + m
    BY <1>1 DEF CatchUp, Apply, Settled
  <2>2. /\ Len(applied') = n + 1 /\ DOMAIN applied' = 1..(n + 1)
        /\ \A i \in 1..n : applied'[i] = applied[i]
        /\ applied'[n + 1] = b /\ b \in Nat
    BY <1>s, <2>1
  <2>3. SyncedAt < b /\ \A i \in 1..n : applied[i] < b
    BY <2>1, NextIsNewer
  <2>4. \A i, j \in DOMAIN applied' : i < j => applied'[i] < applied'[j]
    <3> SUFFICES ASSUME NEW i \in 1..(n + 1), NEW j \in 1..(n + 1), i < j
                 PROVE  applied'[i] < applied'[j]
      BY <2>2
    <3>1. CASE j = n + 1
      <4>1. i \in 1..n
        BY <3>1, <1>t
      <4> QED BY <3>1, <4>1, <2>2, <2>3
    <3>2. CASE j < n + 1
      <4>1. i \in 1..n /\ j \in 1..n
        BY <3>2, <1>t
      <4> QED BY <4>1, <2>2, <1>t DEF OrderInv
    <3>3. j \in Nat /\ j <= n + 1
      BY <1>t
    <3> QED BY <3>1, <3>2, <3>3, <1>t
  <2>5. \A k \in DOMAIN published' : published'[k] = applied'[base' + k]
    <3> SUFFICES ASSUME NEW k \in 1..m PROVE published[k] = applied'[base + k]
      BY <2>1, <1>t
    <3>1. live
      BY <1>l
    <3>2. base + k \in 1..n
      BY <3>1, <2>1, <1>t
    <3> QED BY <3>2, <2>2, <1>t DEF OrderInv
  <2>6. \A i \in DOMAIN applied' : SyncedAt < applied'[i]
    <3> SUFFICES ASSUME NEW i \in 1..(n + 1) PROVE SyncedAt < applied'[i]
      BY <2>2
    <3>1. i \in 1..n \/ i = n + 1
      BY <1>t
    <3> QED BY <3>1, <2>2, <2>3, <1>t DEF OrderInv
  <2>7. FeedTypeOK'
    <3>1. applied' \in Seq(FeedBlocks)
      BY <1>s, <2>1
    <3> QED BY <2>1, <3>1 DEF FeedTypeOK
  <2> QED BY <2>1, <2>2, <2>4, <2>5, <2>6, <2>7 DEF OrderInv
<1>2. CASE GoLive
  <2>1. ~live /\ live' /\ live' \in BOOLEAN /\ base' = n /\ UNCHANGED <<applied, published>>
    BY <1>2 DEF GoLive
  <2>2. published' = <<>> /\ Len(published') = 0 /\ DOMAIN published' = {}
    BY <2>1 DEF OrderInv
  <2>3. Len(applied') = base' + Len(published')
    BY <2>1, <2>2, <1>t
  <2>4. FeedTypeOK'
    BY <2>1, <1>t DEF FeedTypeOK
  <2> QED BY <2>1, <2>2, <2>3, <2>4 DEF OrderInv
<1>3. CASE Publish
  <2>1. /\ live /\ ~Settled /\ published' = Append(published, Newest)
        /\ UNCHANGED <<live, applied, base>>
    BY <1>3 DEF Publish
  <2>2. n = base + m + 1
    BY <2>1, Zenon DEF OrderInv, Settled
  <2>3. n \in 1..n /\ Newest = applied[n] /\ Newest \in FeedBlocks
    <3>1. applied # <<>>
      BY <2>2, <1>t
    <3> QED BY <3>1, <2>2, <1>t DEF Newest
  <2>4. Len(published') = m + 1 /\ DOMAIN published' = 1..(m + 1)
        /\ published'[m + 1] = Newest /\ \A k \in 1..m : published'[k] = published[k]
    BY <2>1, <2>3, <1>t
  <2>5. \A k \in 1..(m + 1) : published'[k] = applied[base + k]
    <3> SUFFICES ASSUME NEW k \in 1..(m + 1) PROVE published'[k] = applied[base + k]
      OBVIOUS
    <3>1. CASE k = m + 1
      BY <3>1, <2>2, <2>3, <2>4, <1>t
    <3>2. CASE k \in 1..m
      BY <3>2, <2>4, <1>t DEF OrderInv
    <3>3. k \in 1..m \/ k = m + 1
      BY <1>t
    <3> QED BY <3>1, <3>2, <3>3
  <2>6. live' /\ Len(applied') = base' + Len(published')
    BY <2>1, <2>2, <2>4, <1>t
  <2>7. FeedTypeOK'
    BY <2>1, <2>3, <1>t DEF FeedTypeOK
  <2> QED BY <2>1, <2>4, <2>5, <2>6, <2>7 DEF OrderInv
<1>4. CASE UNCHANGED feedVars
  BY <1>4 DEF feedVars, FeedTypeOK, OrderInv
<1> QED BY <1>1, <1>2, <1>3, <1>4 DEF FeedNext

\* How the two logs lie beside each other.
LEMMA FeedFacts ==
    ASSUME SyncedAt \in Nat, FeedBlocks \subseteq Nat, FeedTypeOK, OrderInv
    PROVE  /\ \A k \in 1..Len(published) : published[k] \in FeedBlocks /\ published[k] \in Nat
           /\ \A k, l \in 1..Len(published) : k < l => published[k] < published[l]
           /\ Newest \in FeedBlocks \cup {SyncedAt}
           /\ \A k \in 1..Len(published) : published[k] <= Newest
<1>1. /\ Len(applied) \in Nat /\ DOMAIN applied = 1..Len(applied)
      /\ Len(published) \in Nat /\ DOMAIN published = 1..Len(published) /\ base \in Nat
      /\ \A i \in 1..Len(applied) : applied[i] \in FeedBlocks /\ applied[i] \in Nat
      /\ \A k \in 1..Len(published) : published[k] \in FeedBlocks /\ published[k] \in Nat
  BY FeedTypes
<1>2. ASSUME NEW k \in 1..Len(published)
      PROVE  base + k \in 1..Len(applied) /\ published[k] = applied[base + k]
  <2>0. Len(published) # 0
    BY <1>1
  <2>1. live
    BY <2>0 DEF OrderInv
  <2>2. Len(applied) = base + Len(published) \/ Len(applied) = base + Len(published) + 1
    BY <2>1, Zenon DEF OrderInv
  <2>3. k \in Nat /\ 1 <= k /\ k <= Len(published)
    BY <1>1
  <2>4. Len(applied) \in Nat /\ Len(published) \in Nat /\ base \in Nat
    BY <1>1
  <2>5. base + k \in 1..Len(applied)
    BY ONLY <2>2, <2>3, <2>4
  <2>6. published[k] = applied[base + k]
    BY <1>1 DEF OrderInv
  <2> QED BY <2>5, <2>6
<1>3. ASSUME NEW k \in 1..Len(published), NEW l \in 1..Len(published), k < l
      PROVE  published[k] < published[l]
  <2>1. base + k < base + l
    BY <1>1, <1>3
  <2> QED BY <1>1, <1>2, <2>1 DEF OrderInv
<1>4. Newest \in FeedBlocks \cup {SyncedAt}
  BY <1>1 DEF Newest
<1>5. ASSUME NEW k \in 1..Len(published) PROVE published[k] <= Newest
  <2> DEFINE i == base + k
             n == Len(applied)
  <2>1. i \in 1..n /\ published[k] = applied[i] /\ n \in Nat
    BY <1>1, <1>2
  <2>2. Newest = applied[n] /\ n \in 1..n
    <3>1. applied # <<>>
      BY <2>1
    <3> QED BY <2>1, <3>1 DEF Newest
  <2>3. applied[i] \in Nat /\ applied[n] \in Nat
    BY <1>1, <2>1, <2>2
  <2> HIDE DEF i, n
  <2>4. i = n \/ i < n
    BY ONLY <2>1
  <2>5. CASE i = n
    BY <2>1, <2>2, <2>3, <2>5
  <2>6. CASE i < n
    <3>1. i \in DOMAIN applied /\ n \in DOMAIN applied
      BY <1>1, <2>1, <2>2 DEF n
    <3>2. applied[i] < applied[n]
      BY <2>6, <3>1 DEF OrderInv
    <3> QED BY <2>1, <2>2, <2>3, <3>2
  <2> QED BY <2>4, <2>5, <2>6
<1> QED BY <1>1, <1>3, <1>4, <1>5

\* Whatever implements the feed keeps its blocks in order and its events in step.
THEOREM FeedInOrder ==
    ASSUME SyncedAt \in Nat, FeedBlocks \subseteq Nat
    PROVE  FeedSpec => [](FeedTypeOK /\ OrderInv)
<1>1. FeedTypeOK /\ OrderInv /\ [FeedNext]_feedVars => (FeedTypeOK /\ OrderInv)'
  BY FeedStep
<1> QED BY FeedStart, <1>1, PTL DEF FeedSpec

=============================================================================
