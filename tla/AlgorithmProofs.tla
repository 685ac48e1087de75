--------------------------- MODULE AlgorithmProofs ---------------------------
(***************************************************************************)
(* Proofs about ArbGraph, Filter, V3Swap, FlashPath and Aerodrome, for all *)
(* pools, tokens, positions, paths and amounts.                            *)
(***************************************************************************)
EXTENDS ArbGraph, Filter, V3Swap, FlashPath, Aerodrome, Sums

-----------------------------------------------------------------------------
(* Filter: the list. *)

ListInv ==
    /\ file = NoFile \/ file = Torn \/ file = Whole(file.list)
    /\ file = NoFile \/ (stage = "write" /\ file = Torn) => lists_used = {}
    /\ stage = "fetch" => file = NoFile
    /\ stage = "write" => file = Torn /\ lists_used = {}
    /\ file.content = "whole" => lists_used = {file.list}
    /\ lists_used # {} => \E list : lists_used = {list}

LEMMA ListInit == FilterInit => ListInv
BY DEF FilterInit, ListInv, NoFile, Torn, Whole

LEMMA ListStep == ListInv /\ [FilterNext]_filterVars => ListInv'
<1> SUFFICES ASSUME ListInv, [FilterNext]_filterVars
             PROVE  ListInv'
  OBVIOUS
<1> USE DEF ListInv, NoFile, Torn, Whole
<1>1. CASE ReadFile
  BY <1>1 DEF ReadFile, MatchPools
<1>2. CASE ReadTornFile
  BY <1>2 DEF ReadTornFile
<1>3. CASE StartFetch
  BY <1>3 DEF StartFetch
<1>4. CASE FetchPage
  BY <1>4 DEF FetchPage
<1>5. CASE CreateFile
  BY <1>5 DEF CreateFile
<1>6. CASE WriteFile
  BY <1>6 DEF WriteFile, MatchPools
<1>7. CASE TrialSwap
  BY <1>7 DEF TrialSwap
<1>8. CASE Stop
  BY <1>8 DEF Stop
<1>9. CASE UNCHANGED filterVars
  BY <1>9 DEF filterVars
<1> QED BY <1>1, <1>2, <1>3, <1>4, <1>5, <1>6, <1>7, <1>8, <1>9 DEF FilterNext

\* All processes work with one list, whenever they crashed and whatever became of the file
\* (filter.rs:98-130).
THEOREM OneList == FilterSpec => []ListsAgree
<1>1. ListInv => ListsAgree
  <2>1. Cardinality({}) = 0 /\ \A list : Cardinality({list}) = 1
    BY FS_EmptySet, FS_Singleton
  <2> SUFFICES ASSUME ListInv
               PROVE  Cardinality(lists_used) <= 1
    BY DEF ListsAgree
  <2>2. CASE lists_used = {}
    BY <2>1, <2>2
  <2>3. CASE lists_used # {}
    <3>1. PICK list : lists_used = {list}
      BY <2>3 DEF ListInv
    <3>2. Cardinality({list}) = 1
      BY <2>1
    <3> QED BY <3>1, <3>2
  <2> QED BY <2>2, <2>3
<1> QED BY <1>1, ListInit, ListStep, PTL DEF FilterSpec

-----------------------------------------------------------------------------
(* Filter: the trial swaps. *)

\* The part of what goes in that is traded.
FeeParts == {<<997, 1000>>, <<399, 400>>, <<624, 625>>}

LEMMA FeeKind ==
    ASSUME NEW type \in V2Basic
    PROVE  router_fee(type) \in FeeParts
BY DEF V2Basic, router_fee, FeeParts

\* What a trial puts in, takes out and gets back, with one formula and the same reserves.
Trial(f, a, in, out, u, z) ==
    /\ u * (in * f[2] + a * f[1]) <= a * f[1] * out
    /\ a * f[1] * out < (u + 1) * (in * f[2] + a * f[1])
    /\ z * (out * f[2] + u * f[1]) <= u * f[1] * in
    /\ u * f[1] * in < (z + 1) * (out * f[2] + u * f[1])

\* The products that count, for numbers n and d of one of the fees.
LEMMA Monomials ==
    ASSUME NEW n \in Nat, NEW d \in Nat,
           NEW a \in Nat, NEW in \in Nat, NEW out \in Nat, NEW u \in Nat, NEW z \in Nat
    PROVE  /\ u * (in * d + a * n) = d * (u * in) + n * (a * u)
           /\ a * n * out = n * (a * out)
           /\ u * n * in = n * (u * in)
           /\ a * (out * d + u * n) = d * (a * out) + n * (a * u)
           /\ {a * out, u * in, a * u} \subseteq Nat
OBVIOUS

\* A pool that gives 95 of 100 back is deep.  The three fees differ in nothing but their
\* numbers; each is a case of its own for linear arithmetic.
LEMMA TrialShallow ==
    ASSUME NEW f \in FeeParts,
           NEW a \in Nat, a >= 100, NEW in \in Nat \ {0}, NEW out \in Nat \ {0}, NEW u \in Nat,
           NEW z \in Nat, Trial(f, a, in, out, u, z), z >= (a * 95) \div 100
    PROVE  a * 33 <= in
<1>f. /\ f[1] \in Nat \ {0} /\ f[2] \in Nat \ {0}
      /\ \/ f[1] = 997 /\ f[2] = 1000
         \/ f[1] = 399 /\ f[2] = 400
         \/ f[1] = 624 /\ f[2] = 625
  BY DEF FeeParts
<1> DEFINE n == f[1]
           m == f[2]
           d == out * m + u * n
<1>n. n \in Nat \ {0} /\ m \in Nat \ {0}
  BY <1>f
<1>t. u * (in * m + a * n) <= a * n * out /\ z * d <= u * n * in
  BY DEF Trial
<1>c. \/ n = 997 /\ m = 1000
      \/ n = 399 /\ m = 400
      \/ n = 624 /\ m = 625
  BY <1>f
<1> HIDE DEF n, m
<1>1. z * 1000 >= a * 940 /\ z > 0
  OBVIOUS
<1>2. d \in Nat \ {0}
  <2>1. out * m \in Nat \ {0} /\ u * n \in Nat
    BY <1>n
  <2> QED BY <2>1
<1>3. a * d = m * (a * out) + n * (a * u)
  BY <1>n, Monomials
<1> HIDE DEF d
<1>4. (a * 940) * d <= (z * 1000) * d
  BY <1>1, <1>2
<1>5. 940 * (a * d) <= 1000 * (z * d)
  <2>1. (a * 940) * d = 940 * (a * d) /\ (z * 1000) * d = 1000 * (z * d)
    BY <1>2
  <2> QED BY <1>4, <2>1
<1>6. 940 * (m * (a * out) + n * (a * u)) <= 1000 * (n * (u * in))
  <2>1. u * n * in = n * (u * in)
    BY <1>n, Monomials
  <2>2. z * d \in Nat /\ n * (u * in) \in Nat /\ m * (a * out) + n * (a * u) \in Nat
    BY <1>2, <1>n
  <2> QED BY <1>3, <1>5, <1>t, <2>1, <2>2
<1>7. m * (u * in) + n * (a * u) <= n * (a * out)
  BY <1>t, <1>n, Monomials
<1>8. 33 * (a * u) <= u * in
  <2> DEFINE ao == a * out
             ui == u * in
             au == a * u
  <2>1. ao \in Nat /\ ui \in Nat /\ au \in Nat
    BY Monomials
  <2>2. 940 * (m * ao + n * au) <= 1000 * (n * ui) /\ m * ui + n * au <= n * ao
    BY <1>6, <1>7
  <2> HIDE DEF ao, ui, au
  <2>3. 33 * au <= ui
    BY <1>c, <2>1, <2>2
  <2> QED BY <2>3 DEF ao, ui, au
<1>9. u > 0
  <2>1. z * d > 0
    BY <1>1, <1>2
  <2>2. u = 0 => u * n = 0
    BY <1>n
  <2>3. 0 * in = 0
    OBVIOUS
  <2>4. u = 0 => u * n * in = 0
    BY <2>2, <2>3
  <2>5. u # 0
    <3>1. z * d \in Nat /\ u * n * in \in Nat
      BY <1>2, <1>n
    <3> QED BY <1>t, <2>1, <2>4, <3>1
  <2> QED BY <2>5
<1>10. (a * 33) * u <= in * u
  BY <1>8
<1> QED BY <1>9, <1>10

LEMMA TrialDeep ==
    ASSUME NEW f \in FeeParts,
           NEW a \in Nat, NEW in \in Nat \ {0}, NEW out \in Nat \ {0}, NEW u \in Nat, u >= 100,
           NEW z \in Nat, Trial(f, a, in, out, u, z), in >= a * 60
    PROVE  z >= (a * 95) \div 100
<1>f. /\ f[1] \in Nat \ {0} /\ f[2] \in Nat \ {0}
      /\ \/ f[1] = 997 /\ f[2] = 1000
         \/ f[1] = 399 /\ f[2] = 400
         \/ f[1] = 624 /\ f[2] = 625
  BY DEF FeeParts
<1> DEFINE n == f[1]
           m == f[2]
           d == out * m + u * n
           c == in * m + a * n
<1>n. n \in Nat \ {0} /\ m \in Nat \ {0}
  BY <1>f
<1>t. a * n * out < (u + 1) * c /\ u * n * in < (z + 1) * d
  BY DEF Trial
<1>c. \/ n = 997 /\ m = 1000
      \/ n = 399 /\ m = 400
      \/ n = 624 /\ m = 625
  BY <1>f
<1> HIDE DEF n, m
<1>1. d \in Nat \ {0} /\ c \in Nat
  <2>1. out * m \in Nat \ {0} /\ u * n \in Nat /\ in * m \in Nat /\ a * n \in Nat
    BY <1>n
  <2> QED BY <2>1
<1>3. a * d = m * (a * out) + n * (a * u) /\ u * c = m * (u * in) + n * (a * u)
  BY <1>n, Monomials
<1> HIDE DEF d, c
<1>2. 100 * (n * (a * out)) <= 101 * (m * (u * in) + n * (a * u))
  <2>1. a * n * out = n * (a * out)
    BY <1>n, Monomials
  <2>2. 100 * ((u + 1) * c) <= 101 * (u * c)
    <3>1. 100 * (u + 1) <= 101 * u
      OBVIOUS
    <3>2. (100 * (u + 1)) * c <= (101 * u) * c
      BY <1>1, <3>1
    <3>3. (100 * (u + 1)) * c = 100 * ((u + 1) * c) /\ (101 * u) * c = 101 * (u * c)
      BY <1>1
    <3> QED BY <3>2, <3>3
  <2>3. (u + 1) * c \in Int /\ u * c \in Int /\ n * (a * out) \in Int
    BY <1>1, <1>n
  <2> QED BY <1>t, <1>3, <2>1, <2>2, <2>3
<1>4. 60 * (a * u) <= u * in
  <2>1. (a * 60) * u <= in * u
    OBVIOUS
  <2> QED BY <2>1
<1>6. 95 * (m * (a * out) + n * (a * u)) <= 100 * (n * (u * in))
  <2> DEFINE ao == a * out
             ui == u * in
             au == a * u
  <2>1. ao \in Nat /\ ui \in Nat /\ au \in Nat
    BY Monomials
  <2>2. 100 * (n * ao) <= 101 * (m * ui + n * au) /\ 60 * au <= ui
    BY <1>2, <1>4
  <2> HIDE DEF ao, ui, au
  <2>3. 95 * (m * ao + n * au) <= 100 * (n * ui)
    BY <1>c, <2>1, <2>2
  <2> QED BY <2>3 DEF ao, ui, au
<1>7. 95 * (a * d) < 100 * ((z + 1) * d)
  <2>1. u * n * in = n * (u * in)
    BY <1>n, Monomials
  <2>2. (z + 1) * d \in Int /\ n * (u * in) \in Int /\ a * d \in Int
    BY <1>1, <1>n
  <2> QED BY <1>3, <1>6, <1>t, <2>1, <2>2
<1>8. a * 95 < 100 * (z + 1)
  <2>1. (a * 95) * d = 95 * (a * d) /\ (100 * (z + 1)) * d = 100 * ((z + 1) * d)
    BY <1>1
  <2>2. (a * 95) * d < (100 * (z + 1)) * d
    BY <1>7, <2>1
  <2> QED BY <1>1, <2>2
<1> QED BY <1>8

\* What a router gives, by its formula.
LEMMA DivBounds ==
    ASSUME NEW n \in Nat, NEW m \in Nat \ {0}
    PROVE  n \div m \in Nat /\ (n \div m) * m <= n /\ n < (n \div m + 1) * m
OBVIOUS

LEMMA Gives ==
    ASSUME NEW f \in FeeParts, NEW a \in Nat, NEW in \in Nat, NEW out \in Nat
    PROVE  /\ getAmountOut(f, a, in, out) \in Nat
           /\ in = 0 \/ out = 0 => getAmountOut(f, a, in, out) = 0
           /\ in # 0 /\ out # 0 =>
                 /\ getAmountOut(f, a, in, out) * (in * f[2] + a * f[1]) <= a * f[1] * out
                 /\ a * f[1] * out < (getAmountOut(f, a, in, out) + 1) * (in * f[2] + a * f[1])
<1>f. f[1] \in Nat \ {0} /\ f[2] \in Nat \ {0}
  BY DEF FeeParts
<1>1. CASE in = 0 \/ out = 0
  BY <1>1 DEF getAmountOut
<1>2. CASE in # 0 /\ out # 0
  <2> DEFINE n == a * f[1] * out
             m == in * f[2] + a * f[1]
  <2>1. n \in Nat /\ m \in Nat \ {0}
    <3>1. a * f[1] \in Nat /\ in * f[2] \in Nat \ {0}
      BY <1>2, <1>f
    <3> QED BY <3>1
  <2>2. getAmountOut(f, a, in, out) = n \div m
    BY <1>2 DEF getAmountOut
  <2> HIDE DEF n, m
  <2>3. n \div m \in Nat /\ (n \div m) * m <= n /\ n < (n \div m + 1) * m
    BY <2>1, DivBounds
  <2> QED BY <1>2, <2>2, <2>3 DEF n, m
<1> QED BY <1>1, <1>2

LEMMA NothingForNothing ==
    ASSUME NEW f \in FeeParts, NEW in \in Nat, NEW out \in Nat
    PROVE  getAmountOut(f, 0, in, out) = 0
<1>f. f[1] \in Nat \ {0} /\ f[2] \in Nat \ {0}
  BY DEF FeeParts
<1>1. CASE in = 0 \/ out = 0
  BY <1>1 DEF getAmountOut
<1>2. CASE in # 0 /\ out # 0
  <2>1. \A m \in Nat \ {0} : 0 \div m = 0
    OBVIOUS
  <2>2. 0 * f[1] * out = 0 /\ in * f[2] + 0 * f[1] \in Nat \ {0}
    BY <1>2, <1>f
  <2> QED BY <1>2, <2>1, <2>2 DEF getAmountOut
<1> QED BY <1>1, <1>2

LEMMA GivesBoth ==
    ASSUME NEW f \in FeeParts, NEW a \in Nat, NEW in \in Nat, NEW out \in Nat
    PROVE  LET u == getAmountOut(f, a, in, out)
               z == getAmountOut(f, u, out, in)
           IN  u \in Nat /\ z \in Nat /\ (in = 0 \/ out = 0 => u = 0 /\ z = 0)
<1> DEFINE u == getAmountOut(f, a, in, out)
           z == getAmountOut(f, u, out, in)
<1>1. u \in Nat /\ (in = 0 \/ out = 0 => u = 0)
  BY Gives
<1> HIDE DEF u
<1>2. z \in Nat /\ (in = 0 \/ out = 0 => z = 0)
  BY <1>1, Gives
<1> HIDE DEF z
<1>3. u \in Nat /\ z \in Nat /\ (in = 0 \/ out = 0 => u = 0 /\ z = 0)
  BY <1>1, <1>2
<1> QED BY <1>3 DEF u, z

LEMMA Trials ==
    ASSUME NEW f \in FeeParts, NEW a \in Nat, NEW in \in Nat \ {0}, NEW out \in Nat \ {0}
    PROVE  LET u == getAmountOut(f, a, in, out)
           IN  Trial(f, a, in, out, u, getAmountOut(f, u, out, in))
<1> DEFINE u == getAmountOut(f, a, in, out)
           z == getAmountOut(f, u, out, in)
<1>1. /\ u \in Nat
      /\ u * (in * f[2] + a * f[1]) <= a * f[1] * out
      /\ a * f[1] * out < (u + 1) * (in * f[2] + a * f[1])
  BY Gives
<1> HIDE DEF u
<1>2. /\ z * (out * f[2] + u * f[1]) <= u * f[1] * in
      /\ u * f[1] * in < (z + 1) * (out * f[2] + u * f[1])
  BY <1>1, Gives
<1> HIDE DEF z
<1>3. Trial(f, a, in, out, u, z)
  BY <1>1, <1>2 DEF Trial
<1> QED BY <1>3 DEF u, z

\* A V2 pool as a trial sees it: the reserve that AMOUNT goes into, and the other.
In(p) == IF Forth(p) THEN p.reserve0 ELSE p.reserve1
Out(p) == IF Forth(p) THEN p.reserve1 ELSE p.reserve0
TokenIn(p) == IF Forth(p) THEN p.token0 ELSE p.token1
TokenOut(p) == IF Forth(p) THEN p.token1 ELSE p.token0
Tradable(token) == Funded(token) /\ token \in Sound

Passes(p) ==
    /\ {p.token0, p.token1} \subseteq DOMAIN slot_map
    /\ RoundTrip(p) >= lower_bound

LEMMA RoundTripIs ==
    ASSUME NEW p \in PoolRecord, p.type \in V2Basic
    PROVE  /\ In(p) \in Nat /\ Out(p) \in Nat
           /\ TokenIn(p) \in Tokens /\ TokenOut(p) \in Tokens
           /\ {TokenIn(p), TokenOut(p)} = {p.token0, p.token1}
           /\ RoundTrip(p) =
                 LET f == router_fee(p.type)
                     u == IF Tradable(TokenIn(p)) THEN getAmountOut(f, AMOUNT, In(p), Out(p)) ELSE 0
                 IN  IF Tradable(TokenOut(p)) THEN getAmountOut(f, u, Out(p), In(p)) ELSE 0
<1>1. /\ p.token0 \in Tokens /\ p.token1 \in Tokens
      /\ p.reserve0 \in Nat /\ p.reserve1 \in Nat
  BY DEF PoolRecord
<1>2. CASE Forth(p)
  BY <1>1, <1>2 DEF In, Out, TokenIn, TokenOut, RoundTrip, RouterSwap, Tradable
<1>3. CASE ~ Forth(p)
  BY <1>1, <1>3 DEF In, Out, TokenIn, TokenOut, RoundTrip, RouterSwap, Tradable
<1> QED BY <1>2, <1>3

\* Both facts about a single pool: the V2 pools that pass are deep, and deep ones pass.
LEMMA PassesDeep ==
    ASSUME NEW p \in PoolRecord, p.type \in V2Basic, Passes(p)
    PROVE  AMOUNT * 33 <= In(p)
<1> DEFINE f == router_fee(p.type)
           u == getAmountOut(f, AMOUNT, In(p), Out(p))
           z == getAmountOut(f, u, Out(p), In(p))
<1>1. AMOUNT \in Nat /\ AMOUNT >= 100 /\ (AMOUNT * 95) \div 100 > 0
  BY FilterAssumption
<1>f. f \in FeeParts
  BY FeeKind
<1>r. RoundTrip(p) =
          LET v == IF Tradable(TokenIn(p)) THEN getAmountOut(f, AMOUNT, In(p), Out(p)) ELSE 0
          IN  IF Tradable(TokenOut(p)) THEN getAmountOut(f, v, Out(p), In(p)) ELSE 0
  BY RoundTripIs
<1> HIDE DEF f
<1>2. /\ In(p) \in Nat /\ Out(p) \in Nat
      /\ u \in Nat /\ (In(p) = 0 \/ Out(p) = 0 => u = 0)
      /\ z \in Nat /\ (In(p) = 0 \/ Out(p) = 0 => z = 0)
  <2>1. In(p) \in Nat /\ Out(p) \in Nat
    BY RoundTripIs
  <2>2. u \in Nat /\ z \in Nat /\ (In(p) = 0 \/ Out(p) = 0 => u = 0 /\ z = 0)
    BY <1>1, <1>f, <2>1, GivesBoth
  <2> HIDE DEF u, z
  <2> QED BY <2>1, <2>2
<1>3. RoundTrip(p) >= (AMOUNT * 95) \div 100
  BY DEF Passes, lower_bound
<1>4. Tradable(TokenOut(p)) /\ Tradable(TokenIn(p))
  <2>1. CASE ~ Tradable(TokenOut(p))
    <3>1. RoundTrip(p) = 0
      BY <2>1, <1>r
    <3> QED BY <1>1, <1>3, <3>1
  <2>2. CASE Tradable(TokenOut(p)) /\ ~ Tradable(TokenIn(p))
    <3>1. RoundTrip(p) = getAmountOut(f, 0, Out(p), In(p))
      BY <2>2, <1>r
    <3> QED BY <1>1, <1>2, <1>3, <1>f, <3>1, NothingForNothing
  <2> QED BY <2>1, <2>2
<1>5. RoundTrip(p) = z
  BY <1>4, <1>r
<1>6. In(p) # 0 /\ Out(p) # 0
  <2> HIDE DEF z
  <2> QED BY <1>1, <1>2, <1>3, <1>5
<1>7. Trial(f, AMOUNT, In(p), Out(p), u, z)
  BY <1>1, <1>2, <1>6, <1>f, Trials
<1> HIDE DEF u, z
<1> QED BY <1>1, <1>2, <1>3, <1>5, <1>6, <1>7, <1>f, TrialShallow

LEMMA PlainIsFunded ==
    ASSUME NEW t \in Tokens, Plain(t)
    PROVE  t \in DOMAIN slot_map /\ Funded(t)
<1>1. /\ AccessList[t] \subseteq Nat /\ BalanceSlot[t] \in AccessList[t] \ {IMPLEMENTATION_SLOT}
      /\ known_slots \in Seq(Nat \ {IMPLEMENTATION_SLOT})
  BY FilterAssumption
<1>2. CASE KnownAt(t) # {}
  <2>1. KnownAt(t) \subseteq Nat
    BY <1>1 DEF KnownAt
  <2>2. Min(KnownAt(t)) \in KnownAt(t)
    BY <1>2, <2>1, MinOf
  <2>3. /\ known_slots[Min(KnownAt(t))] \in AccessList[t] \ {IMPLEMENTATION_SLOT}
        /\ known_slots[Min(KnownAt(t))] \in ToSet(known_slots)
    <3>1. \A i \in DOMAIN known_slots : known_slots[i] # IMPLEMENTATION_SLOT
      BY <1>1
    <3>2. \A i \in KnownAt(t) : i \in DOMAIN known_slots /\ known_slots[i] \in AccessList[t]
      BY DEF KnownAt
    <3>3. \A i \in DOMAIN known_slots : known_slots[i] \in ToSet(known_slots)
      BY DEF ToSet
    <3> QED BY <2>2, <3>1, <3>2, <3>3
  <2>4. known_slots[Min(KnownAt(t))] = BalanceSlot[t]
    BY <2>3 DEF Plain
  <2> QED BY <1>2, <2>4 DEF slot_map, Funded
<1>3. CASE KnownAt(t) = {}
  <2>1. AccessList[t] \cap ToSet(known_slots) = {}
    BY <1>1, <1>3 DEF KnownAt, ToSet
  <2>2. Others(t) = {BalanceSlot[t]}
    BY <1>1, <2>1 DEF Plain, Others
  <2>3. Min(Others(t)) = BalanceSlot[t]
    BY <1>1, <2>2, MinOf
  <2> QED BY <1>3, <2>2, <2>3 DEF slot_map, Funded
<1> QED BY <1>2, <1>3

LEMMA DeepPasses ==
    ASSUME NEW p \in PoolRecord, p.type \in V2Basic, {p.token0, p.token1} \subseteq Sound,
           Plain(p.token0), Plain(p.token1),
           In(p) >= AMOUNT * 60, getAmountOut(router_fee(p.type), AMOUNT, In(p), Out(p)) >= 100
    PROVE  Passes(p)
<1> DEFINE f == router_fee(p.type)
           u == getAmountOut(f, AMOUNT, In(p), Out(p))
           z == getAmountOut(f, u, Out(p), In(p))
<1>1. AMOUNT \in Nat /\ AMOUNT >= 100
  BY FilterAssumption
<1>f. f \in FeeParts
  BY FeeKind
<1>3. {p.token0, p.token1} \subseteq DOMAIN slot_map /\ Tradable(TokenIn(p)) /\ Tradable(TokenOut(p))
  BY RoundTripIs, PlainIsFunded DEF Tradable
<1>4. RoundTrip(p) = z
  BY <1>3, RoundTripIs
<1>7. u >= 100
  OBVIOUS
<1> HIDE DEF f
<1>2. /\ In(p) \in Nat /\ Out(p) \in Nat
      /\ u \in Nat /\ (In(p) = 0 \/ Out(p) = 0 => u = 0)
      /\ z \in Nat /\ (In(p) = 0 \/ Out(p) = 0 => z = 0)
  <2>1. In(p) \in Nat /\ Out(p) \in Nat
    BY RoundTripIs
  <2>2. u \in Nat /\ z \in Nat /\ (In(p) = 0 \/ Out(p) = 0 => u = 0 /\ z = 0)
    BY <1>1, <1>f, <2>1, GivesBoth
  <2> HIDE DEF u, z
  <2> QED BY <2>1, <2>2
<1>5. In(p) # 0 /\ Out(p) # 0
  <2> HIDE DEF u
  <2> QED BY <1>2, <1>7
<1>6. Trial(f, AMOUNT, In(p), Out(p), u, z)
  BY <1>1, <1>2, <1>5, <1>f, Trials
<1> HIDE DEF u, z
<1>8. z >= (AMOUNT * 95) \div 100
  BY <1>1, <1>2, <1>5, <1>6, <1>7, <1>f, TrialDeep
<1> QED BY <1>3, <1>4, <1>8 DEF Passes, lower_bound

-----------------------------------------------------------------------------
(* Filter: what is kept. *)

LEMMA ToSync == DOMAIN SyncedPools \subseteq Nat /\ ToSet(SyncedPools) \subseteq PoolRecord
<1>1. SyncedPools \in Seq(PoolRecord)
  BY FilterAssumption
<1> QED BY <1>1 DEF ToSet

MatchedBy(list) ==
    {i \in DOMAIN SyncedPools :
        {SyncedPools[i].token0, SyncedPools[i].token1} \subseteq list \ BLACKLIST}

\* All that is kept passes, and all that was matched and passes is kept or still to be tried.
KeptInv ==
    /\ pools_left \subseteq DOMAIN SyncedPools
    /\ filtered_pools \in Seq({p \in ToSet(SyncedPools) : Passes(p)})
    /\ stage = "trial" =>
          \E list :
             /\ lists_used = {list}
             /\ \A i \in MatchedBy(list) :
                   Passes(SyncedPools[i]) =>
                       i \in pools_left \/ SyncedPools[i] \in ToSet(filtered_pools)

LEMMA KeptInit == FilterInit => KeptInv
BY DEF FilterInit, KeptInv

LEMMA Matched ==
    ASSUME ListInv', NEW list, MatchPools(list)
    PROVE  KeptInv'
<1>1. lists_used' = {list}
  <2>1. list \in lists_used' /\ lists_used' # {}
    BY DEF MatchPools
  <2> QED BY <2>1 DEF ListInv
<1>2. pools_left' = MatchedBy(list)
  BY DEF MatchPools, MatchedBy
<1>3. filtered_pools' = <<>>
  BY DEF MatchPools
<1> QED BY <1>1, <1>2, <1>3 DEF KeptInv, MatchedBy

LEMMA KeptStep == KeptInv /\ ListInv' /\ [FilterNext]_filterVars => KeptInv'
<1> SUFFICES ASSUME KeptInv, ListInv', [FilterNext]_filterVars
             PROVE  KeptInv'
  OBVIOUS
<1>1. CASE ReadFile
  BY <1>1, Matched DEF ReadFile
<1>2. CASE WriteFile
  BY <1>2, Matched DEF WriteFile
<1>3. CASE ReadTornFile \/ StartFetch \/ FetchPage \/ CreateFile \/ UNCHANGED filterVars
  <2>1. UNCHANGED <<pools_left, filtered_pools, lists_used>> /\ (stage' = "trial" => stage = "trial")
    BY <1>3 DEF ReadTornFile, StartFetch, FetchPage, CreateFile, filterVars
  <2> QED BY <2>1 DEF KeptInv
<1>4. CASE Stop
  BY <1>4 DEF Stop, KeptInv
<1>5. CASE TrialSwap
  <2> DEFINE at == Min(pools_left)
             pool == SyncedPools[at]
             Passing == {p \in ToSet(SyncedPools) : Passes(p)}
  <2>1. at \in pools_left /\ at \in DOMAIN SyncedPools /\ pool \in ToSet(SyncedPools)
    <3>1. pools_left \subseteq Nat /\ pools_left # {}
      BY <1>5, ToSync DEF KeptInv, TrialSwap
    <3> QED BY <3>1, MinOf DEF KeptInv, ToSet
  <2>2. /\ pools_left' = pools_left \ {at}
        /\ filtered_pools' = IF Passes(pool) THEN Append(filtered_pools, pool) ELSE filtered_pools
        /\ stage' = "trial" /\ stage = "trial" /\ lists_used' = lists_used
    BY <1>5 DEF TrialSwap, Passes
  <2>3. filtered_pools \in Seq(Passing)
    BY DEF KeptInv
  <2> HIDE DEF at
  <2>4. /\ filtered_pools' \in Seq(Passing)
        /\ ToSet(filtered_pools) \subseteq ToSet(filtered_pools')
        /\ Passes(pool) => pool \in ToSet(filtered_pools')
    <3>1. CASE Passes(pool)
      <4>1. pool \in Passing
        BY <2>1, <3>1
      <4> HIDE DEF Passing
      <4>2. filtered_pools' = Append(filtered_pools, pool)
        BY <2>2, <3>1
      <4> HIDE DEF pool
      <4> QED BY <2>3, <4>1, <4>2 DEF ToSet
    <3>2. CASE ~ Passes(pool)
      BY <2>2, <2>3, <3>2
    <3> QED BY <3>1, <3>2
  <2>5. PICK list :
           /\ lists_used = {list}
           /\ \A i \in MatchedBy(list) :
                 Passes(SyncedPools[i]) =>
                     i \in pools_left \/ SyncedPools[i] \in ToSet(filtered_pools)
    BY <2>2 DEF KeptInv
  <2>6. ASSUME NEW i \in MatchedBy(list), Passes(SyncedPools[i])
        PROVE  i \in pools_left' \/ SyncedPools[i] \in ToSet(filtered_pools')
    BY <2>2, <2>4, <2>5, <2>6
  <2>7. pools_left' \subseteq DOMAIN SyncedPools
    BY <2>2 DEF KeptInv
  <2>8. \A i \in MatchedBy(list) : Passes(SyncedPools[i]) =>
           i \in pools_left' \/ SyncedPools[i] \in ToSet(filtered_pools')
    BY <2>6
  <2> QED BY <2>2, <2>4, <2>5, <2>7, <2>8 DEF KeptInv, Passes, MatchedBy
<1> QED BY <1>1, <1>2, <1>3, <1>4, <1>5 DEF FilterNext

LEMMA FilterInvariant == FilterSpec => [](ListInv /\ KeptInv)
<1>1. ListInv /\ KeptInv /\ [FilterNext]_filterVars => (ListInv /\ KeptInv)'
  BY ListStep, KeptStep
<1> QED BY <1>1, ListInit, KeptInit, PTL DEF FilterSpec

\* A V2 pool that the filter keeps is deep where AMOUNT goes in, for all reserves, protocols
\* and other pools (filter.rs:86, 203-228, 271-374): a router that gives 95 of 100 back takes
\* at most a 33rd of the reserve.
THEOREM OnlyDeep == FilterSpec => []KeptAreDeep
<1>1. KeptInv => KeptAreDeep
  <2> SUFFICES ASSUME KeptInv, NEW p \in ToSet(filtered_pools), p.type \in V2Basic
               PROVE  AMOUNT * 33 <= In(p)
    BY DEF KeptAreDeep, In
  <2>1. p \in ToSet(SyncedPools) /\ Passes(p)
    <3> DEFINE Passing == {q \in ToSet(SyncedPools) : Passes(q)}
    <3>1. filtered_pools \in Seq(Passing)
      BY DEF KeptInv
    <3> HIDE DEF Passing
    <3>2. p \in Passing
      BY <3>1 DEF ToSet
    <3> QED BY <3>2 DEF Passing
  <2>2. p \in PoolRecord
    BY <2>1, ToSync
  <2> QED BY <2>1, <2>2, PassesDeep
<1> QED BY <1>1, FilterInvariant, PTL

\* No deep V2 pool of plain tokens without a fee on transfers is lost, for all reserves,
\* proxies and lists, and whatever pools of other kinds are tried in between.
THEOREM DeepKept == FilterSpec => []DeepAreKept
<1>1. KeptInv => DeepAreKept
  <2> SUFFICES ASSUME KeptInv, stage = "trial", pools_left = {},
                      NEW p \in ToSet(SyncedPools),
                      p.type \in V2Basic, {p.token0, p.token1} \subseteq Sound,
                      \E list \in lists_used : {p.token0, p.token1} \subseteq list \ BLACKLIST,
                      Plain(p.token0), Plain(p.token1), In(p) >= AMOUNT * 60,
                      getAmountOut(router_fee(p.type), AMOUNT, In(p), Out(p)) >= 100
               PROVE  p \in ToSet(filtered_pools)
    BY DEF DeepAreKept, In, Out
  <2>1. p \in PoolRecord
    BY ToSync
  <2>2. Passes(p)
    BY <2>1, DeepPasses
  <2>3. PICK list : /\ lists_used = {list}
                    /\ \A i \in MatchedBy(list) :
                          Passes(SyncedPools[i]) =>
                              i \in pools_left \/ SyncedPools[i] \in ToSet(filtered_pools)
    BY DEF KeptInv
  <2>4. PICK i \in DOMAIN SyncedPools : p = SyncedPools[i]
    BY DEF ToSet
  <2>5. i \in MatchedBy(list)
    BY <2>3, <2>4 DEF MatchedBy
  <2> QED BY <2>2, <2>3, <2>4, <2>5
<1> QED BY <1>1, FilterInvariant, PTL

-----------------------------------------------------------------------------
(* V3Swap: division, ticks and words. *)

LEMMA IntDiv ==
    ASSUME NEW x \in Int, NEW m \in Nat \ {0}
    PROVE  /\ x \div m \in Int /\ x % m \in 0..m - 1
           /\ x = (x \div m) * m + (x % m)
           /\ (x \div m) * m <= x /\ x < (x \div m + 1) * m
<1> DEFINE q == x \div m
           r == x % m
<1>1. q \in Int /\ r \in 0..m - 1
  OBVIOUS
<1>2. x - q * m = r
  OBVIOUS
<1> HIDE DEF q, r
<1>3. q * m \in Int /\ (q + 1) * m = q * m + m
  BY <1>1
<1>4. /\ q \in Int /\ r \in 0..m - 1
      /\ x = q * m + r
      /\ q * m <= x /\ x < (q + 1) * m
  BY <1>1, <1>2, <1>3
<1> QED BY <1>4 DEF q, r

LEMMA Negated == \A x, u \in Int : x + u = 0 => -x = u
OBVIOUS

LEMMA NoneNegated == -0 = 0
<1>1. 0 \in Int /\ 0 + 0 = 0
  OBVIOUS
<1> QED BY <1>1, Negated, Zenon

LEMMA Below ==
    ASSUME NEW x \in Int, NEW u \in Int, NEW m \in Nat \ {0}, x * m < (u + 1) * m
    PROVE  x <= u
OBVIOUS

LEMMA Scaled ==
    ASSUME NEW x \in Int, NEW u \in Int, NEW m \in Nat \ {0}, x <= u
    PROVE  x * m <= u * m
OBVIOUS

LEMMA DivMonotone ==
    ASSUME NEW x \in Int, NEW u \in Int, NEW m \in Nat \ {0}, x <= u
    PROVE  x \div m <= u \div m
<1>1. (x \div m) * m <= x /\ u < (u \div m + 1) * m /\ x \div m \in Int /\ u \div m \in Int
  BY IntDiv
<1>2. (x \div m) * m \in Int /\ (u \div m + 1) * m \in Int
  BY <1>1
<1>3. (x \div m) * m < (u \div m + 1) * m
  BY <1>1, <1>2
<1> QED BY <1>1, <1>3, Below

LEMMA DivNext ==
    ASSUME NEW x \in Int, NEW m \in Nat \ {0}
    PROVE  (x + 1) \div m <= x \div m + 1
<1> DEFINE q == x \div m
           r == (x + 1) \div m
<1>1. q \in Int /\ r \in Int /\ r * m <= x + 1 /\ x < (q + 1) * m
  BY IntDiv
<1> HIDE DEF q, r
<1>2. r * m < (q + 1 + 1) * m
  BY <1>1
<1>3. r <= q + 1
  BY <1>1, <1>2, Below
<1> QED BY <1>3 DEF q, r

LEMMA TruncatedNear ==
    ASSUME NEW x \in Int, NEW m \in Nat \ {0}
    PROVE  Truncated(x, m) \in {x \div m, x \div m + 1}
<1>1. CASE x >= 0
  BY <1>1, IntDiv DEF Truncated
<1>2. CASE x < 0
  <2>1. -((-x) \div m) \in {x \div m, x \div m + 1}
    OBVIOUS
  <2> QED BY <1>2, <2>1 DEF Truncated
<1> QED BY <1>1, <1>2

\* The word the library looks into is always one of the three that were loaded.
LEMMA WordLoaded ==
    ASSUME tick \in Int
    PROVE  WhereToLook.word \in LoadedWords
<1> DEFINE c == tick \div TICK_SPACING
           t == Truncated(tick, TICK_SPACING)
           w == t \div WORD
<1>1. TICK_SPACING \in Nat \ {0} /\ WORD \in Nat \ {0}
  BY V3Assumption
<1>2. c \in Int /\ t \in {c, c + 1}
  BY <1>1, IntDiv, TruncatedNear
<1>3. WhereToLook.word \in {c \div WORD, (c + 1) \div WORD}
  BY DEF WhereToLook, position
<1> HIDE DEF c, t
<1>4. /\ c \div WORD \in Int /\ (c + 1) \div WORD \in Int
      /\ c \div WORD <= (c + 1) \div WORD /\ (c + 1) \div WORD <= c \div WORD + 1
  BY <1>1, <1>2, IntDiv, DivMonotone, DivNext
<1>5. LoadedWords = w - 1..w + 1
  BY DEF LoadedWords, position, t
<1>6. w \in {c \div WORD, (c + 1) \div WORD}
  BY <1>2
<1> HIDE DEF w
<1> QED BY <1>3, <1>4, <1>5, <1>6

LEMMA PositionsAre ==
    ASSUME positions \subseteq Positions
    PROVE  /\ IsFiniteSet(positions)
           /\ \A p \in positions :
                 /\ p.lower \in MIN_TICK..MAX_TICK /\ p.upper \in MIN_TICK..MAX_TICK
                 /\ p.lower \in Int /\ p.upper \in Int /\ p.lower < p.upper
                 /\ p.lower % TICK_SPACING = 0 /\ p.upper % TICK_SPACING = 0
           /\ \A t : Initialized(t) => t \in MIN_TICK..MAX_TICK /\ t \in Int /\ t % TICK_SPACING = 0
<1>1. IsFiniteSet(positions)
  BY V3Assumption, FS_Subset
<1>2. \A p \in positions :
         /\ p.lower \in MIN_TICK..MAX_TICK /\ p.upper \in MIN_TICK..MAX_TICK
         /\ p.lower < p.upper
         /\ p.lower % TICK_SPACING = 0 /\ p.upper % TICK_SPACING = 0
  BY V3Assumption
<1>3. \A t \in MIN_TICK..MAX_TICK : t \in Int
  BY V3Assumption
<1> QED BY <1>1, <1>2, <1>3 DEF Initialized

LEMMA TotalIs ==
    ASSUME NEW ps \in SUBSET Positions, NEW qs \in SUBSET Positions, ps \cap qs = {}
    PROVE  Total(ps) \in Nat /\ Total(ps \cup qs) = Total(ps) + Total(qs)
<1>1. IsFiniteSet(Positions) /\ \A p \in Positions : AmountOf[p] \in Nat
  BY V3Assumption DEF AmountOf
<1>2. IsFiniteSet(ps)
  BY <1>1, FS_Subset
<1>3. \A p \in Positions : AmountOf[p] \in Int
  BY <1>1
<1>4. SumFunctionOnSet(AmountOf, ps) \in Nat
  BY <1>1, <1>2, SumNat
<1>5. SumFunctionOnSet(AmountOf, ps \cup qs)
         = SumFunctionOnSet(AmountOf, ps) + SumFunctionOnSet(AmountOf, qs)
  BY <1>1, <1>3, SumUnion
<1> QED BY <1>4, <1>5 DEF Total

LEMMA ActiveNat ==
    ASSUME positions \subseteq Positions, NEW t \in Int
    PROVE  ActiveAt(t) \in Nat
<1>1. {p \in positions : p.lower <= t /\ t < p.upper} \in SUBSET Positions
  OBVIOUS
<1>2. {} \in SUBSET Positions
  OBVIOUS
<1> QED BY <1>1, <1>2, TotalIs DEF ActiveAt

\* What a tick adds to the liquidity when it is crossed from below.
LEMMA Crossing ==
    ASSUME positions \subseteq Positions, NEW t \in Int
    PROVE  /\ ticks_liquidity_net(t) \in Int
           /\ ActiveAt(t) = ActiveAt(t - 1) + ticks_liquidity_net(t)
<1> DEFINE both == {p \in positions : p.lower < t /\ t < p.upper}
           from == {p \in positions : p.lower = t}
           upto == {p \in positions : p.upper = t}
<1>1. \A p \in positions : p.lower \in Int /\ p.upper \in Int /\ p.lower < p.upper
  BY PositionsAre
<1>2. {p \in positions : p.lower <= t /\ t < p.upper} = both \cup from
  BY <1>1
<1>3. {p \in positions : p.lower <= t - 1 /\ t - 1 < p.upper} = both \cup upto
  BY <1>1
<1>4. /\ both \in SUBSET Positions /\ from \in SUBSET Positions /\ upto \in SUBSET Positions
      /\ both \cap from = {} /\ both \cap upto = {} /\ from \cap upto = {}
  BY <1>1
<1>5. ticks_liquidity_net(t) = Total(from) - Total(upto)
  BY DEF ticks_liquidity_net
<1>6. ActiveAt(t) = Total(both \cup from) /\ ActiveAt(t - 1) = Total(both \cup upto)
  BY <1>2, <1>3 DEF ActiveAt
<1> HIDE DEF both, from, upto
<1>7. /\ Total(both \cup from) = Total(both) + Total(from)
      /\ Total(both \cup upto) = Total(both) + Total(upto)
      /\ Total(both) \in Nat /\ Total(from) \in Nat
  BY <1>4, TotalIs
<1>8. Total(upto) \in Nat
  <2>1. upto \cap from = {}
    BY <1>4
  <2> QED BY <1>4, <2>1, TotalIs
<1> QED BY <1>5, <1>6, <1>7, <1>8

LEMMA NothingToCross ==
    ASSUME positions \subseteq Positions, NEW t \in Int, ~ Initialized(t)
    PROVE  ticks_liquidity_net(t) = 0
<1>1. {p \in positions : p.lower = t} = {} /\ {p \in positions : p.upper = t} = {}
  BY DEF Initialized
<1>2. Total({}) = 0
  BY SumOfNone DEF Total
<1> QED BY <1>1, <1>2 DEF ticks_liquidity_net

LEMMA SameActive ==
    ASSUME positions \subseteq Positions, NEW s \in Int, NEW t \in Int, s <= t,
           \A u \in s + 1..t : ~ Initialized(u)
    PROVE  ActiveAt(s) = ActiveAt(t)
<1>1. \A p \in positions :
         p.lower \in Int /\ p.upper \in Int /\ p.lower \notin s + 1..t /\ p.upper \notin s + 1..t
  BY PositionsAre DEF Initialized
<1>2. {p \in positions : p.lower <= s /\ s < p.upper} = {p \in positions : p.lower <= t /\ t < p.upper}
  BY <1>1
<1> QED BY <1>2 DEF ActiveAt

\* The bitmap as the library sees it is the pool's, whatever reads of it fail: a word that has
\* to be asked for has no ticks.
LEMMA Bitmap ==
    ASSUME NEW failed \in SUBSET (LoadedWords \ InsertedWords), NEW w
    PROVE  tick_bitmap(w, failed) = {b \in 0..WORD - 1 : Initialized(TickOf(w, b))}
<1>1. CASE w \in failed
  BY <1>1 DEF tick_bitmap, InsertedWords
<1>2. CASE w \notin failed
  BY <1>2 DEF tick_bitmap
<1> QED BY <1>1, <1>2

LEMMA Looking ==
    ASSUME tick \in Int, zero_to_one \in BOOLEAN
    PROVE  LET c == IF zero_to_one THEN tick \div TICK_SPACING ELSE tick \div TICK_SPACING + 1
               at == WhereToLook
           IN  /\ at.word \in Int /\ at.bit \in 0..WORD - 1
               /\ at.word * WORD + at.bit = c
<1> DEFINE c == IF zero_to_one THEN tick \div TICK_SPACING ELSE tick \div TICK_SPACING + 1
<1>1. c \in Int
  <2>1. TICK_SPACING \in Nat \ {0}
    BY V3Assumption
  <2>2. tick \div TICK_SPACING \in Int
    BY <2>1, IntDiv
  <2> QED BY <2>2
<1>2. WhereToLook = position(c)
  BY DEF WhereToLook
<1> HIDE DEF c
<1>3. WhereToLook.word = c \div WORD /\ WhereToLook.bit = c % WORD
  BY <1>2 DEF position
<1>4. c \div WORD \in Int /\ c % WORD \in 0..WORD - 1 /\ c = (c \div WORD) * WORD + (c % WORD)
  BY <1>1, V3Assumption, IntDiv
<1>5. /\ WhereToLook.word \in Int /\ WhereToLook.bit \in 0..WORD - 1
      /\ WhereToLook.word * WORD + WhereToLook.bit = c
  BY <1>3, <1>4
<1> QED BY <1>5 DEF c

\* A tick between the price's and another in the word has its bit between theirs.
LEMMA TickBetween ==
    ASSUME NEW w \in Int, NEW b \in 0..WORD - 1, NEW u \in Int, u % TICK_SPACING = 0
    PROVE  /\ TickOf(w, b) \in Int
           /\ u = (u \div TICK_SPACING) * TICK_SPACING /\ u \div TICK_SPACING \in Int
           /\ TickOf(w, b) < u => w * WORD + b < u \div TICK_SPACING
           /\ u < TickOf(w, b) => u \div TICK_SPACING < w * WORD + b
           /\ tick \in Int /\ u <= tick => u \div TICK_SPACING <= tick \div TICK_SPACING
           /\ tick \in Int /\ u > tick => u \div TICK_SPACING > tick \div TICK_SPACING
<1> DEFINE m == TICK_SPACING
           c == u \div m
           k == w * WORD + b
<1>1. m \in Nat \ {0} /\ k \in Int
  BY V3Assumption
<1>2. c \in Int /\ u = c * m
  BY <1>1, IntDiv
<1>3. TickOf(w, b) = k * m
  BY DEF TickOf
<1> HIDE DEF c, k
<1>4. k * m \in Int
  BY <1>1, <1>2
<1>5. k * m < c * m => k < c
  <2>1. c <= k => c * m <= k * m
    BY <1>1, <1>2, Scaled
  <2> QED BY <1>1, <1>2, <1>4, <2>1
<1>6. c * m < k * m => c < k
  <2>1. k <= c => k * m <= c * m
    BY <1>1, <1>2, Scaled
  <2> QED BY <1>1, <1>2, <1>4, <2>1
<1>7. ASSUME tick \in Int, u <= tick
      PROVE  c <= tick \div m
  BY <1>1, <1>7, DivMonotone DEF c
<1>8. ASSUME tick \in Int, u > tick
      PROVE  c > tick \div m
  <2> DEFINE q == tick \div m
  <2>1. q \in Int /\ q * m <= tick
    BY <1>1, <1>8, IntDiv
  <2> HIDE DEF q
  <2>2. c <= q => c * m <= q * m
    BY <1>1, <1>2, <2>1, Scaled
  <2>3. q * m \in Int
    BY <1>1, <2>1
  <2> QED BY <1>2, <1>8, <2>1, <2>2, <2>3 DEF q
<1> HIDE DEF m
<1>9. /\ TickOf(w, b) \in Int
      /\ u = c * m /\ c \in Int
      /\ TickOf(w, b) < u => k < c
      /\ u < TickOf(w, b) => c < k
      /\ tick \in Int /\ u <= tick => c <= tick \div m
      /\ tick \in Int /\ u > tick => c > tick \div m
  BY <1>2, <1>3, <1>4, <1>5, <1>6, <1>7, <1>8
<1> QED BY <1>9 DEF m, c, k

\* The next tick is told whether it is initialized, and none is passed over.
LEMMA NextTickIs ==
    ASSUME tick \in Int, zero_to_one \in BOOLEAN, positions \subseteq Positions,
           NEW failed \in SUBSET (LoadedWords \ InsertedWords)
    PROVE  LET n == NextTick(failed)
           IN  /\ n.tick \in Int
               /\ n.initialized <=> Initialized(n.tick)
               /\ zero_to_one => /\ n.tick <= tick
                                 /\ \A u \in n.tick + 1..tick : ~ Initialized(u)
               /\ ~ zero_to_one => /\ n.tick > tick
                                   /\ \A u \in tick + 1..n.tick - 1 : ~ Initialized(u)
<1> DEFINE n     == NextTick(failed)
           at    == WhereToLook
           w     == at.word
           bits  == IF zero_to_one THEN 0..at.bit ELSE at.bit..WORD - 1
           found == {b \in bits : Initialized(TickOf(w, b))}
           bit   == IF zero_to_one THEN IF found = {} THEN 0 ELSE Max(found)
                    ELSE IF found = {} THEN WORD - 1 ELSE Min(found)
           c     == IF zero_to_one THEN tick \div TICK_SPACING ELSE tick \div TICK_SPACING + 1
<1>1. w \in Int /\ at.bit \in 0..WORD - 1 /\ w * WORD + at.bit = c /\ WORD \in Nat \ {0}
  BY Looking, V3Assumption
<1>2. c \in Int /\ TICK_SPACING \in Nat \ {0} /\ tick \div TICK_SPACING \in Int
  <2>1. TICK_SPACING \in Nat \ {0}
    BY V3Assumption
  <2>2. tick \div TICK_SPACING \in Int
    BY <2>1, IntDiv
  <2> QED BY <2>1, <2>2
<1>3. bits \subseteq 0..WORD - 1
  BY <1>1
<1>4. n.initialized = (found # {}) /\ n.tick = TickOf(w, bit)
  <2>1. bits \cap tick_bitmap(w, failed) = found
    BY <1>3, Bitmap
  <2> QED BY <2>1 DEF NextTick
<1> HIDE DEF n
<1>5. /\ bit \in bits
      /\ found # {} => bit \in found
      /\ zero_to_one => \A b \in found : b <= bit
      /\ ~ zero_to_one => \A b \in found : bit <= b
  <2>1. WORD - 1 \in Nat /\ found \in SUBSET (0..WORD - 1) /\ found \in SUBSET Nat
    BY <1>1, <1>3
  <2>2. CASE zero_to_one /\ found # {}
    <3>1. Max(found) \in found /\ \A j \in found : j <= Max(found)
      <4> HIDE DEF found
      <4> QED BY <2>1, <2>2, MaxOf
    <3> HIDE DEF found
    <3>2. found \subseteq bits
      BY DEF found
    <3> QED BY <2>2, <3>1, <3>2
  <2>3. CASE ~ zero_to_one /\ found # {}
    <3>1. Min(found) \in found /\ \A j \in found : Min(found) <= j
      <4> HIDE DEF found
      <4> QED BY <2>1, <2>3, MinOf
    <3> HIDE DEF found
    <3>2. found \subseteq bits
      BY DEF found
    <3> QED BY <2>3, <3>1, <3>2
  <2>4. CASE found = {}
    <3> HIDE DEF found
    <3> QED BY <1>1, <2>4
  <2> QED BY <2>2, <2>3, <2>4
<1> HIDE DEF bit
<1>6. bit \in 0..WORD - 1 /\ (found # {} <=> Initialized(TickOf(w, bit)))
  BY <1>3, <1>5
<1>7. n.tick \in Int
  BY <1>1, <1>4, <1>6, V3Assumption DEF TickOf
<1>8. ASSUME NEW u, Initialized(u)
      PROVE  /\ u \in Int
             /\ ~ (zero_to_one /\ n.tick < u /\ u <= tick)
             /\ ~ (~ zero_to_one /\ tick < u /\ u < n.tick)
  <2> DEFINE v == u \div TICK_SPACING
             b == v - w * WORD
  <2>1. u \in Int /\ u % TICK_SPACING = 0
    BY <1>8, PositionsAre
  <2>2. /\ u = v * TICK_SPACING /\ v \in Int
        /\ n.tick < u => w * WORD + bit < v
        /\ u < n.tick => v < w * WORD + bit
        /\ u <= tick => v <= tick \div TICK_SPACING
        /\ u > tick => v > tick \div TICK_SPACING
    BY <1>1, <1>4, <1>6, <2>1, TickBetween
  <2> HIDE DEF v
  <2>3. w * WORD \in Int
    BY <1>1
  <2>4. b \in Int /\ w * WORD + b = v
    BY <2>2, <2>3
  <2> HIDE DEF b
  <2>5. TickOf(w, b) = u
    BY <2>2, <2>4 DEF TickOf
  <2>6. CASE zero_to_one /\ n.tick < u /\ u <= tick
    <3>1. bit < b /\ b <= at.bit
      BY <1>1, <1>2, <1>6, <2>2, <2>3, <2>4, <2>6
    <3>2. b \in found
      BY <1>1, <1>6, <1>8, <2>4, <2>5, <2>6, <3>1
    <3> QED BY <1>5, <1>6, <2>4, <2>6, <3>1, <3>2
  <2>7. CASE ~ zero_to_one /\ tick < u /\ u < n.tick
    <3>1. b < bit /\ at.bit <= b
      BY <1>1, <1>2, <1>6, <2>2, <2>3, <2>4, <2>7
    <3>2. b \in found
      BY <1>1, <1>6, <1>8, <2>4, <2>5, <2>7, <3>1
    <3> QED BY <1>5, <1>6, <2>4, <2>7, <3>1, <3>2
  <2> QED BY <2>1, <2>6, <2>7
<1>9. /\ zero_to_one => n.tick <= tick
      /\ ~ zero_to_one => n.tick > tick
  <2> DEFINE k == w * WORD + bit
             q == tick \div TICK_SPACING
  <2>1. k \in Int /\ (zero_to_one => k <= q) /\ (~ zero_to_one => q + 1 <= k)
    BY <1>1, <1>2, <1>3, <1>5, <1>6
  <2>2. n.tick = k * TICK_SPACING
    BY <1>4 DEF TickOf
  <2>3. q \in Int /\ q * TICK_SPACING <= tick /\ tick < (q + 1) * TICK_SPACING
    BY <1>2, IntDiv
  <2> HIDE DEF k, q
  <2>4. q * TICK_SPACING \in Int /\ (q + 1) * TICK_SPACING \in Int
    BY <1>2, <2>3
  <2>5. zero_to_one => k * TICK_SPACING <= q * TICK_SPACING
    BY <1>2, <2>1, <2>3, Scaled
  <2>6. ~ zero_to_one => (q + 1) * TICK_SPACING <= k * TICK_SPACING
    BY <1>2, <2>1, <2>3, Scaled
  <2> QED BY <1>7, <2>2, <2>3, <2>4, <2>5, <2>6
<1>10. n.initialized <=> Initialized(n.tick)
  BY <1>4, <1>6
<1>11. /\ n.tick \in Int
       /\ n.initialized <=> Initialized(n.tick)
       /\ zero_to_one => /\ n.tick <= tick
                         /\ \A u \in n.tick + 1..tick : ~ Initialized(u)
       /\ ~ zero_to_one => /\ n.tick > tick
                           /\ \A u \in tick + 1..n.tick - 1 : ~ Initialized(u)
  BY <1>7, <1>8, <1>9, <1>10
<1> QED BY <1>11 DEF n

-----------------------------------------------------------------------------
(* V3Swap: one round. *)

LEMMA DivBetween ==
    ASSUME NEW k \in Int, NEW s \in Int, NEW t \in Int, NEW m \in Nat \ {0}
    PROVE  /\ s * m <= k => s <= k \div m
           /\ k < t * m => k \div m < t
<1> DEFINE q == k \div m
<1>1. q \in Int /\ q * m <= k /\ k < (q + 1) * m
  BY IntDiv
<1> HIDE DEF q
<1>2. q * m \in Int /\ (q + 1) * m \in Int /\ s * m \in Int /\ t * m \in Int
  BY <1>1
<1>3. s * m <= k => s <= q
  <2>1. s * m <= k => s * m < (q + 1) * m
    BY <1>1, <1>2
  <2> QED BY <1>1, <2>1, Below
<1>4. k < t * m => q < t
  <2>1. t <= q => t * m <= q * m
    BY <1>1, Scaled
  <2> QED BY <1>1, <1>2, <2>1
<1> QED BY <1>3, <1>4 DEF q

LEMMA ConstantSum ==
    ASSUME NEW f, NEW a \in Int, NEW b \in Int, a <= b, NEW c \in Int,
           \A k \in a..b - 1 : f[k] = c
    PROVE  SumFunctionOnSet(f, a..b - 1) = c * (b - a)
<1> DEFINE Sum(n) == SumFunctionOnSet(f, a..a + n - 1)
           T == {n \in 0..b - a : Sum(n) # c * n}
<1>1. T = {}
  <2> SUFFICES ASSUME T # {}
               PROVE  FALSE
    OBVIOUS
  <2>1. PICK n \in T : \A k \in T : n <= k
    <3>1. T \subseteq Nat
      OBVIOUS
    <3> HIDE DEF T
    <3> QED BY <3>1, NatMin
  <2>2. n \in 0..b - a /\ Sum(n) # c * n
    OBVIOUS
  <2>3. n # 0
    <3>1. a..a + 0 - 1 = {}
      OBVIOUS
    <3>2. Sum(0) = 0
      BY <3>1, SumOfNone
    <3> HIDE DEF Sum
    <3> QED BY <2>2, <3>2
  <2>4. Sum(n - 1) = c * (n - 1)
    <3>1. n - 1 \in 0..b - a
      BY <2>2, <2>3
    <3>2. n - 1 \notin T
      <4> HIDE DEF T
      <4> QED BY <2>1, <2>2
    <3> HIDE DEF Sum
    <3> QED BY <3>1, <3>2
  <2> DEFINE last == a + n - 1
             places == a..last
  <2>5. /\ IsFiniteSet(places)
        /\ last \in places /\ places \ {last} = a..a + (n - 1) - 1
        /\ \A k \in places : f[k] = c
    <3>1. last \in Int
      BY <2>2
    <3>2. IsFiniteSet(places)
      BY <3>1, FS_Interval
    <3> QED BY <2>2, <2>3, <3>2
  <2>6. SumFunctionOnSet(f, places) = f[last] + SumFunctionOnSet(f, places \ {last})
    <3>1. \A k \in places : f[k] \in Int
      BY <2>5
    <3>2. IsFiniteSet(places) /\ last \in places
      BY <2>5
    <3> HIDE DEF places, last
    <3> QED BY <3>1, <3>2, SumRemove
  <2>7. Sum(n) = c + Sum(n - 1)
    <3>1. f[last] = c
      BY <2>5
    <3>2. Sum(n - 1) = SumFunctionOnSet(f, places \ {last})
      BY <2>5
    <3>3. Sum(n) = SumFunctionOnSet(f, places)
      OBVIOUS
    <3> HIDE DEF Sum, places, last
    <3> QED BY <2>6, <3>1, <3>2, <3>3
  <2> HIDE DEF Sum
  <2>8. c * n = c + c * (n - 1)
    BY <2>2
  <2> QED BY <2>2, <2>4, <2>7, <2>8
<1>2. b - a \in 0..b - a /\ a + (b - a) - 1 = b - 1
  OBVIOUS
<1>3. Sum(b - a) = c * (b - a)
  <2> HIDE DEF Sum
  <2> QED BY <1>1, <1>2
<1> QED BY <1>2, <1>3

\* The fee on an input that reaches the target fits into what is left.
LEMMA FeeFits ==
    ASSUME NEW r \in Nat, NEW x \in Nat, NEW fee \in Nat, NEW rest \in Nat \ {0},
           x <= (r * rest) \div (fee + rest)
    PROVE  /\ CeilDiv(x * fee, rest) \in Nat
           /\ x + CeilDiv(x * fee, rest) <= r
<1> DEFINE q == (r * rest) \div (fee + rest)
<1>1. q \in Int /\ q * (fee + rest) <= r * rest
  <2>1. r * rest \in Int /\ fee + rest \in Nat \ {0}
    OBVIOUS
  <2> QED BY <2>1, IntDiv
<1>2. x * (fee + rest) <= q * (fee + rest)
  <2>1. fee + rest \in Nat \ {0} /\ x \in Int /\ x <= q
    OBVIOUS
  <2> HIDE DEF q
  <2> QED BY <1>1, <2>1, Scaled
<1> HIDE DEF q
<1>3. x * fee <= (r - x) * rest
  <2>1. q * (fee + rest) \in Int
    BY <1>1
  <2>2. x * (fee + rest) <= r * rest
    BY <1>1, <1>2, <2>1
  <2>3. x * (fee + rest) = x * fee + x * rest /\ (r - x) * rest = r * rest - x * rest
    OBVIOUS
  <2> QED BY <2>2, <2>3
<1> DEFINE n == x * fee
           k == n + rest - 1
<1>4. n \in Nat /\ k \in Nat
  OBVIOUS
<1>5. k \div rest \in Nat
  BY <1>4
<1>6. k < (r - x + 1) * rest
  <2>1. (r - x + 1) * rest = (r - x) * rest + rest /\ (r - x) * rest \in Int
    OBVIOUS
  <2>2. n <= (r - x) * rest
    BY <1>3
  <2> HIDE DEF n
  <2> QED BY <1>4, <2>1, <2>2
<1>7. k \div rest < r - x + 1
  <2> HIDE DEF k
  <2> QED BY <1>4, <1>6, DivBetween
<1>8. CeilDiv(x * fee, rest) = k \div rest
  BY DEF CeilDiv
<1> HIDE DEF k
<1> QED BY <1>5, <1>7, <1>8

LEMMA StepIs ==
    ASSUME sqrt_price \in Int, liquidity \in Nat, amount_specified_remaining \in Nat,
           zero_to_one \in BOOLEAN, NEW target \in Int,
           zero_to_one => target <= sqrt_price,
           ~ zero_to_one => sqrt_price <= target
    PROVE  LET step == compute_swap_step(target)
           IN  /\ step.price \in Int
               /\ zero_to_one => /\ target <= step.price /\ step.price <= sqrt_price
                                 /\ step.amount_out = liquidity * (sqrt_price - step.price)
               /\ ~ zero_to_one => /\ sqrt_price <= step.price /\ step.price <= target
                                   /\ step.amount_out = liquidity * (step.price - sqrt_price)
               /\ step.amount_out \in Nat
               /\ amount_specified_remaining - (step.amount_in + step.fee_amount) \in Nat
<1> DEFINE r        == amount_specified_remaining
           distance == IF zero_to_one THEN sqrt_price - target ELSE target - sqrt_price
           net      == (r * (SCALE - FEE)) \div SCALE
           reached  == net >= liquidity * distance
           travel   == IF reached THEN distance ELSE net \div liquidity
           amount   == liquidity * travel
           fee      == IF reached THEN CeilDiv(amount * FEE, SCALE - FEE) ELSE r - amount
           step     == compute_swap_step(target)
<1>1. distance \in Nat /\ SCALE \in Nat \ {0} /\ FEE \in Nat /\ SCALE - FEE \in Nat \ {0}
  BY V3Assumption
<1>2. net \in Nat /\ net <= r
  <2>1. r * (SCALE - FEE) \in Nat
    BY <1>1
  <2>2. net \in Int /\ 0 <= net
    BY <1>1, <2>1, DivBetween, IntDiv
  <2>3. net * SCALE <= r * (SCALE - FEE)
    BY <1>1, <2>1, IntDiv
  <2> HIDE DEF net
  <2>4. r * (SCALE - FEE) <= r * SCALE
    BY <1>1
  <2>5. net * SCALE < (r + 1) * SCALE
    BY <1>1, <2>1, <2>2, <2>3, <2>4
  <2> QED BY <1>1, <2>2, <2>5, Below
<1>3. step.price = (IF zero_to_one THEN sqrt_price - travel ELSE sqrt_price + travel)
      /\ step.amount_in = amount /\ step.amount_out = amount /\ step.fee_amount = fee
  BY DEF compute_swap_step
<1> HIDE DEF step
<1>4. /\ travel \in Nat /\ travel <= distance
      /\ amount \in Nat /\ r - (amount + fee) \in Nat
  <2>1. CASE reached
    <3>1. travel = distance /\ fee = CeilDiv(amount * FEE, SCALE - FEE)
      BY <2>1
    <3>2. amount \in Nat /\ amount <= net
      <4> HIDE DEF net, distance
      <4> QED BY <1>1, <1>2, <2>1
    <3> HIDE DEF amount, travel, fee, distance
    <3>3. /\ CeilDiv(amount * FEE, SCALE - FEE) \in Nat
          /\ amount + CeilDiv(amount * FEE, SCALE - FEE) <= r
      <4>1. FEE + (SCALE - FEE) = SCALE
        BY <1>1
      <4> HIDE DEF reached
      <4> QED BY <1>1, <3>2, <4>1, FeeFits
    <3> QED BY <1>1, <3>1, <3>2, <3>3
  <2>2. CASE ~ reached
    <3> HIDE DEF net, distance
    <3>1. net < liquidity * distance /\ travel = net \div liquidity /\ fee = r - amount
      BY <1>1, <1>2, <2>2
    <3>2. liquidity \in Nat \ {0}
      BY <1>1, <1>2, <3>1
    <3>3. travel \in Int /\ travel * liquidity <= net /\ 0 <= travel
      <4>1. net \div liquidity \in Int /\ (net \div liquidity) * liquidity <= net
        BY <1>2, <3>2, IntDiv
      <4>2. 0 * liquidity <= net
        BY <1>2, <3>2
      <4>3. 0 <= net \div liquidity
        BY <1>2, <3>2, <4>2, DivBetween
      <4> HIDE DEF travel
      <4> QED BY <3>1, <4>1, <4>3
    <3>4. travel < distance
      <4>1. net < distance * liquidity
        BY <1>1, <3>1
      <4> QED BY <1>1, <1>2, <3>1, <3>2, <4>1, DivBetween
    <3>5. amount \in Nat /\ amount <= net
      <4> HIDE DEF travel
      <4> QED BY <1>2, <3>2, <3>3
    <3> HIDE DEF amount, travel, fee
    <3> QED BY <1>1, <1>2, <3>1, <3>3, <3>4, <3>5
  <2> QED BY <2>1, <2>2
<1> HIDE DEF travel, fee
<1>5. /\ zero_to_one => sqrt_price - step.price = travel
      /\ ~ zero_to_one => step.price - sqrt_price = travel
      /\ step.price \in Int
  BY <1>3, <1>4
<1>6. /\ zero_to_one => target <= step.price /\ step.price <= sqrt_price
      /\ ~ zero_to_one => sqrt_price <= step.price /\ step.price <= target
  BY <1>1, <1>4, <1>5
<1>7. /\ step.price \in Int
      /\ zero_to_one => /\ target <= step.price /\ step.price <= sqrt_price
                        /\ step.amount_out = liquidity * (sqrt_price - step.price)
      /\ ~ zero_to_one => /\ sqrt_price <= step.price /\ step.price <= target
                          /\ step.amount_out = liquidity * (step.price - sqrt_price)
      /\ step.amount_out \in Nat
      /\ amount_specified_remaining - (step.amount_in + step.fee_amount) \in Nat
  BY <1>3, <1>4, <1>5, <1>6
<1> QED BY <1>7 DEF step

-----------------------------------------------------------------------------
(* V3Swap: the invariant. *)

\* The prices passed so far.
Way == IF zero_to_one THEN sqrt_price..start - 1 ELSE start..sqrt_price - 1

\* The tick is that of the price (or the one below, if a tick was crossed from above), the
\* liquidity that of the tick, and what came out is the sum over the way; only then is the
\* sign of every net liquidity right.
SwapInv ==
    /\ SwapTypeOK /\ pc \in {"loop", "done"} /\ amount_calculated \in Int
    /\ start \in MIN_SQRT_RATIO + 1..MAX_SQRT_RATIO - 1
    /\ zero_to_one => sqrt_price <= start
    /\ ~ zero_to_one => start <= sqrt_price
    /\ liquidity = ActiveAt(tick)
    /\ get_sqrt_ratio_at_tick(tick) <= sqrt_price
    /\ sqrt_price <= get_sqrt_ratio_at_tick(tick + 1)
    /\ -amount_calculated = SumFunctionOnSet(DueAt, Way)
    /\ pc = "done" => ~ GoesOn

LEMMA Bounds ==
    /\ MIN_TICK \in Int /\ MAX_TICK \in Int /\ MIN_TICK < MAX_TICK
    /\ SUBTICKS \in Nat \ {0} /\ SUBTICKS > 1
    /\ MIN_SQRT_RATIO \in Int /\ MAX_SQRT_RATIO \in Int
    /\ MIN_SQRT_RATIO + 1 <= MAX_SQRT_RATIO - 1
    /\ MIN_SQRT_RATIO = MIN_TICK * SUBTICKS /\ MAX_SQRT_RATIO = MAX_TICK * SUBTICKS
<1>1. MIN_TICK \in Int /\ MAX_TICK \in Int /\ MIN_TICK < MAX_TICK /\ SUBTICKS \in Nat /\ SUBTICKS > 1
  BY V3Assumption
<1>2. /\ MIN_TICK * SUBTICKS \in Int /\ MAX_TICK * SUBTICKS \in Int
      /\ (MIN_TICK + 1) * SUBTICKS <= MAX_TICK * SUBTICKS
      /\ (MIN_TICK + 1) * SUBTICKS = MIN_TICK * SUBTICKS + SUBTICKS
  BY <1>1, Scaled
<1> QED BY <1>1, <1>2 DEF MIN_SQRT_RATIO, MAX_SQRT_RATIO, get_sqrt_ratio_at_tick

LEMMA SwapStart == SwapInit => SwapInv
<1> SUFFICES ASSUME SwapInit
             PROVE  SwapInv
  OBVIOUS
<1> DEFINE p == sqrt_price
           m == SUBTICKS
<1>1. /\ positions \subseteq Positions /\ zero_to_one \in BOOLEAN
      /\ amount_specified_remaining \in Nat /\ amount_calculated = 0
      /\ p \in MIN_SQRT_RATIO + 1..MAX_SQRT_RATIO - 1 /\ start = p /\ p \in Int
      /\ pc = IF amount_specified_remaining = 0 THEN "done" ELSE "loop"
      /\ tick \in {p \div m, (p - 1) \div m}
      /\ liquidity = ActiveAt(tick)
  BY V3Assumption, Bounds DEF SwapInit, get_tick_at_sqrt_ratio
<1>2. /\ tick \in Int /\ tick * m <= p /\ p <= (tick + 1) * m
      /\ MIN_TICK <= tick /\ tick < MAX_TICK
  <2>1. CASE tick = p \div m
    <3>1. tick \in Int /\ tick * m <= p /\ p < (tick + 1) * m
      BY <1>1, <2>1, Bounds, IntDiv
    <3>2. MIN_TICK * m <= p /\ p < MAX_TICK * m
      BY <1>1, Bounds
    <3>3. MIN_TICK <= tick /\ tick < MAX_TICK
      BY <1>1, <2>1, <3>2, Bounds, DivBetween
    <3> QED BY <1>1, <3>1, <3>3, Bounds
  <2>2. CASE tick = (p - 1) \div m
    <3>0. p - 1 \in Int
      BY <1>1
    <3>1. tick \in Int /\ tick * m <= p - 1 /\ p - 1 < (tick + 1) * m
      BY <3>0, <2>2, Bounds, IntDiv
    <3>2. MIN_TICK * m <= p - 1 /\ p - 1 < MAX_TICK * m
      BY <1>1, Bounds
    <3>3. MIN_TICK <= tick /\ tick < MAX_TICK
      BY <3>0, <2>2, <3>2, Bounds, DivBetween
    <3>4. tick * m \in Int /\ (tick + 1) * m \in Int
      BY <3>1, Bounds
    <3> QED BY <1>1, <3>1, <3>3, <3>4
  <2> QED BY <1>1, <2>1, <2>2
<1>3. SumFunctionOnSet(DueAt, Way) = 0
  <2>1. Way = {}
    BY <1>1 DEF Way
  <2> QED BY <2>1, SumOfNone
<1>4. liquidity \in Nat
  BY <1>1, <1>2, ActiveNat
<1>5. pc = "done" => ~ GoesOn
  BY <1>1 DEF GoesOn
<1>6. SwapTypeOK
  BY <1>1, <1>2, <1>4, Bounds DEF SwapTypeOK
<1>7. /\ get_sqrt_ratio_at_tick(tick) <= sqrt_price
      /\ sqrt_price <= get_sqrt_ratio_at_tick(tick + 1)
  BY <1>2 DEF get_sqrt_ratio_at_tick
<1>8. /\ start \in MIN_SQRT_RATIO + 1..MAX_SQRT_RATIO - 1
      /\ start = sqrt_price /\ sqrt_price <= start /\ start <= sqrt_price
      /\ -amount_calculated = 0 /\ pc \in {"loop", "done"} /\ liquidity = ActiveAt(tick)
      /\ amount_calculated \in Int
  BY <1>1, NoneNegated
<1> HIDE DEF p, m
<1> QED BY <1>3, <1>5, <1>6, <1>7, <1>8 DEF SwapInv

\* Where the next tick, cut off at the ends, is, and that none lies before it.
LEMMA TargetIs ==
    ASSUME SwapInv, NEW failed \in SUBSET (LoadedWords \ InsertedWords)
    PROVE  LET n == NextTick(failed)
               t == Clamp(n.tick)
           IN  /\ t \in MIN_TICK..MAX_TICK /\ t \in Int
               /\ n.initialized <=> Initialized(n.tick)
               /\ MIN_TICK < t /\ t < MAX_TICK => n.tick = t
               /\ zero_to_one => /\ t <= tick /\ t * SUBTICKS <= sqrt_price
                                 /\ \A u \in t + 1..tick : ~ Initialized(u)
               /\ ~ zero_to_one => /\ t > tick /\ t * SUBTICKS >= sqrt_price
                                   /\ \A u \in tick + 1..t - 1 : ~ Initialized(u)
<1> DEFINE n == NextTick(failed)
           t == Clamp(n.tick)
           m == SUBTICKS
<1>1. /\ positions \subseteq Positions /\ zero_to_one \in BOOLEAN
      /\ tick \in MIN_TICK - 1..MAX_TICK /\ tick \in Int
      /\ sqrt_price \in Int /\ MIN_TICK * m < sqrt_price /\ sqrt_price < MAX_TICK * m
      /\ tick * m <= sqrt_price /\ sqrt_price <= (tick + 1) * m
  BY Bounds DEF SwapInv, SwapTypeOK, get_sqrt_ratio_at_tick
<1>2. /\ n.tick \in Int
      /\ n.initialized <=> Initialized(n.tick)
      /\ zero_to_one => /\ n.tick <= tick
                        /\ \A u \in n.tick + 1..tick : ~ Initialized(u)
      /\ ~ zero_to_one => /\ n.tick > tick
                          /\ \A u \in tick + 1..n.tick - 1 : ~ Initialized(u)
  BY <1>1, NextTickIs
<1> HIDE DEF n
<1>3. MIN_TICK <= tick /\ tick < MAX_TICK
  <2>1. MIN_TICK * m \in Int /\ MAX_TICK * m \in Int /\ tick * m \in Int /\ (tick + 1) * m \in Int
    BY <1>1, Bounds
  <2>2. MIN_TICK * m < (tick + 1) * m
    BY <1>1, <2>1
  <2>3. tick * m < MAX_TICK * m
    BY <1>1, <2>1
  <2>4. MIN_TICK <= tick
    BY <1>1, <2>2, Bounds, Below
  <2>5. MAX_TICK <= tick => MAX_TICK * m <= tick * m
    BY <1>1, Bounds, Scaled
  <2> QED BY <1>1, <2>1, <2>3, <2>4, <2>5, Bounds
<1>4. /\ t \in MIN_TICK..MAX_TICK /\ t \in Int
      /\ MIN_TICK < t /\ t < MAX_TICK => n.tick = t
      /\ zero_to_one => n.tick <= t /\ t <= tick
      /\ ~ zero_to_one => t <= n.tick /\ t > tick
  BY <1>1, <1>2, <1>3, Bounds DEF Clamp
<1> HIDE DEF t
<1>5. zero_to_one => t * m <= sqrt_price
  <2>1. zero_to_one => t * m <= tick * m
    BY <1>1, <1>4, Bounds, Scaled
  <2>2. t * m \in Int /\ tick * m \in Int
    BY <1>1, <1>4, Bounds
  <2> QED BY <1>1, <2>1, <2>2
<1>6. ~ zero_to_one => sqrt_price <= t * m
  <2>1. ~ zero_to_one => (tick + 1) * m <= t * m
    BY <1>1, <1>4, Bounds, Scaled
  <2>2. t * m \in Int /\ (tick + 1) * m \in Int
    BY <1>1, <1>4, Bounds
  <2> QED BY <1>1, <2>1, <2>2
<1>7. zero_to_one => \A u \in t + 1..tick : ~ Initialized(u)
  BY <1>1, <1>2, <1>4
<1>8. ~ zero_to_one => \A u \in tick + 1..t - 1 : ~ Initialized(u)
  BY <1>1, <1>2, <1>4
<1>9. t * m \in Int
  BY <1>4, Bounds
<1>10. /\ t \in MIN_TICK..MAX_TICK /\ t \in Int
       /\ n.initialized <=> Initialized(n.tick)
       /\ MIN_TICK < t /\ t < MAX_TICK => n.tick = t
       /\ zero_to_one => /\ t <= tick /\ t * m <= sqrt_price
                         /\ \A u \in t + 1..tick : ~ Initialized(u)
       /\ ~ zero_to_one => /\ t > tick /\ t * m >= sqrt_price
                           /\ \A u \in tick + 1..t - 1 : ~ Initialized(u)
  BY <1>1, <1>2, <1>4, <1>5, <1>6, <1>7, <1>8, <1>9
<1> QED BY <1>10 DEF n, t

\* Between the price and the next tick the positions give one and the same.
LEMMA SameUpTo ==
    ASSUME SwapInv, NEW t \in Int, NEW s \in Int,
           zero_to_one => t <= tick /\ \A u \in t + 1..tick : ~ Initialized(u),
           ~ zero_to_one => t > tick /\ \A u \in tick + 1..t - 1 : ~ Initialized(u),
           zero_to_one => t <= s /\ s <= tick,
           ~ zero_to_one => tick <= s /\ s < t
    PROVE  ActiveAt(s) = liquidity
<1>1. positions \subseteq Positions /\ tick \in Int /\ liquidity = ActiveAt(tick)
      /\ zero_to_one \in BOOLEAN
  BY Bounds DEF SwapInv, SwapTypeOK
<1>2. CASE zero_to_one
  <2>1. \A u \in s + 1..tick : ~ Initialized(u)
    BY <1>1, <1>2
  <2> QED BY <1>1, <1>2, <2>1, SameActive
<1>3. CASE ~ zero_to_one
  <2>1. \A u \in tick + 1..s : ~ Initialized(u)
    BY <1>1, <1>3
  <2> QED BY <1>1, <1>3, <2>1, SameActive
<1> QED BY <1>2, <1>3

\* The sum over the way grows by what one round gives.
LEMMA WayGrows ==
    ASSUME SwapInv, NEW price \in MIN_SQRT_RATIO + 1..MAX_SQRT_RATIO - 1,
           zero_to_one => price <= sqrt_price,
           ~ zero_to_one => sqrt_price <= price,
           \A k \in Int : /\ zero_to_one /\ price <= k /\ k < sqrt_price => DueAt[k] = liquidity
                          /\ ~ zero_to_one /\ sqrt_price <= k /\ k < price => DueAt[k] = liquidity
    PROVE  SumFunctionOnSet(DueAt, IF zero_to_one THEN price..start - 1 ELSE start..price - 1)
               = SumFunctionOnSet(DueAt, Way)
                 + liquidity * (IF zero_to_one THEN sqrt_price - price ELSE price - sqrt_price)
<1> DEFINE all  == IF zero_to_one THEN price..start - 1 ELSE start..price - 1
           more == IF zero_to_one THEN price..sqrt_price - 1 ELSE sqrt_price..price - 1
<1>1. /\ price \in Int /\ sqrt_price \in Int /\ start \in Int /\ liquidity \in Int
      /\ positions \subseteq Positions /\ zero_to_one \in BOOLEAN
      /\ sqrt_price \in MIN_SQRT_RATIO + 1..MAX_SQRT_RATIO - 1
      /\ start \in MIN_SQRT_RATIO + 1..MAX_SQRT_RATIO - 1
      /\ zero_to_one => sqrt_price <= start
      /\ ~ zero_to_one => start <= sqrt_price
  BY Bounds DEF SwapInv, SwapTypeOK
<1>2. all = Way \cup more /\ Way \cap more = {} /\ all \subseteq MIN_SQRT_RATIO..MAX_SQRT_RATIO
  BY <1>1, Bounds DEF Way
<1>3. IsFiniteSet(all)
  <2>1. IsFiniteSet(MIN_SQRT_RATIO..MAX_SQRT_RATIO)
    BY Bounds, FS_Interval
  <2> HIDE DEF all
  <2> QED BY <1>2, <2>1, FS_Subset
<1>4. \A k \in all : DueAt[k] \in Int
  <2> SUFFICES ASSUME NEW k \in MIN_SQRT_RATIO..MAX_SQRT_RATIO
               PROVE  DueAt[k] \in Int
    BY <1>2
  <2>1. k \in Int
    BY Bounds
  <2>2. k \div SUBTICKS \in Int
    BY <2>1, Bounds, IntDiv
  <2>3. ActiveAt(k \div SUBTICKS) \in Nat
    BY <1>1, <2>2, ActiveNat
  <2> QED BY <2>3 DEF DueAt, get_tick_at_sqrt_ratio
<1>5. SumFunctionOnSet(DueAt, more)
         = liquidity * (IF zero_to_one THEN sqrt_price - price ELSE price - sqrt_price)
  <2>1. CASE zero_to_one
    <3>1. \A k \in price..sqrt_price - 1 : DueAt[k] = liquidity
      BY <1>1, <2>1
    <3>2. SumFunctionOnSet(DueAt, price..sqrt_price - 1) = liquidity * (sqrt_price - price)
      BY <1>1, <2>1, <3>1, ConstantSum
    <3> QED BY <2>1, <3>2
  <2>2. CASE ~ zero_to_one
    <3>1. \A k \in sqrt_price..price - 1 : DueAt[k] = liquidity
      BY <1>1, <2>2
    <3>2. SumFunctionOnSet(DueAt, sqrt_price..price - 1) = liquidity * (price - sqrt_price)
      BY <1>1, <2>2, <3>1, ConstantSum
    <3> QED BY <2>2, <3>2
  <2> QED BY <2>1, <2>2
<1>6. SumFunctionOnSet(DueAt, Way \cup more)
         = SumFunctionOnSet(DueAt, Way) + SumFunctionOnSet(DueAt, more)
  <2>1. Way \in SUBSET all /\ more \in SUBSET all
    BY <1>2
  <2>2. Way \cap more = {}
    BY <1>2
  <2> HIDE DEF all, more
  <2> QED BY <1>3, <1>4, <2>1, <2>2, SumUnion
<1>7. SumFunctionOnSet(DueAt, all)
         = SumFunctionOnSet(DueAt, Way)
           + liquidity * (IF zero_to_one THEN sqrt_price - price ELSE price - sqrt_price)
  BY <1>2, <1>5, <1>6
<1> QED BY <1>7 DEF all

LEMMA RoundStep ==
    ASSUME SwapInv, NEW failed \in SUBSET (LoadedWords \ InsertedWords), SwapRound(failed)
    PROVE  SwapInv'
<1> DEFINE n      == NextTick(failed)
           t      == Clamp(n.tick)
           m      == SUBTICKS
           target == Target(t * m)
           step   == compute_swap_step(target)
           net    == IF n.initialized THEN Signed(ticks_liquidity_net(t)) ELSE 0
           atTick == step.price = t * m
           fails  == WhereToLook.word \notin LoadedWords \/ (atTick /\ liquidity + net < 0)
<1>1. /\ positions \subseteq Positions /\ zero_to_one \in BOOLEAN
      /\ amount_specified_remaining \in Nat
      /\ amount_calculated \in Int /\ -amount_calculated \in Nat
      /\ liquidity \in Nat
      /\ tick \in MIN_TICK - 1..MAX_TICK /\ tick \in Int
      /\ sqrt_price \in Int /\ MIN_TICK * m < sqrt_price /\ sqrt_price < MAX_TICK * m
      /\ sqrt_price \in MIN_SQRT_RATIO + 1..MAX_SQRT_RATIO - 1
      /\ tick * m <= sqrt_price /\ sqrt_price <= (tick + 1) * m
  BY Bounds DEF SwapInv, SwapTypeOK, get_sqrt_ratio_at_tick
<1>2. /\ t \in MIN_TICK..MAX_TICK /\ t \in Int
      /\ n.initialized <=> Initialized(n.tick)
      /\ MIN_TICK < t /\ t < MAX_TICK => n.tick = t
      /\ zero_to_one => /\ t <= tick /\ t * m <= sqrt_price
                        /\ \A u \in t + 1..tick : ~ Initialized(u)
      /\ ~ zero_to_one => /\ t > tick /\ t * m >= sqrt_price
                          /\ \A u \in tick + 1..t - 1 : ~ Initialized(u)
  BY TargetIs
<1>3. /\ pc = "loop" /\ GoesOn
      /\ pc' = IF fails THEN "failed" ELSE "loop"
      /\ amount_specified_remaining' =
             amount_specified_remaining - (step.amount_in + step.fee_amount)
      /\ amount_calculated' = amount_calculated - step.amount_out
      /\ sqrt_price' = step.price
      /\ liquidity' = IF atTick /\ ~fails THEN liquidity + net ELSE liquidity
      /\ tick' = IF atTick THEN TickAfter(t)
                 ELSE IF step.price = sqrt_price THEN tick ELSE step.price \div m
      /\ UNCHANGED <<positions, zero_to_one, start>>
  BY DEF SwapRound, get_sqrt_ratio_at_tick, get_tick_at_sqrt_ratio
<1> HIDE DEF n, t
<1>4. t * m \in Int /\ tick * m \in Int /\ (tick + 1) * m \in Int
  BY <1>1, <1>2, Bounds
<1>5. /\ target \in Int
      /\ zero_to_one => target <= sqrt_price /\ target >= t * m /\ target >= MIN_TICK * m + 1
      /\ ~ zero_to_one => sqrt_price <= target /\ target <= t * m /\ target <= MAX_TICK * m - 1
  BY <1>1, <1>2, <1>4, Bounds DEF Target, sqrt_price_limit
<1> HIDE DEF target
<1>6. /\ step.price \in Int
      /\ zero_to_one => /\ target <= step.price /\ step.price <= sqrt_price
                        /\ step.amount_out = liquidity * (sqrt_price - step.price)
      /\ ~ zero_to_one => /\ sqrt_price <= step.price /\ step.price <= target
                          /\ step.amount_out = liquidity * (step.price - sqrt_price)
      /\ step.amount_out \in Nat
      /\ amount_specified_remaining - (step.amount_in + step.fee_amount) \in Nat
  BY <1>1, <1>5, StepIs
<1> HIDE DEF step
<1>7. sqrt_price' \in MIN_SQRT_RATIO + 1..MAX_SQRT_RATIO - 1
  BY <1>1, <1>3, <1>4, <1>5, <1>6, Bounds
<1>8. atTick => n.tick = t
  <2>1. ASSUME atTick
        PROVE  MIN_TICK < t /\ t < MAX_TICK
    <3>1. MIN_TICK * m + 1 <= t * m /\ t * m <= MAX_TICK * m - 1
      BY <1>3, <1>7, <2>1, Bounds
    <3>2. t # MIN_TICK /\ t # MAX_TICK
      BY <3>1, <1>4, Bounds
    <3> QED BY <1>2, <3>2, Bounds
  <2> QED BY <1>2, <2>1
<1>9. atTick => liquidity + net = ActiveAt(TickAfter(t))
  <2> SUFFICES ASSUME atTick
               PROVE  liquidity + net = ActiveAt(TickAfter(t))
    OBVIOUS
  <2>1. /\ ticks_liquidity_net(t) \in Int
        /\ ActiveAt(t) = ActiveAt(t - 1) + ticks_liquidity_net(t)
    BY <1>1, <1>2, Crossing
  <2>2. ActiveAt(t) \in Nat /\ ActiveAt(t - 1) \in Nat
    <3>1. t - 1 \in Int
      BY <1>2
    <3> QED BY <1>1, <1>2, <3>1, ActiveNat
  <2>3. net = Signed(ticks_liquidity_net(t))
    <3>1. CASE n.initialized
      BY <3>1
    <3>2. CASE ~ n.initialized
      <4>1. ~ Initialized(t)
        BY <1>2, <1>8, <3>2
      <4>2. ticks_liquidity_net(t) = 0
        BY <1>1, <1>2, <4>1, NothingToCross
      <4> QED BY <3>2, <4>2, NoneNegated DEF Signed
    <3> QED BY <3>1, <3>2
  <2> HIDE DEF net, atTick
  <2>4. CASE zero_to_one
    <3>1. ActiveAt(t) = liquidity
      <4>1. /\ zero_to_one => t <= t /\ t <= tick
          /\ ~ zero_to_one => tick <= t /\ t < t
        BY <1>2, <2>4
      <4> QED BY <1>2, <4>1, SameUpTo
    <3> QED BY <1>1, <2>1, <2>2, <2>3, <2>4, <3>1 DEF Signed, TickAfter
  <2>5. CASE ~ zero_to_one
    <3>1. t - 1 \in Int /\ tick <= t - 1 /\ t - 1 < t
      BY <1>1, <1>2, <2>5
    <3>2. ActiveAt(t - 1) = liquidity
      BY <1>1, <1>2, <2>5, <3>1, SameUpTo
    <3> QED BY <1>1, <2>1, <2>2, <2>3, <2>5, <3>2 DEF Signed, TickAfter
  <2> QED BY <2>4, <2>5
<1> HIDE DEF net
<1>10. TickAfter(t) \in Int /\ TickAfter(t) \in MIN_TICK - 1..MAX_TICK
  BY <1>2, Bounds DEF TickAfter
<1>11. ~ fails
  <2>1. WhereToLook.word \in LoadedWords
    BY <1>1, WordLoaded
  <2>2. atTick => liquidity + net \in Nat
    BY <1>1, <1>9, <1>10, ActiveNat
  <2> HIDE DEF atTick
  <2> QED BY <2>1, <2>2
<1>12. ASSUME NEW k \in Int,
              zero_to_one => step.price <= k /\ k < sqrt_price,
              ~ zero_to_one => sqrt_price <= k /\ k < step.price
       PROVE  ActiveAt(k \div m) = liquidity
  <2> DEFINE s == k \div m
  <2>1. s \in Int
    BY Bounds, IntDiv
  <2>2. zero_to_one => t <= s /\ s <= tick
    <3>1. zero_to_one => t * m <= k /\ k < (tick + 1) * m
      BY <1>1, <1>4, <1>5, <1>6, <1>12
    <3>2. t * m <= k => t <= s
      BY <1>2, Bounds, DivBetween
    <3>3. tick + 1 \in Int
      BY <1>1
    <3>4. k < (tick + 1) * m => s < tick + 1
      BY <3>3, Bounds, DivBetween
    <3> HIDE DEF s
    <3> QED BY <1>1, <2>1, <3>1, <3>2, <3>4
  <2>3. ~ zero_to_one => tick <= s /\ s < t
    <3>1. ~ zero_to_one => tick * m <= k /\ k < t * m
      BY <1>1, <1>4, <1>5, <1>6, <1>12
    <3>2. tick * m <= k => tick <= s
      BY <1>1, Bounds, DivBetween
    <3>3. k < t * m => s < t
      BY <1>2, Bounds, DivBetween
    <3> HIDE DEF s
    <3> QED BY <3>1, <3>2, <3>3
  <2> HIDE DEF s
  <2>4. ActiveAt(s) = liquidity
    BY <1>2, <2>1, <2>2, <2>3, SameUpTo
  <2> QED BY <2>4 DEF s
<1>13. ~ atTick /\ step.price # sqrt_price =>
          /\ ActiveAt(step.price \div m) = liquidity
          /\ step.price \div m \in MIN_TICK - 1..MAX_TICK /\ step.price \div m \in Int
          /\ (step.price \div m) * m <= step.price
          /\ step.price <= (step.price \div m + 1) * m
  <2> SUFFICES ASSUME ~ atTick, step.price # sqrt_price
               PROVE  /\ ActiveAt(step.price \div m) = liquidity
                      /\ step.price \div m \in MIN_TICK - 1..MAX_TICK /\ step.price \div m \in Int
                      /\ (step.price \div m) * m <= step.price
                      /\ step.price <= (step.price \div m + 1) * m
    OBVIOUS
  <2> DEFINE s == step.price \div m
  <2>1. s \in Int /\ s * m <= step.price /\ step.price < (s + 1) * m
    BY <1>6, Bounds, IntDiv
  <2>2. MIN_TICK <= s /\ s < MAX_TICK
    <3>1. MIN_TICK * m <= step.price /\ step.price < MAX_TICK * m
      BY <1>3, <1>7, Bounds
    <3> QED BY <1>6, <3>1, Bounds, DivBetween
  <2>3. ActiveAt(s) = liquidity
    <3>1. CASE zero_to_one
      <4> DEFINE p == step.price
      <4>1. /\ p \in Int
            /\ zero_to_one => step.price <= p /\ p < sqrt_price
            /\ ~ zero_to_one => sqrt_price <= p /\ p < step.price
        BY <1>1, <1>6, <3>1
      <4> HIDE DEF p
      <4>2. ActiveAt(p \div m) = liquidity
        BY <4>1, <1>12
      <4> QED BY <4>2 DEF p
    <3>2. CASE ~ zero_to_one
      <4>1. tick * m <= step.price /\ step.price < t * m
        <5>1. step.price # t * m
          OBVIOUS
        <5>2. target \in Int /\ target <= t * m /\ step.price <= target
          BY <1>5, <1>6, <3>2
        <5>3. tick * m <= sqrt_price /\ sqrt_price <= step.price
          BY <1>1, <1>6, <3>2
        <5>4. /\ tick * m \in Int /\ t * m \in Int
              /\ step.price \in Int /\ sqrt_price \in Int
          BY <1>1, <1>4, <1>6
        <5> HIDE DEF m, atTick, s
        <5> QED BY <5>1, <5>2, <5>3, <5>4
      <4>2. tick <= s
        BY <1>1, <1>6, <4>1, Bounds, DivBetween
      <4>3. s < t
        BY <1>2, <1>6, <4>1, Bounds, DivBetween
      <4> HIDE DEF s
      <4> QED BY <1>2, <2>1, <3>2, <4>2, <4>3, SameUpTo
    <3> QED BY <3>1, <3>2
  <2> HIDE DEF s
  <2>4. (s + 1) * m \in Int
    BY <2>1, Bounds
  <2>5. /\ ActiveAt(s) = liquidity
        /\ s \in MIN_TICK - 1..MAX_TICK /\ s \in Int
        /\ s * m <= step.price
        /\ step.price <= (s + 1) * m
    BY <1>6, <2>1, <2>2, <2>3, <2>4, Bounds
  <2> QED BY <2>5 DEF s
<1>14. /\ liquidity' = ActiveAt(tick') /\ tick' \in Int /\ tick' \in MIN_TICK - 1..MAX_TICK
       /\ tick' * m <= step.price /\ step.price <= (tick' + 1) * m
  <2>1. CASE atTick
    <3>1. tick' = TickAfter(t) /\ liquidity' = ActiveAt(tick')
      <4> HIDE DEF atTick, fails
      <4> QED BY <1>3, <1>9, <1>11, <2>1
    <3>2. TickAfter(t) * m <= t * m /\ t * m <= (TickAfter(t) + 1) * m
      BY <1>2, <1>10, Bounds, Scaled DEF TickAfter
    <3> QED BY <1>10, <2>1, <3>1, <3>2
  <2>2. CASE ~ atTick /\ step.price = sqrt_price
    <3>1. tick' = tick /\ liquidity' = liquidity
      <4> HIDE DEF atTick, fails
      <4> QED BY <1>3, <2>2
    <3> QED BY <1>1, <2>2, <3>1 DEF SwapInv
  <2>3. CASE ~ atTick /\ step.price # sqrt_price
    <3>1. tick' = step.price \div m /\ liquidity' = liquidity
      <4> HIDE DEF atTick, fails
      <4> QED BY <1>3, <2>3
    <3> HIDE DEF atTick
    <3> QED BY <1>13, <2>3, <3>1
  <2> QED BY <2>1, <2>2, <2>3
<1>15. ActiveAt(tick') = ActiveAt(tick)' /\ DueAt' = DueAt
  BY <1>3 DEF ActiveAt, DueAt
<1>16. liquidity' \in Nat
  BY <1>1, <1>14, ActiveNat
<1>17. -amount_calculated' = SumFunctionOnSet(DueAt, Way)'
  <2>1. \A k \in Int :
           /\ zero_to_one /\ step.price <= k /\ k < sqrt_price => DueAt[k] = liquidity
           /\ ~ zero_to_one /\ sqrt_price <= k /\ k < step.price => DueAt[k] = liquidity
    <3> SUFFICES ASSUME NEW k \in Int,
                        \/ zero_to_one /\ step.price <= k /\ k < sqrt_price
                        \/ ~ zero_to_one /\ sqrt_price <= k /\ k < step.price
                 PROVE  DueAt[k] = liquidity
      OBVIOUS
    <3>1. k \in MIN_SQRT_RATIO..MAX_SQRT_RATIO
      BY <1>1, <1>3, <1>7, Bounds
    <3>2. ActiveAt(k \div m) = liquidity
      BY <1>12
    <3> QED BY <3>1, <3>2 DEF DueAt, get_tick_at_sqrt_ratio
  <2>2. SumFunctionOnSet(DueAt, IF zero_to_one THEN step.price..start - 1 ELSE start..step.price - 1)
           = SumFunctionOnSet(DueAt, Way)
             + liquidity * (IF zero_to_one THEN sqrt_price - step.price ELSE step.price - sqrt_price)
    <3>1. step.price \in MIN_SQRT_RATIO + 1..MAX_SQRT_RATIO - 1
      BY <1>3, <1>7
    <3>2. /\ zero_to_one => step.price <= sqrt_price
          /\ ~ zero_to_one => sqrt_price <= step.price
      BY <1>6
    <3> DEFINE p == step.price
    <3>3. /\ p \in MIN_SQRT_RATIO + 1..MAX_SQRT_RATIO - 1
          /\ zero_to_one => p <= sqrt_price
          /\ ~ zero_to_one => sqrt_price <= p
          /\ \A k \in Int : /\ zero_to_one /\ p <= k /\ k < sqrt_price => DueAt[k] = liquidity
                            /\ ~ zero_to_one /\ sqrt_price <= k /\ k < p => DueAt[k] = liquidity
      BY <2>1, <3>1, <3>2
    <3> HIDE DEF p
    <3>4. SumFunctionOnSet(DueAt, IF zero_to_one THEN p..start - 1 ELSE start..p - 1)
             = SumFunctionOnSet(DueAt, Way)
               + liquidity * (IF zero_to_one THEN sqrt_price - p ELSE p - sqrt_price)
      BY <3>3, WayGrows
    <3> QED BY <3>4 DEF p
  <2>3. Way' = IF zero_to_one THEN step.price..start - 1 ELSE start..step.price - 1
    BY <1>3 DEF Way
  <2>4. step.amount_out
           = liquidity * (IF zero_to_one THEN sqrt_price - step.price ELSE step.price - sqrt_price)
    BY <1>1, <1>6
  <2>5. -amount_calculated = SumFunctionOnSet(DueAt, Way)
    BY DEF SwapInv
  <2>6. SumFunctionOnSet(DueAt, Way)' = SumFunctionOnSet(DueAt, Way')
    BY <1>15
  <2>7. SumFunctionOnSet(DueAt, Way') = -amount_calculated + step.amount_out
    BY <2>2, <2>3, <2>4, <2>5
  <2>8. -amount_calculated' = -amount_calculated + step.amount_out
    BY <1>1, <1>3, <1>6
  <2> QED BY <2>6, <2>7, <2>8
<1>18. SwapTypeOK' /\ amount_calculated' \in Int
  <2>1. pc' = "loop"
    BY <1>3, <1>11
  <2>2. amount_specified_remaining' \in Nat
    BY <1>3, <1>6
  <2>3. (-amount_calculated)' \in Nat /\ amount_calculated' \in Int
    BY <1>1, <1>3, <1>6
  <2>4. positions' \subseteq Positions /\ zero_to_one' \in BOOLEAN
    BY <1>1, <1>3
  <2> QED BY <1>7, <1>14, <1>16, <2>1, <2>2, <2>3, <2>4 DEF SwapTypeOK
<1>19. /\ start' \in MIN_SQRT_RATIO + 1..MAX_SQRT_RATIO - 1
       /\ zero_to_one' => sqrt_price' <= start'
       /\ ~ zero_to_one' => start' <= sqrt_price'
  <2>1. /\ start \in MIN_SQRT_RATIO + 1..MAX_SQRT_RATIO - 1 /\ start \in Int
        /\ zero_to_one => sqrt_price <= start
        /\ ~ zero_to_one => start <= sqrt_price
    BY Bounds DEF SwapInv
  <2> QED BY <1>1, <1>3, <1>6, <2>1
<1>20. pc' = "loop"
  BY <1>3, <1>11
<1>21. /\ get_sqrt_ratio_at_tick(tick)' <= sqrt_price'
       /\ sqrt_price' <= get_sqrt_ratio_at_tick(tick + 1)'
  BY <1>3, <1>14 DEF get_sqrt_ratio_at_tick
<1>22. liquidity' = ActiveAt(tick)'
  BY <1>14, <1>15
<1>23. (-amount_calculated)' = SumFunctionOnSet(DueAt, Way)'
  BY <1>17
<1> QED BY <1>18, <1>19, <1>20, <1>21, <1>22, <1>23 DEF SwapInv

LEMMA SwapStep == SwapInv /\ [SwapNext]_swapVars => SwapInv'
<1> SUFFICES ASSUME SwapInv, [SwapNext]_swapVars
             PROVE  SwapInv'
  OBVIOUS
<1>1. ASSUME NEW failed \in SUBSET (LoadedWords \ InsertedWords), SwapRound(failed)
      PROVE  SwapInv'
  BY <1>1, RoundStep
<1>2. CASE SwapDone
  <2>1. /\ UNCHANGED <<positions, zero_to_one, amount_specified_remaining, amount_calculated,
                       sqrt_price, tick, liquidity, start>>
        /\ pc' = "done" /\ ~ GoesOn
    BY <1>2 DEF SwapDone
  <2>2. SwapTypeOK' /\ ~ GoesOn' /\ ActiveAt(tick)' = ActiveAt(tick)
        /\ SumFunctionOnSet(DueAt, Way)' = SumFunctionOnSet(DueAt, Way)
    BY <2>1 DEF SwapInv, SwapTypeOK, GoesOn, sqrt_price_limit, ActiveAt, DueAt, Way
  <2> QED BY <2>1, <2>2 DEF SwapInv
<1>3. CASE UNCHANGED swapVars
  <2>1. UNCHANGED <<positions, zero_to_one, amount_specified_remaining, amount_calculated,
                   sqrt_price, tick, liquidity, start, pc>>
    BY <1>3 DEF swapVars
  <2>2. SwapTypeOK' /\ GoesOn' = GoesOn /\ ActiveAt(tick)' = ActiveAt(tick)
        /\ SumFunctionOnSet(DueAt, Way)' = SumFunctionOnSet(DueAt, Way)
    BY <2>1 DEF SwapInv, SwapTypeOK, GoesOn, sqrt_price_limit, ActiveAt, DueAt, Way
  <2> QED BY <2>1, <2>2 DEF SwapInv
<1> QED BY <1>1, <1>2, <1>3 DEF SwapNext

LEMMA SwapInvariant == SwapSpec => []SwapInv
BY SwapStart, SwapStep, PTL DEF SwapSpec

\* The remaining input, the amount out and the liquidity never run below 0, and the price never
\* beyond its limit, for all positions, fees and inputs (calculation/uniswap.rs).
THEOREM SwapTypeCorrect == SwapSpec => []SwapTypeOK
<1>1. SwapInv => SwapTypeOK
  BY DEF SwapInv
<1> QED BY <1>1, SwapInvariant, PTL

\* The liquidity is that of the positions around the current tick, in either direction and at
\* any tick, initialized or not.
THEOREM LiquidityIsActive == SwapSpec => []LiquidityActive
<1>1. SwapInv => LiquidityActive
  BY DEF SwapInv, LiquidityActive
<1> QED BY <1>1, SwapInvariant, PTL

\* The amount out is what the positions give on the way the price went, and no tick, word or
\* liquidity is missed on it, whatever reads of the bitmap fail.
THEOREM PaidInFull == SwapSpec => []OutIsDue
<1>1. SwapInv => OutIsDue
  <2> SUFFICES ASSUME SwapInv
               PROVE  OutIsDue
    OBVIOUS
  <2> DEFINE places == {k \in MIN_SQRT_RATIO..MAX_SQRT_RATIO :
                           IF zero_to_one THEN sqrt_price <= k /\ k < start
                           ELSE start <= k /\ k < sqrt_price}
  <2>1. /\ sqrt_price \in MIN_SQRT_RATIO + 1..MAX_SQRT_RATIO - 1
        /\ start \in MIN_SQRT_RATIO + 1..MAX_SQRT_RATIO - 1
        /\ zero_to_one \in BOOLEAN /\ amount_specified_remaining \in Nat
    BY DEF SwapInv, SwapTypeOK
  <2>2. places = Way
    BY <2>1, Bounds DEF Way
  <2>3. pc = "done" /\ amount_specified_remaining > 0 => sqrt_price = sqrt_price_limit
    BY <2>1 DEF SwapInv, GoesOn
  <2>4. pc # "failed" /\ -amount_calculated = SumFunctionOnSet(DueAt, places)
    BY <2>2 DEF SwapInv
  <2> HIDE DEF places
  <2>5. /\ pc # "failed"
        /\ pc = "done" =>
             /\ -amount_calculated = SumFunctionOnSet(DueAt, places)
             /\ amount_specified_remaining > 0 => sqrt_price = sqrt_price_limit
    BY <2>3, <2>4
  <2> QED BY <2>5 DEF OutIsDue, places
<1> QED BY <1>1, SwapInvariant, PTL

-----------------------------------------------------------------------------
(* ArbGraph: the paths that the search comes by. *)

\* Functions over an interval that follow the search's rule, call by call.
Follows(f, m) ==
    f = [hops \in 0..m |->
            IF hops = 0 THEN {<<>>}
            ELSE UNION {{Append(path, s) : s \in Onward(path)} : path \in f[hops - 1]}]

LEMMA FollowsExist ==
    ASSUME NEW n \in Nat
    PROVE  \E f : Follows(f, n)
<1> DEFINE T == {m \in Nat : ~ \E f : Follows(f, m)}
           Next(ps) == UNION {{Append(path, s) : s \in Onward(path)} : path \in ps}
<1> SUFFICES ASSUME T # {}
             PROVE  FALSE
  OBVIOUS
<1>1. PICK m \in T : \A k \in T : m <= k
  <2>1. T \subseteq Nat
    OBVIOUS
  <2> HIDE DEF T
  <2> QED BY <2>1, NatMin
<1>2. m \in Nat /\ ~ \E f : Follows(f, m)
  OBVIOUS
<1>3. m # 0
  <2>1. Follows([hops \in 0..0 |-> {<<>>}], 0)
    BY DEF Follows
  <2> QED BY <1>2, <2>1
<1>4. PICK g : Follows(g, m - 1)
  <2>1. m - 1 \in Nat /\ m - 1 \notin T
    <3>1. m - 1 \in Nat /\ ~ (m <= m - 1)
      BY <1>2, <1>3
    <3> HIDE DEF T
    <3> QED BY <1>1, <3>1
  <2> QED BY <2>1
<1> HIDE DEF Next
<1>5. g = [hops \in 0..m - 1 |-> IF hops = 0 THEN {<<>>} ELSE Next(g[hops - 1])]
  BY <1>4 DEF Follows, Next
<1> DEFINE f == [hops \in 0..m |-> IF hops = m THEN Next(g[m - 1]) ELSE g[hops]]
<1>6. f = [hops \in 0..m |-> IF hops = 0 THEN {<<>>} ELSE Next(f[hops - 1])]
  <2>1. \A hops \in 0..m : f[hops] = IF hops = 0 THEN {<<>>} ELSE Next(f[hops - 1])
    <3> SUFFICES ASSUME NEW hops \in 0..m
                 PROVE  f[hops] = IF hops = 0 THEN {<<>>} ELSE Next(f[hops - 1])
      OBVIOUS
    <3>1. CASE hops = m
      <4>1. m - 1 \in 0..m /\ m - 1 # m
        BY <1>2, <1>3
      <4>2. f[m - 1] = g[m - 1]
        BY <4>1
      <4> QED BY <1>2, <1>3, <3>1, <4>2
    <3>2. CASE hops # m /\ hops # 0
      <4>1. hops - 1 \in 0..m /\ hops - 1 # m /\ hops \in 0..m - 1
        BY <1>2, <3>2
      <4>2. f[hops - 1] = g[hops - 1]
        BY <4>1
      <4>3. g[hops] = Next(g[hops - 1])
        BY <1>5, <3>2, <4>1
      <4> QED BY <3>2, <4>2, <4>3
    <3>3. CASE hops = 0
      <4>1. g[0] = {<<>>}
        BY <1>2, <1>3, <1>5
      <4> QED BY <1>3, <3>3, <4>1
    <3> QED BY <3>1, <3>2, <3>3
  <2> QED BY <2>1
<1>7. Follows(f, m)
  BY <1>6 DEF Follows, Next
<1> QED BY <1>2, <1>7

LEMMA PathsAre ==
    ASSUME NEW hops \in 0..MAX_HOPS
    PROVE  current_paths[hops] =
               IF hops = 0 THEN {<<>>}
               ELSE UNION {{Append(path, s) : s \in Onward(path)} :
                              path \in current_paths[hops - 1]}
<1>1. MAX_HOPS \in Nat
  BY GraphAssumption
<1>2. \E f : Follows(f, MAX_HOPS)
  BY <1>1, FollowsExist
<1>3. current_paths = CHOOSE f : Follows(f, MAX_HOPS)
  BY DEF current_paths, Follows
<1>4. Follows(current_paths, MAX_HOPS)
  BY <1>2, <1>3
<1> QED BY <1>4 DEF Follows

\* The graph has an edge for every two tokens that a pool of the working set trades.
TradedBy(p) == IF p.type = "BalancerV2" THEN p.funded ELSE p.tokens

GraphInv ==
    /\ working_pools \subseteq Pools
    /\ edges = UNION {EdgesAmong(p, TradedBy(p)) : p \in working_pools}

LEMMA GraphInvariant == GraphSpec => []GraphInv
<1>1. GraphInit => GraphInv
  BY DEF GraphInit, GraphInv
<1>2. GraphInv /\ [GraphNext]_graphVars => GraphInv'
  <2> SUFFICES ASSUME GraphInv, [GraphNext]_graphVars
               PROVE  GraphInv'
    OBVIOUS
  <2>1. ASSUME NEW p \in Pools, AddPool(p)
        PROVE  GraphInv'
    <3>1. EdgesOf(p) = EdgesAmong(p, TradedBy(p))
      BY DEF EdgesOf, TradedBy, add_balancer_pool, add_curve_pool, add_simple_pool
    <3>2. working_pools' = working_pools \cup {p} /\ edges' = edges \cup EdgesAmong(p, TradedBy(p))
      BY <2>1, <3>1 DEF AddPool
    <3> QED BY <3>2 DEF GraphInv
  <2>2. CASE UNCHANGED graphVars
    BY <2>2 DEF graphVars, GraphInv
  <2> QED BY <2>1, <2>2 DEF GraphNext
<1> QED BY <1>1, <1>2, PTL DEF GraphSpec

LEMMA TwoTokens ==
    ASSUME NEW x, NEW u, x # u
    PROVE  Cardinality({x, u}) = 2
<1>1. IsFiniteSet({x}) /\ Cardinality({x}) = 1
  BY FS_Singleton
<1>2. Cardinality({x} \cup {u}) = Cardinality({x}) + 1
  BY <1>1, FS_AddElement
<1>3. {x} \cup {u} = {x, u}
  OBVIOUS
<1> QED BY <1>1, <1>2, <1>3

LEMMA OfferedIs ==
    ASSUME NEW s
    PROVE  s \in Offered <=>
              \E p \in working_pools : \E x, u \in TradedBy(p) : x # u /\ s = Swap(p, x, u)
BY DEF Offered, TradedBy

LEMMA StepsAre ==
    ASSUME GraphInv, NEW path
    PROVE  StepsFrom(path) = {s \in Offered : s.token_in = current_node(path)}
<1> DEFINE here == current_node(path)
<1> HIDE DEF here
<1>1. ASSUME NEW e \in edges, here \in e.ends, NEW next \in e.ends \ {here}
      PROVE  Swap(e.pool, here, next) \in Offered /\ Swap(e.pool, here, next).token_in = here
  <2>1. PICK p \in working_pools : e \in EdgesAmong(p, TradedBy(p))
    BY DEF GraphInv
  <2>2. PICK ends \in Pairs(TradedBy(p)) : e = [pool |-> p, ends |-> ends]
    BY <2>1 DEF EdgesAmong
  <2>3. e.pool = p /\ here \in TradedBy(p) /\ next \in TradedBy(p) /\ here # next
    BY <1>1, <2>2 DEF Pairs
  <2> QED BY <2>3, OfferedIs DEF Swap
<1>2. ASSUME NEW s \in Offered, s.token_in = here
      PROVE  \E e \in edges : /\ here \in e.ends
                              /\ \E next \in e.ends \ {here} : s = Swap(e.pool, here, next)
  <2>0. PICK p \in working_pools : \E x, u \in TradedBy(p) : x # u /\ s = Swap(p, x, u)
    BY <1>2, OfferedIs
  <2>1. PICK x \in TradedBy(p), u \in TradedBy(p) : x # u /\ s = Swap(p, x, u)
    BY <2>0
  <2> DEFINE e == [pool |-> p, ends |-> {x, u}]
  <2>2. {x, u} \in Pairs(TradedBy(p))
    BY <2>1, TwoTokens DEF Pairs
  <2>3. e \in EdgesAmong(p, TradedBy(p))
    BY <2>2 DEF EdgesAmong
  <2>4. e \in edges
    BY <2>3 DEF GraphInv
  <2>5. here = x
    BY <1>2, <2>1 DEF Swap
  <2>6. here \in e.ends /\ u \in e.ends \ {here} /\ s = Swap(e.pool, here, u)
    BY <2>1, <2>5
  <2> HIDE DEF e
  <2> QED BY <2>4, <2>6
<1>3. StepsFrom(path) = UNION {{Swap(e.pool, here, next) : next \in e.ends \ {here}} :
                                  e \in {e \in edges : here \in e.ends}}
  BY DEF StepsFrom, here
<1>4. \A s : s \in StepsFrom(path) <=> s \in Offered /\ s.token_in = here
  BY <1>1, <1>2, <1>3
<1> QED BY <1>4 DEF here

\* The ways from WETH that do not come back and see no token twice.
Walks(n) ==
    {c \in [1..n -> Offered] :
        /\ n > 0 => c[1].token_in = WETH
        /\ \A i \in 1..n - 1 : c[i].token_out = c[i + 1].token_in
        /\ \A i \in 1..n : c[i].token_out # WETH
        /\ \A i, j \in 1..n : i # j => c[i].token_out # c[j].token_out}

LEMMA OfLength ==
    ASSUME NEW S, NEW n \in Nat, NEW c \in Seq(S), Len(c) = n
    PROVE  c \in [1..n -> S] /\ DOMAIN c = 1..n
OBVIOUS

\* What c is of a path of n steps, if the step s was put behind it.
Longer(c, n, path, s) ==
    /\ Len(path) = n /\ DOMAIN path = 1..n
    /\ c \in [1..n + 1 -> Offered] /\ Len(c) = n + 1 /\ DOMAIN c = 1..n + 1
    /\ c[n + 1] = s
    /\ \A i \in 1..n : c[i] = path[i]

LEMMA Appended ==
    ASSUME NEW n \in Nat, NEW path \in [1..n -> Offered], NEW s \in Offered
    PROVE  Longer(Append(path, s), n, path, s)
<1> DEFINE c == Append(path, s)
<1>1. path \in Seq(Offered) /\ Len(path) = n /\ DOMAIN path = 1..n
  OBVIOUS
<1>2. c \in Seq(Offered)
  BY <1>1
<1>3. Len(c) = n + 1 /\ n + 1 \in Nat
  BY <1>1
<1>4. c[n + 1] = s
  BY <1>1
<1>5. \A i \in 1..n : c[i] = path[i]
  BY <1>1
<1> HIDE DEF c
<1>6. c \in [1..n + 1 -> Offered] /\ DOMAIN c = 1..n + 1
  BY <1>2, <1>3, OfLength
<1>7. Longer(c, n, path, s)
  BY <1>1, <1>3, <1>4, <1>5, <1>6 DEF Longer
<1> QED BY <1>7 DEF c

LEMMA Rebuilt ==
    ASSUME NEW n \in Nat, NEW path \in [1..n -> Offered], NEW s \in Offered
    PROVE  \A c \in [1..n + 1 -> Offered] :
               c[n + 1] = s /\ (\A i \in 1..n : path[i] = c[i]) => Append(path, s) = c
<1> DEFINE d == Append(path, s)
<1>1. Longer(d, n, path, s)
  BY Appended
<1> HIDE DEF d
<1>2. d \in [1..n + 1 -> Offered] /\ d[n + 1] = s /\ \A i \in 1..n : d[i] = path[i]
  BY <1>1 DEF Longer
<1> SUFFICES ASSUME NEW c \in [1..n + 1 -> Offered], c[n + 1] = s, \A i \in 1..n : path[i] = c[i]
             PROVE  d = c
  BY DEF d
<1>3. \A i \in 1..n + 1 : d[i] = c[i]
  <2>1. \A i \in 1..n + 1 : i = n + 1 \/ i \in 1..n
    OBVIOUS
  <2> QED BY <1>2, <2>1
<1> QED BY <1>2, <1>3

LEMMA Prefix ==
    ASSUME NEW n \in Nat, NEW c \in [1..n + 1 -> Offered]
    PROVE  /\ [i \in 1..n |-> c[i]] \in [1..n -> Offered]
           /\ c[n + 1] \in Offered /\ Len(c) = n + 1 /\ DOMAIN c = 1..n + 1
           /\ Append([i \in 1..n |-> c[i]], c[n + 1]) = c
<1> DEFINE path == [i \in 1..n |-> c[i]]
<1>1. path \in [1..n -> Offered] /\ c[n + 1] \in Offered /\ \A i \in 1..n : path[i] = c[i]
  OBVIOUS
<1>2. c \in Seq(Offered) /\ Len(c) = n + 1 /\ DOMAIN c = 1..n + 1
  OBVIOUS
<1> HIDE DEF path
<1>3. Append(path, c[n + 1]) = c
  BY <1>1, Rebuilt
<1> QED BY <1>1, <1>2, <1>3 DEF path

\* What comes before the last swap of a longer walk is a walk, and the swap leads on from it.
LEMMA WalkOn ==
    ASSUME GraphInv, NEW n \in Nat, NEW path \in [1..n -> Offered], NEW s \in Offered
    PROVE  Append(path, s) \in Walks(n + 1) <=> path \in Walks(n) /\ s \in Onward(path)
<1> DEFINE c == Append(path, s)
<1>0. Longer(c, n, path, s)
  BY Appended
<1> HIDE DEF c
<1>1. /\ Len(path) = n /\ DOMAIN path = 1..n
      /\ c \in [1..n + 1 -> Offered] /\ c[n + 1] = s
      /\ \A i \in 1..n : c[i] = path[i]
  BY <1>0 DEF Longer
<1>2. current_node(path) = IF n = 0 THEN WETH ELSE path[n].token_out
  <2>1. path = <<>> <=> n = 0
    BY <1>1
  <2> QED BY <1>1, <2>1 DEF current_node
<1>3. s \in Onward(path) <=>
         /\ s.token_in = IF n = 0 THEN WETH ELSE path[n].token_out
         /\ s.token_out # WETH /\ \A i \in 1..n : s.token_out # path[i].token_out
  <2>1. s \in StepsFrom(path) <=> s.token_in = current_node(path)
    BY StepsAre
  <2>2. visited(path) = {path[i].token_out : i \in 1..n}
    BY <1>1 DEF visited
  <2> QED BY <1>2, <2>1, <2>2 DEF Onward
<1>4. ASSUME c \in Walks(n + 1)
      PROVE  path \in Walks(n) /\ s \in Onward(path)
  <2>10. /\ n + 1 > 0 => c[1].token_in = WETH
         /\ \A i \in 1..(n + 1) - 1 : c[i].token_out = c[i + 1].token_in
         /\ \A i \in 1..n + 1 : c[i].token_out # WETH
         /\ \A i, j \in 1..n + 1 : i # j => c[i].token_out # c[j].token_out
    BY <1>4, Zenon DEF Walks
  <2>11. n + 1 > 0 /\ (n + 1) - 1 = n
    OBVIOUS
  <2>1. /\ c[1].token_in = WETH
        /\ \A i \in 1..n : c[i].token_out = c[i + 1].token_in
        /\ \A i \in 1..n + 1 : c[i].token_out # WETH
        /\ \A i, j \in 1..n + 1 : i # j => c[i].token_out # c[j].token_out
    BY <2>10, <2>11, Zenon
  <2>2. n > 0 => path[1].token_in = WETH
    BY <1>1, <2>1
  <2>3. \A i \in 1..n - 1 : path[i].token_out = path[i + 1].token_in
    <3> SUFFICES ASSUME NEW i \in 1..n - 1
                 PROVE  path[i].token_out = path[i + 1].token_in
      OBVIOUS
    <3>1. i \in 1..n /\ i + 1 \in 1..n
      OBVIOUS
    <3> QED BY <1>1, <2>1, <3>1
  <2>4. \A i \in 1..n : path[i].token_out # WETH
    BY <1>1, <2>1
  <2>5. \A i, j \in 1..n : i # j => path[i].token_out # path[j].token_out
    BY <1>1, <2>1
  <2>6. path \in Walks(n)
    BY <2>2, <2>3, <2>4, <2>5 DEF Walks
  <2>7. s.token_in = IF n = 0 THEN WETH ELSE path[n].token_out
    <3>1. CASE n = 0
      BY <1>1, <2>1, <3>1
    <3>2. CASE n # 0
      <4>1. n \in 1..n
        BY <3>2
      <4> QED BY <1>1, <2>1, <3>2, <4>1
    <3> QED BY <3>1, <3>2
  <2>8. n + 1 \in 1..n + 1 /\ \A i \in 1..n : i \in 1..n + 1 /\ i # n + 1
    OBVIOUS
  <2>9. s.token_out # WETH /\ \A i \in 1..n : s.token_out # path[i].token_out
    BY <1>1, <2>1, <2>8
  <2> QED BY <1>3, <2>6, <2>7, <2>9
<1>5. ASSUME path \in Walks(n), s \in Onward(path)
      PROVE  c \in Walks(n + 1)
  <2>1. /\ n > 0 => path[1].token_in = WETH
        /\ \A i \in 1..n - 1 : path[i].token_out = path[i + 1].token_in
        /\ \A i \in 1..n : path[i].token_out # WETH
        /\ \A i, j \in 1..n : i # j => path[i].token_out # path[j].token_out
    BY <1>5 DEF Walks
  <2>2. /\ s.token_in = IF n = 0 THEN WETH ELSE path[n].token_out
        /\ s.token_out # WETH /\ \A i \in 1..n : s.token_out # path[i].token_out
    BY <1>3, <1>5
  <2>3. c[1].token_in = WETH
    <3>1. CASE n = 0
      BY <1>1, <2>2, <3>1
    <3>2. CASE n # 0
      BY <1>1, <2>1, <3>2
    <3> QED BY <3>1, <3>2
  <2>4. \A i \in 1..n : c[i].token_out = c[i + 1].token_in
    <3> SUFFICES ASSUME NEW i \in 1..n
                 PROVE  c[i].token_out = c[i + 1].token_in
      OBVIOUS
    <3>1. CASE i = n
      BY <1>1, <2>2, <3>1
    <3>2. CASE i # n
      <4>1. i \in 1..n - 1 /\ i + 1 \in 1..n
        BY <3>2
      <4> QED BY <1>1, <2>1, <4>1
    <3> QED BY <3>1, <3>2
  <2>5. \A i \in 1..n + 1 : i = n + 1 \/ i \in 1..n
    OBVIOUS
  <2>6. \A i \in 1..n + 1 : c[i].token_out # WETH
    BY <1>1, <2>1, <2>2, <2>5
  <2>7. \A i, j \in 1..n + 1 : i # j => c[i].token_out # c[j].token_out
    <3> SUFFICES ASSUME NEW i \in 1..n + 1, NEW j \in 1..n + 1, i # j
                 PROVE  c[i].token_out # c[j].token_out
      OBVIOUS
    <3>1. CASE i = n + 1
      <4>1. j \in 1..n
        BY <3>1
      <4> QED BY <1>1, <2>2, <3>1, <4>1
    <3>2. CASE j = n + 1
      <4>1. i \in 1..n
        BY <3>2
      <4> QED BY <1>1, <2>2, <3>2, <4>1
    <3>3. CASE i \in 1..n /\ j \in 1..n
      BY <1>1, <2>1, <3>3
    <3> QED BY <2>5, <3>1, <3>2, <3>3
  <2>8. (n + 1) - 1 = n
    OBVIOUS
  <2> QED BY <1>1, <2>3, <2>4, <2>6, <2>7, <2>8 DEF Walks
<1> QED BY <1>4, <1>5 DEF c

\* By induction on the calls: the search comes by the walks, by all of them and nothing else.
LEMMA PathsAreWalks ==
    ASSUME GraphInv, NEW n \in 0..MAX_HOPS
    PROVE  current_paths[n] = Walks(n)
<1> DEFINE T == {k \in 0..MAX_HOPS : current_paths[k] # Walks(k)}
<1> SUFFICES ASSUME T # {}
             PROVE  FALSE
  OBVIOUS
<1>1. PICK m \in T : \A k \in T : m <= k
  <2>1. T \subseteq Nat
    BY GraphAssumption
  <2> HIDE DEF T
  <2> QED BY <2>1, NatMin
<1>2. m \in 0..MAX_HOPS /\ current_paths[m] # Walks(m) /\ m \in Nat
  BY GraphAssumption
<1>3. CASE m = 0
  <2>1. current_paths[0] = {<<>>}
    BY <1>2, <1>3, PathsAre
  <2>2. Walks(0) = {<<>>}
    <3>1. <<>> \in Walks(0)
      BY DEF Walks
    <3>2. \A c \in Walks(0) : c = <<>>
      BY DEF Walks
    <3> QED BY <3>1, <3>2
  <2> QED BY <1>2, <1>3, <2>1, <2>2
<1>4. CASE m # 0
  <2> DEFINE k == m - 1
  <2>1. k \in 0..MAX_HOPS /\ k \in Nat /\ m = k + 1 /\ k \notin T
    <3>1. k \in 0..MAX_HOPS /\ k \in Nat /\ m = k + 1 /\ ~ (m <= k)
      BY <1>2, <1>4, GraphAssumption
    <3> HIDE DEF T, k
    <3> QED BY <1>1, <3>1
  <2> HIDE DEF k
  <2>2. current_paths[k] = Walks(k)
    BY <2>1
  <2>3. current_paths[m] = UNION {{Append(path, s) : s \in Onward(path)} : path \in Walks(k)}
    <3>1. m - 1 = k
      BY <2>1
    <3> QED BY <1>2, <1>4, <2>2, <3>1, PathsAre
  <2>4. ASSUME NEW path \in Walks(k), NEW s \in Onward(path)
        PROVE  Append(path, s) \in Walks(m)
    <3>1. path \in [1..k -> Offered]
      BY DEF Walks
    <3>2. s \in Offered
      BY StepsAre DEF Onward
    <3> QED BY <2>1, <3>1, <3>2, WalkOn
  <2>5. ASSUME NEW c \in Walks(m)
        PROVE  \E path \in Walks(k) : \E s \in Onward(path) : c = Append(path, s)
    <3> DEFINE path == [i \in 1..k |-> c[i]]
    <3>1. c \in [1..k + 1 -> Offered]
      BY <2>1 DEF Walks
    <3>2. path \in [1..k -> Offered] /\ c[k + 1] \in Offered /\ Append(path, c[k + 1]) = c
      BY <2>1, <3>1, Prefix
    <3> HIDE DEF path
    <3>3. path \in Walks(k) /\ c[k + 1] \in Onward(path)
      BY <2>1, <3>2, WalkOn
    <3> QED BY <3>2, <3>3
  <2>6. current_paths[m] = Walks(m)
    <3>1. ASSUME NEW c \in current_paths[m]
          PROVE  c \in Walks(m)
      <4>1. PICK path \in Walks(k) : c \in {Append(path, s) : s \in Onward(path)}
        BY <2>3
      <4>2. PICK s \in Onward(path) : c = Append(path, s)
        BY <4>1
      <4> QED BY <2>4, <4>2
    <3>2. \A c \in Walks(m) : c \in current_paths[m]
      BY <2>3, <2>5
    <3> QED BY <3>1, <3>2
  <2> QED BY <1>2, <2>6
<1> QED BY <1>3, <1>4

\* A walk and a swap that closes it are a cycle.
LEMMA ClosedWalk ==
    ASSUME GraphInv, NEW n \in Nat, NEW path \in [1..n -> Offered], NEW s \in Offered
    PROVE  path \in Walks(n) /\ s \in Closing(path)
              <=> n >= 1 /\ SimpleCycle(Append(path, s))
<1> DEFINE c == Append(path, s)
<1>0. Longer(c, n, path, s)
  BY Appended
<1> HIDE DEF c
<1>1. /\ Len(path) = n /\ DOMAIN path = 1..n
      /\ c \in [1..n + 1 -> Offered] /\ c[n + 1] = s /\ Len(c) = n + 1 /\ DOMAIN c = 1..n + 1
      /\ \A i \in 1..n : c[i] = path[i]
  BY <1>0 DEF Longer
<1>2. current_node(path) = IF n = 0 THEN WETH ELSE path[n].token_out
  <2>1. path = <<>> <=> n = 0
    BY <1>1
  <2> QED BY <1>1, <2>1 DEF current_node
<1>3. s \in Closing(path) <=>
         /\ s.token_in = IF n = 0 THEN WETH ELSE path[n].token_out
         /\ s.token_out = WETH
         /\ n >= 2 \/ (n = 1 /\ path[1].pool.type # s.pool.type)
  <2>1. s \in StepsFrom(path) <=> s.token_in = current_node(path)
    BY StepsAre
  <2> QED BY <1>1, <1>2, <2>1 DEF Closing, MayClose
<1>4. ASSUME path \in Walks(n), s \in Closing(path)
      PROVE  n >= 1 /\ SimpleCycle(c)
  <2>1. /\ n > 0 => path[1].token_in = WETH
        /\ \A i \in 1..n - 1 : path[i].token_out = path[i + 1].token_in
        /\ \A i \in 1..n : path[i].token_out # WETH
        /\ \A i, j \in 1..n : i # j => path[i].token_out # path[j].token_out
    BY <1>4 DEF Walks
  <2>2. n >= 1 /\ n \in 1..n /\ 1 \in 1..n /\ s.token_in = path[n].token_out /\ s.token_out = WETH
    BY <1>3, <1>4
  <2>3. c[1].token_in = WETH /\ c[Len(c)].token_out = WETH
    BY <1>1, <2>1, <2>2
  <2>4. \A i \in 1..n : c[i].token_out = c[i + 1].token_in
    <3> SUFFICES ASSUME NEW i \in 1..n
                 PROVE  c[i].token_out = c[i + 1].token_in
      OBVIOUS
    <3>1. CASE i = n
      BY <1>1, <2>2, <3>1
    <3>2. CASE i # n
      <4>1. i \in 1..n - 1 /\ i + 1 \in 1..n
        BY <3>2
      <4> QED BY <1>1, <2>1, <4>1
    <3> QED BY <3>1, <3>2
  <2>5. \A i, j \in 1..n + 1 : i # j => c[i].token_in # c[j].token_in
    <3> SUFFICES ASSUME NEW i \in 1..n + 1, NEW j \in 1..n + 1, i < j
                 PROVE  c[i].token_in # c[j].token_in
      OBVIOUS
    <3>1. j - 1 \in 1..n /\ c[j].token_in = path[j - 1].token_out
      <4>1. j - 1 \in 1..n /\ (j - 1) + 1 = j
        OBVIOUS
      <4> QED BY <1>1, <2>4, <4>1
    <3>2. CASE i = 1
      BY <2>1, <2>3, <3>1, <3>2
    <3>3. CASE i # 1
      <4>1. i - 1 \in 1..n /\ (i - 1) + 1 = i /\ i - 1 # j - 1
        BY <3>3
      <4>2. c[i].token_in = path[i - 1].token_out
        BY <1>1, <2>4, <4>1
      <4> QED BY <2>1, <3>1, <4>1, <4>2
    <3> QED BY <3>2, <3>3
  <2>6. Len(c) = 2 => c[1].pool.type # c[2].pool.type
    <3>1. ASSUME n = 1
          PROVE  c[1].pool.type # c[2].pool.type
      <4>1. path[1].pool.type # s.pool.type
        BY <1>3, <1>4, <3>1
      <4> QED BY <1>1, <3>1, <4>1
    <3>2. Len(c) = 2 => n = 1
      <4>1. Len(c) = n + 1
        BY <1>1
      <4>2. \A l \in Nat : l = n + 1 /\ l = 2 => n = 1
        OBVIOUS
      <4>3. n + 1 \in Nat
        OBVIOUS
      <4> QED BY <4>1, <4>2, <4>3, Zenon
    <3> QED BY <3>1, <3>2, Zenon
  <2>7. 1..Len(c) - 1 = 1..n
    BY <1>1
  <2> QED BY <1>1, <2>2, <2>3, <2>4, <2>5, <2>6, <2>7 DEF SimpleCycle
<1>5. ASSUME n >= 1, SimpleCycle(c)
      PROVE  path \in Walks(n) /\ s \in Closing(path)
  <2>1. /\ c[1].token_in = WETH /\ c[n + 1].token_out = WETH
        /\ \A i \in 1..n : c[i].token_out = c[i + 1].token_in
        /\ \A i, j \in 1..n + 1 : i # j => c[i].token_in # c[j].token_in
        /\ n = 1 => c[1].pool.type # c[2].pool.type
    <3>1. 1..Len(c) - 1 = 1..n
      BY <1>1
    <3> QED BY <1>1, <1>5, <3>1 DEF SimpleCycle
  <2>2. n \in 1..n /\ 1 \in 1..n
    BY <1>5
  <2>3. path[1].token_in = WETH
    BY <1>1, <2>1, <2>2
  <2>4. \A i \in 1..n - 1 : path[i].token_out = path[i + 1].token_in
    <3> SUFFICES ASSUME NEW i \in 1..n - 1
                 PROVE  path[i].token_out = path[i + 1].token_in
      OBVIOUS
    <3>1. i \in 1..n /\ i + 1 \in 1..n
      OBVIOUS
    <3> QED BY <1>1, <2>1, <3>1
  <2>5. \A i \in 1..n : path[i].token_out = c[i + 1].token_in
    BY <1>1, <2>1
  <2>6. \A i \in 1..n : path[i].token_out # WETH
    <3> SUFFICES ASSUME NEW i \in 1..n
                 PROVE  path[i].token_out # WETH
      OBVIOUS
    <3>1. i + 1 \in 1..n + 1 /\ 1 \in 1..n + 1 /\ i + 1 # 1
      OBVIOUS
    <3> QED BY <2>1, <2>5, <3>1
  <2>7. \A i, j \in 1..n : i # j => path[i].token_out # path[j].token_out
    <3> SUFFICES ASSUME NEW i \in 1..n, NEW j \in 1..n, i # j
                 PROVE  path[i].token_out # path[j].token_out
      OBVIOUS
    <3>1. i + 1 \in 1..n + 1 /\ j + 1 \in 1..n + 1 /\ i + 1 # j + 1
      OBVIOUS
    <3> QED BY <2>1, <2>5, <3>1
  <2>8. path \in Walks(n)
    BY <2>3, <2>4, <2>6, <2>7 DEF Walks
  <2>9. s.token_in = path[n].token_out /\ s.token_out = WETH
    BY <1>1, <2>1, <2>2, <2>5
  <2>10. n >= 2 \/ (n = 1 /\ path[1].pool.type # s.pool.type)
    <3>1. CASE n = 1
      BY <1>1, <2>1, <3>1
    <3>2. CASE n # 1
      BY <1>5, <3>2
    <3> QED BY <3>1, <3>2
  <2> QED BY <1>3, <1>5, <2>8, <2>9, <2>10
<1> QED BY <1>4, <1>5 DEF c

LEMMA CyclesAre ==
    ASSUME GraphInv, NEW n \in 0..MAX_HOPS
    PROVE  construct_cycles(n) = {c \in UNION {[1..k -> Offered] : k \in 2..n} : SimpleCycle(c)}
<1>1. MAX_HOPS \in Nat /\ n \in Nat
  BY GraphAssumption
<1>2. ASSUME NEW c \in construct_cycles(n)
      PROVE  (\E k \in 2..n : c \in [1..k -> Offered]) /\ SimpleCycle(c)
  <2>0. PICK hops \in 0..n - 1 :
           \E path \in current_paths[hops] : \E s \in Closing(path) : c = Append(path, s)
    BY <1>2 DEF construct_cycles
  <2>1. PICK path \in current_paths[hops] : \E s \in Closing(path) : c = Append(path, s)
    BY <2>0
  <2>8. PICK s \in Closing(path) : c = Append(path, s)
    BY <2>1
  <2>2. hops \in 0..MAX_HOPS /\ hops \in Nat
    BY <1>1, <2>1
  <2>3. path \in Walks(hops) /\ path \in [1..hops -> Offered]
    BY <2>1, <2>2, PathsAreWalks DEF Walks
  <2>4. s \in Offered
    BY StepsAre DEF Closing
  <2>5. hops >= 1 /\ SimpleCycle(c)
    BY <2>8, <2>2, <2>3, <2>4, ClosedWalk
  <2>6. c \in [1..hops + 1 -> Offered]
    <3>1. Longer(Append(path, s), hops, path, s)
      BY <2>2, <2>3, <2>4, Appended
    <3> QED BY <2>8, <3>1 DEF Longer
  <2>7. hops + 1 \in 2..n
    BY <1>1, <2>1, <2>5
  <2> QED BY <2>5, <2>6, <2>7
<1>3. ASSUME NEW k \in 2..n, NEW c \in [1..k -> Offered], SimpleCycle(c)
      PROVE  c \in construct_cycles(n)
  <2> DEFINE hops == k - 1
             path == [i \in 1..hops |-> c[i]]
  <2>1. hops \in Nat /\ hops >= 1 /\ k = hops + 1 /\ hops \in 0..n - 1 /\ hops \in 0..MAX_HOPS
    BY <1>1
  <2> HIDE DEF hops
  <2>2. path \in [1..hops -> Offered] /\ c[k] \in Offered /\ Append(path, c[k]) = c
    BY <2>1, Prefix
  <2> HIDE DEF path
  <2>3. path \in Walks(hops) /\ c[k] \in Closing(path)
    BY <1>3, <2>1, <2>2, ClosedWalk
  <2>4. path \in current_paths[hops]
    BY <2>1, <2>3, PathsAreWalks
  <2> QED BY <2>1, <2>2, <2>3, <2>4 DEF construct_cycles
<1> QED BY <1>2, <1>3

\* The search finds the simple cycles through WETH, all of them and nothing else, for every
\* working set and number of hops (graph.rs:192-249).
THEOREM AllCycles == GraphSpec => []CyclesExact
<1>1. GraphInv => CyclesExact
  BY CyclesAre DEF CyclesExact
<1> QED BY <1>1, GraphInvariant, PTL

\* No cycle the bot trades uses a pool twice, and each comes with its reverse.
THEOREM CyclesBothWays == GraphSpec => []CyclesUsable
<1>1. GraphInv => CyclesUsable
  <2> SUFFICES ASSUME GraphInv, NEW c \in generate_cycles
               PROVE  /\ c[1].pool # c[2].pool
                      /\ <<Swap(c[2].pool, WETH, c[2].token_in), Swap(c[1].pool, c[1].token_out, WETH)>>
                             \in generate_cycles
    BY DEF CyclesUsable
  <2>1. generate_cycles = {d \in UNION {[1..k -> Offered] : k \in 2..2} : SimpleCycle(d)}
    <3>1. 2 \in 0..MAX_HOPS
      BY GraphAssumption
    <3> QED BY <3>1, CyclesAre DEF generate_cycles
  <2>2. c \in [1..2 -> Offered] /\ SimpleCycle(c)
    <3>1. \A k \in 2..2 : k = 2
      OBVIOUS
    <3> QED BY <2>1, <3>1
  <2>3. Len(c) = 2 /\ DOMAIN c = 1..2 /\ c[1] \in Offered /\ c[2] \in Offered
    BY <2>2
  <2>4. /\ c[1].token_in = WETH /\ c[2].token_out = WETH
        /\ c[1].token_out = c[2].token_in /\ c[1].token_in # c[2].token_in
        /\ c[1].pool.type # c[2].pool.type
    BY <2>2, <2>3 DEF SimpleCycle
  <2> DEFINE there == Swap(c[2].pool, WETH, c[2].token_in)
             back  == Swap(c[1].pool, c[1].token_out, WETH)
             d     == <<there, back>>
  <2>5. there \in Offered /\ back \in Offered
    <3>1. \A s \in Offered : Swap(s.pool, s.token_out, s.token_in) \in Offered
      <4> SUFFICES ASSUME NEW s \in Offered
                   PROVE  Swap(s.pool, s.token_out, s.token_in) \in Offered
        OBVIOUS
      <4>0. PICK p \in working_pools : \E x, u \in TradedBy(p) : x # u /\ s = Swap(p, x, u)
        BY OfferedIs
      <4>1. PICK x \in TradedBy(p), u \in TradedBy(p) : x # u /\ s = Swap(p, x, u)
        BY <4>0
      <4>2. s.pool = p /\ s.token_in = x /\ s.token_out = u
        BY <4>1 DEF Swap
      <4> QED BY <4>1, <4>2, OfferedIs
    <3> QED BY <2>3, <2>4, <3>1
  <2>6. /\ there.pool = c[2].pool /\ there.token_in = WETH /\ there.token_out = c[2].token_in
        /\ back.pool = c[1].pool /\ back.token_in = c[1].token_out /\ back.token_out = WETH
    BY DEF Swap
  <2> HIDE DEF there, back
  <2>7. d \in [1..2 -> Offered] /\ d[1] = there /\ d[2] = back /\ Len(d) = 2 /\ DOMAIN d = 1..2
    BY <2>5
  <2> HIDE DEF d
  <2>8. SimpleCycle(d)
    <3>1. \A i \in 1..Len(d) - 1 : i = 1
      BY <2>7
    <3>2. \A i, j \in DOMAIN d : i # j => (i = 1 /\ j = 2) \/ (i = 2 /\ j = 1)
      BY <2>7
    <3> QED BY <2>4, <2>6, <2>7, <3>1, <3>2 DEF SimpleCycle
  <2>9. d \in generate_cycles
    <3>1. 2 \in 2..2
      OBVIOUS
    <3> QED BY <2>1, <2>7, <2>8, <3>1
  <2>10. c[1].pool # c[2].pool
    BY <2>4
  <2> QED BY <2>9, <2>10 DEF d, there, back
<1> QED BY <1>1, GraphInvariant, PTL

-----------------------------------------------------------------------------
(* FlashPath: fees and amounts. *)

LEMMA Tables ==
    ASSUME NEW i \in DOMAIN Registered
    PROVE  /\ compute_fee(Registered[i]) = Fees[i]
           /\ getFee(Registered[i]) = Fees[i]
           /\ factoryFees(Registered[i]) = Fees[i]
           /\ Fees[i] \in 1..PRECISION
<1>1. i \in 1..7 /\ DOMAIN Fees = 1..7
  BY DEF Registered, Fees
<1>2. Fees[i] \in 1..PRECISION
  BY <1>1 DEF Fees, PRECISION
<1>3. \A j \in 1..7 : Registered[j] = Registered[i] => j = i
  BY <1>1 DEF Registered
<1>4. factoryFees(Registered[i]) = Fees[i]
  <2>1. i = CHOOSE j \in DOMAIN Fees : Registered[j] = Registered[i]
    BY <1>1, <1>3
  <2> QED BY <1>1, <2>1 DEF factoryFees
<1>5. compute_fee(Registered[i]) = Fees[i]
  BY <1>1 DEF compute_fee, Registered, Fees
<1>6. getFee(Registered[i]) = Fees[i]
  BY <1>1 DEF getFee, Registered, Fees
<1> QED BY <1>2, <1>4, <1>5, <1>6

\* The fee of a pair in the table of the contract that is called.
feeOf(factory) == IF call = "quote" THEN getFee(factory) ELSE factoryFees(factory)

LEMMA FeesAgree ==
    ASSUME NEW p \in MarketPools, ~IsV3(p)
    PROVE  /\ compute_fee(PoolOf[p].protocol) \in 1..PRECISION
           /\ feeOf(PoolOf[p].protocol) = compute_fee(PoolOf[p].protocol)
<1>1. PICK i \in DOMAIN Registered : Registered[i] = PoolOf[p].protocol
  BY MarketAssumption
<1> QED BY <1>1, Tables DEF feeOf

LEMMA Quotient ==
    ASSUME NEW n \in Nat, NEW m \in Nat \ {0}
    PROVE  n \div m \in Nat /\ (n \div m) * m <= n
OBVIOUS

LEMMA AmountBounds ==
    ASSUME NEW x \in Nat, NEW r1 \in Nat \ {0}, NEW r2 \in Nat \ {0}, NEW fee \in 1..PRECISION
    PROVE  /\ AmountOut(x, r1, r2, fee) \in Nat
           /\ AmountOut(x, r1, r2, fee) < r2
           /\ x = 0 => AmountOut(x, r1, r2, fee) = 0
<1> DEFINE a == x * fee
           n == a * r2
           m == r1 * 10000 + a
           q == n \div m
<1>1. a \in Nat /\ (x = 0 => a = 0)
  BY DEF PRECISION
<1>2. AmountOut(x, r1, r2, fee) = q
  BY DEF AmountOut, PRECISION
<1> HIDE DEF a
<1>3. n \in Nat /\ m \in Nat \ {0} /\ (a = 0 => n = 0)
  BY <1>1
<1>4. n < r2 * m
  <2>1. r2 * m = r2 * r1 * 10000 + n
    BY <1>1
  <2>2. r2 * r1 * 10000 > 0
    OBVIOUS
  <2> HIDE DEF n, m
  <2> QED BY <1>3, <2>1, <2>2
<1> HIDE DEF n, m
<1>5. q \in Nat /\ q * m <= n
  BY <1>3, Quotient
<1>6. n = 0 => q = 0
  BY <1>3
<1> HIDE DEF q
<1>7. q < r2
  <2>1. q >= r2 => q * m >= r2 * m
    BY <1>3, <1>5
  <2>2. q * m \in Int /\ r2 * m \in Int
    BY <1>3, <1>5
  <2> QED BY <1>3, <1>4, <1>5, <2>1, <2>2
<1> QED BY <1>1, <1>2, <1>3, <1>5, <1>6, <1>7

LEMMA V3Bounds ==
    ASSUME NEW x \in Nat, NEW r \in (Nat \ {0}) \X (Nat \ {0}), r[2] >= LastPosition
    PROVE  V3Taken(x, r) \in 0..x /\ V3Out(x, r) \in Nat
<1> DEFINE W == {u \in 0..x : AmountOut(u, r[1], r[2], V3_FEE) <= r[2] - LastPosition}
<1>1. r[1] \in Nat \ {0} /\ r[2] \in Nat \ {0} /\ V3_FEE \in 1..PRECISION
  BY DEF V3_FEE, PRECISION
<1>2. 0 \in W
  <2>1. AmountOut(0, r[1], r[2], V3_FEE) = 0
    BY <1>1, AmountBounds
  <2>2. 0 <= r[2] - LastPosition
    BY <1>1, FlashAssumption
  <2> QED BY <2>1, <2>2
<1>3. Max(W) \in W
  <2>1. W \subseteq 0..x
    OBVIOUS
  <2> HIDE DEF W
  <2> QED BY <1>2, <2>1, MaxOf
<1>4. V3Taken(x, r) = Max(W)
  BY DEF V3Taken
<1>5. V3Taken(x, r) \in 0..x
  BY <1>3, <1>4
<1>6. V3Taken(x, r) \in Nat
  BY <1>5
<1> QED BY <1>1, <1>5, <1>6, AmountBounds DEF V3Out

-----------------------------------------------------------------------------
(* FlashPath: where a path leads on the reserves as they stand. *)

ReservesOf(p, token) == InOut(InitialReserves[p], token = PoolOf[p].token0)

OutAt(p, in, r) ==
    IF in = 0 THEN 0
    ELSE IF IsV3(p) THEN V3Out(in, r)
    ELSE AmountOut(in, r[1], r[2], compute_fee(PoolOf[p].protocol))
TakenAt(p, in, r) == IF IsV3(p) THEN V3Taken(in, r) ELSE in

Paid(token, x) == IF token = Asset THEN x ELSE 0

\* After a hop: the token in hand, how much of it, and what the contract has of Asset.
HopOver(p, s) ==
    LET r == ReservesOf(p, s.token)
    IN  [token  |-> TokenAfter(p, s.token),
         amount |-> OutAt(p, s.amount, r),
         kept   |-> (s.kept - Paid(s.token, TakenAt(p, s.amount, r)))
                        + Paid(TokenAfter(p, s.token), OutAt(p, s.amount, r))]

Traded == {Asset} \cup {PoolOf[p].token0 : p \in MarketPools} \cup {PoolOf[p].token1 : p \in MarketPools}
Stops == [token : Traded, amount : Nat, kept : Int]

IsRoute(f, a, n) ==
    /\ f \in [0..n -> Stops]
    /\ f[0] = [token |-> Asset, amount |-> a.amountIn, kept |-> a.amountIn]
    /\ \A i \in 1..n : f[i] = HopOver(a.pools[i], f[i - 1])
Route(a) == CHOOSE f : IsRoute(f, a, Len(a.pools))

LEMMA ArbIs ==
    ASSUME NEW a \in Arbs
    PROVE  /\ Len(a.pools) \in Nat /\ a.amountIn \in Nat \ {0} /\ a.pools \in Seq(MarketPools)
           /\ \A i \in 1..Len(a.pools) : a.pools[i] \in MarketPools
           /\ \A i, j \in 1..Len(a.pools) : i # j => a.pools[i] # a.pools[j]
<1>1. a.pools \in Seq(MarketPools) /\ a.amountIn \in Nat \ {0}
  BY FlashAssumption
<1>2. \A i, j \in DOMAIN a.pools : i # j => a.pools[i] # a.pools[j]
  BY FlashAssumption
<1>3. DOMAIN a.pools = 1..Len(a.pools) /\ Len(a.pools) \in Nat
  BY <1>1
<1> QED BY <1>1, <1>2, <1>3

LEMMA ReservesAre ==
    ASSUME NEW p \in MarketPools, NEW token
    PROVE  /\ ReservesOf(p, token) \in (Nat \ {0}) \X (Nat \ {0})
           /\ IsV3(p) => ReservesOf(p, token)[2] >= LastPosition
<1>1. InitialReserves[p] \in (Nat \ {0}) \X (Nat \ {0})
  BY FlashAssumption
<1>2. IsV3(p) => InitialReserves[p][1] >= LastPosition /\ InitialReserves[p][2] >= LastPosition
  BY MarketAssumption
<1>3. CASE token = PoolOf[p].token0
  BY <1>1, <1>2, <1>3 DEF ReservesOf, InOut
<1>4. CASE token # PoolOf[p].token0
  BY <1>1, <1>2, <1>4 DEF ReservesOf, InOut
<1> QED BY <1>3, <1>4

LEMMA OutIs ==
    ASSUME NEW p \in MarketPools, NEW x \in Nat, NEW token
    PROVE  LET r == ReservesOf(p, token)
           IN  /\ OutAt(p, x, r) \in Nat /\ TakenAt(p, x, r) \in Nat
               /\ ~ IsV3(p) => /\ OutAt(p, x, r) = AmountOut(x, r[1], r[2],
                                                             compute_fee(PoolOf[p].protocol))
                               /\ OutAt(p, x, r) < r[2]
<1> DEFINE r == ReservesOf(p, token)
<1>1. r \in (Nat \ {0}) \X (Nat \ {0}) /\ (IsV3(p) => r[2] >= LastPosition)
  BY ReservesAre
<1> HIDE DEF r
<1>2. CASE IsV3(p)
  <2>1. V3Taken(x, r) \in Nat /\ V3Out(x, r) \in Nat
    <3>1. V3Taken(x, r) \in 0..x /\ V3Out(x, r) \in Nat
      BY <1>1, <1>2, V3Bounds
    <3> QED BY <3>1
  <2>2. OutAt(p, x, r) \in Nat /\ TakenAt(p, x, r) \in Nat
    BY <1>2, <2>1 DEF OutAt, TakenAt
  <2> QED BY <1>2, <2>2 DEF r
<1>3. CASE ~ IsV3(p)
  <2> DEFINE fee == compute_fee(PoolOf[p].protocol)
             out == AmountOut(x, r[1], r[2], fee)
  <2>1. fee \in 1..PRECISION
    BY <1>3, FeesAgree
  <2> HIDE DEF fee
  <2>2. r[1] \in Nat \ {0} /\ r[2] \in Nat \ {0}
    BY <1>1
  <2>3. out \in Nat /\ out < r[2] /\ (x = 0 => out = 0)
    BY <2>1, <2>2, AmountBounds
  <2> HIDE DEF out
  <2>4. OutAt(p, x, r) = out
    <3>1. x # 0 => OutAt(p, x, r) = out
      BY <1>3 DEF OutAt, out, fee
    <3>2. x = 0 => OutAt(p, x, r) = 0
      BY DEF OutAt
    <3> QED BY <2>3, <3>1, <3>2
  <2>5. TakenAt(p, x, r) = x
    BY <1>3 DEF TakenAt
  <2>6. out = AmountOut(x, r[1], r[2], compute_fee(PoolOf[p].protocol))
    BY DEF out, fee
  <2> QED BY <1>3, <2>3, <2>4, <2>5, <2>6 DEF r
<1> QED BY <1>2, <1>3

LEMMA HopStops ==
    ASSUME NEW p \in MarketPools, NEW s \in Stops
    PROVE  HopOver(p, s) \in Stops
<1> DEFINE r == ReservesOf(p, s.token)
           out == OutAt(p, s.amount, r)
           taken == TakenAt(p, s.amount, r)
           next == TokenAfter(p, s.token)
<1>1. s.amount \in Nat /\ s.kept \in Int /\ s.token \in Traded
  BY DEF Stops
<1>2. out \in Nat /\ taken \in Nat
  BY <1>1, OutIs
<1>3. next \in Traded
  BY DEF TokenAfter, Traded
<1> HIDE DEF r, out, taken, next
<1>4. Paid(s.token, taken) \in Nat /\ Paid(next, out) \in Nat
  BY <1>2 DEF Paid
<1>5. [token |-> next, amount |-> out,
       kept |-> (s.kept - Paid(s.token, taken)) + Paid(next, out)] \in Stops
  BY <1>1, <1>2, <1>3, <1>4 DEF Stops
<1> QED BY <1>5 DEF HopOver, r, out, taken, next

LEMMA RoutesExist ==
    ASSUME NEW a \in Arbs, NEW n \in 0..Len(a.pools)
    PROVE  \E f : IsRoute(f, a, n)
<1> DEFINE T == {m \in 0..Len(a.pools) : ~ \E f : IsRoute(f, a, m)}
<1> SUFFICES ASSUME T # {}
             PROVE  FALSE
  OBVIOUS
<1>0. Len(a.pools) \in Nat
  BY ArbIs
<1>1. PICK m \in T : \A k \in T : m <= k
  <2>1. T \subseteq Nat
    BY <1>0
  <2> HIDE DEF T
  <2> QED BY <2>1, NatMin
<1>2. m \in 0..Len(a.pools) /\ m \in Nat /\ ~ \E f : IsRoute(f, a, m)
  BY <1>0
<1> DEFINE s0 == [token |-> Asset, amount |-> a.amountIn, kept |-> a.amountIn]
<1>3. s0 \in Stops
  BY ArbIs DEF Stops, Traded
<1>4. m # 0
  <2>1. IsRoute([i \in 0..0 |-> s0], a, 0)
    BY <1>3 DEF IsRoute
  <2> QED BY <1>2, <2>1
<1>5. PICK g : IsRoute(g, a, m - 1)
  <2>1. m - 1 \in 0..Len(a.pools) /\ m - 1 \notin T
    <3>1. m - 1 \in 0..Len(a.pools) /\ ~ (m <= m - 1)
      BY <1>0, <1>2, <1>4
    <3> HIDE DEF T
    <3> QED BY <1>1, <3>1
  <2> QED BY <2>1
<1>6. g \in [0..m - 1 -> Stops] /\ g[0] = s0
      /\ \A i \in 1..m - 1 : g[i] = HopOver(a.pools[i], g[i - 1])
  BY <1>5 DEF IsRoute
<1> DEFINE f == [i \in 0..m |-> IF i = m THEN HopOver(a.pools[m], g[m - 1]) ELSE g[i]]
<1>7. HopOver(a.pools[m], g[m - 1]) \in Stops
  <2>1. m \in 1..Len(a.pools) /\ m - 1 \in 0..m - 1
    BY <1>0, <1>2, <1>4
  <2>2. a.pools[m] \in MarketPools /\ g[m - 1] \in Stops
    BY <1>6, <2>1, ArbIs
  <2> QED BY <2>2, HopStops
<1>8. f \in [0..m -> Stops]
  <2>1. \A i \in 0..m : i # m => i \in 0..m - 1
    BY <1>2
  <2> HIDE DEF s0
  <2> QED BY <1>6, <1>7, <2>1
<1>9. f[0] = s0 /\ f[m] = HopOver(a.pools[m], g[m - 1]) /\ \A i \in 0..m - 1 : f[i] = g[i]
  <2>1. 0 \in 0..m /\ m \in 0..m /\ \A i \in 0..m - 1 : i \in 0..m /\ i # m
    BY <1>2
  <2> HIDE DEF s0
  <2> QED BY <1>4, <1>6, <2>1
<1> HIDE DEF f
<1>10. \A i \in 1..m : f[i] = HopOver(a.pools[i], f[i - 1])
  <2> SUFFICES ASSUME NEW i \in 1..m
               PROVE  f[i] = HopOver(a.pools[i], f[i - 1])
    OBVIOUS
  <2>1. i - 1 \in 0..m - 1
    BY <1>2
  <2>2. f[i - 1] = g[i - 1]
    BY <1>9, <2>1
  <2>3. CASE i = m
    BY <1>9, <2>2, <2>3
  <2>4. CASE i # m
    <3>1. i \in 1..m - 1 /\ i \in 0..m - 1
      BY <1>2, <2>4
    <3> QED BY <1>6, <1>9, <2>2, <3>1
  <2> QED BY <2>3, <2>4
<1>11. IsRoute(f, a, m)
  BY <1>8, <1>9, <1>10 DEF IsRoute
<1> QED BY <1>2, <1>11

LEMMA RouteIs ==
    ASSUME NEW a \in Arbs
    PROVE  /\ Route(a)[0] = [token |-> Asset, amount |-> a.amountIn, kept |-> a.amountIn]
           /\ \A i \in 0..Len(a.pools) : Route(a)[i] \in Stops
           /\ \A i \in 1..Len(a.pools) : Route(a)[i] = HopOver(a.pools[i], Route(a)[i - 1])
<1>1. Len(a.pools) \in 0..Len(a.pools)
  BY ArbIs
<1>2. \E f : IsRoute(f, a, Len(a.pools))
  BY <1>1, RoutesExist
<1>3. IsRoute(Route(a), a, Len(a.pools))
  BY <1>2 DEF Route
<1> QED BY <1>3 DEF IsRoute

\* Where nothing comes out, nothing comes out in the end.
LEMMA ZeroStays ==
    ASSUME NEW a \in Arbs, NEW m \in 0..Len(a.pools), Route(a)[m].amount = 0
    PROVE  Route(a)[Len(a.pools)].amount = 0
<1> DEFINE n == Len(a.pools)
           T == {i \in m..n : Route(a)[i].amount # 0}
<1>1. n \in Nat
  BY ArbIs
<1> SUFFICES ASSUME T # {}
             PROVE  FALSE
  BY <1>1
<1>2. PICK i \in T : \A k \in T : i <= k
  <2>1. T \subseteq Nat
    BY <1>1
  <2> HIDE DEF T
  <2> QED BY <2>1, NatMin
<1>3. i \in m..n /\ i # m /\ i \in 1..n /\ i - 1 \in m..n
  BY <1>1
<1>4. i - 1 \notin T
  <2>1. ~ (i <= i - 1)
    BY <1>1, <1>3
  <2> HIDE DEF T
  <2> QED BY <1>2, <2>1
<1>5. Route(a)[i - 1].amount = 0
  BY <1>3, <1>4
<1>6. Route(a)[i] = HopOver(a.pools[i], Route(a)[i - 1])
  BY <1>3, RouteIs
<1>7. Route(a)[i].amount = 0
  BY <1>5, <1>6 DEF HopOver, OutAt
<1> QED BY <1>7

LEMMA HopIs ==
    ASSUME NEW p, NEW s
    PROVE  /\ HopOver(p, s).token = TokenAfter(p, s.token)
           /\ HopOver(p, s).amount = OutAt(p, s.amount, ReservesOf(p, s.token))
           /\ HopOver(p, s).kept =
                  (s.kept - Paid(s.token, TakenAt(p, s.amount, ReservesOf(p, s.token))))
                      + Paid(TokenAfter(p, s.token),
                             OutAt(p, s.amount, ReservesOf(p, s.token)))
BY DEF HopOver

LEMMA RouteToken ==
    ASSUME NEW a \in Arbs, NEW i \in 1..Len(a.pools)
    PROVE  /\ Route(a)[i].token = TokenAfter(a.pools[i], Route(a)[i - 1].token)
           /\ Route(a)[i].amount =
                  OutAt(a.pools[i], Route(a)[i - 1].amount,
                        ReservesOf(a.pools[i], Route(a)[i - 1].token))
<1>1. Route(a)[i] = HopOver(a.pools[i], Route(a)[i - 1])
  BY RouteIs
<1> QED BY <1>1, HopIs

LEMMA RouteStart ==
    ASSUME NEW a \in Arbs
    PROVE  /\ Route(a)[0].token = Asset /\ Route(a)[0].amount = a.amountIn
           /\ Route(a)[0].kept = a.amountIn
<1>1. Route(a)[0] = [token |-> Asset, amount |-> a.amountIn, kept |-> a.amountIn]
  BY RouteIs
<1> QED BY <1>1

\* The calculator computes the amounts along the route.
LEMMA CalculatorIs ==
    ASSUME NEW a \in Arbs, reserves = InitialReserves
    PROVE  calculate_output(a) = Route(a)[Len(a.pools)].amount
<1> DEFINE n == Len(a.pools)
           IsToken(g) == g = [i \in 1..n |->
                                IF i = 1 THEN Asset ELSE TokenAfter(a.pools[i - 1], g[i - 1])]
           token == CHOOSE g : IsToken(g)
           IsOut(g) == g = [i \in 0..n |->
                              IF i = 0 THEN a.amountIn ELSE OutOf(a.pools[i], token[i], g[i - 1])]
           out == CHOOSE g : IsOut(g)
<1>1. n \in Nat
  BY ArbIs
<1>2. calculate_output(a) = out[n]
  BY DEF calculate_output
<1>3. IsToken(token)
  <2> DEFINE g == [i \in 1..n |-> Route(a)[i - 1].token]
             h == [i \in 1..n |-> IF i = 1 THEN Asset ELSE TokenAfter(a.pools[i - 1], g[i - 1])]
  <2>1. \A i \in 1..n : g[i] = h[i]
    <3> SUFFICES ASSUME NEW i \in 1..n
                 PROVE  g[i] = h[i]
      OBVIOUS
    <3>1. CASE i = 1
      <4>1. i - 1 = 0
        BY <3>1
      <4> QED BY <3>1, <4>1, RouteStart
    <3>2. CASE i # 1
      <4>1. i - 1 \in 1..n
        BY <1>1, <3>2
      <4>2. g[i - 1] = Route(a)[(i - 1) - 1].token
        BY <4>1
      <4>3. g[i] = TokenAfter(a.pools[i - 1], g[i - 1])
        BY <4>1, <4>2, RouteToken
      <4> QED BY <3>2, <4>3
    <3> QED BY <3>1, <3>2
  <2>2. g = h
    BY <2>1
  <2>3. IsToken(g)
    BY <2>2
  <2> HIDE DEF IsToken, g
  <2> QED BY <2>3
<1>4. \A i \in 1..n : token[i] = IF i = 1 THEN Asset ELSE TokenAfter(a.pools[i - 1], token[i - 1])
  BY <1>3
<1> HIDE DEF token
<1>5. ASSUME NEW i \in 1..n
      PROVE  token[i] = Route(a)[i - 1].token
  <2> DEFINE T == {j \in 1..n : token[j] # Route(a)[j - 1].token}
  <2> SUFFICES ASSUME T # {}
               PROVE  FALSE
    OBVIOUS
  <2>1. PICK j \in T : \A k \in T : j <= k
    <3>1. T \subseteq Nat
      OBVIOUS
    <3> HIDE DEF T
    <3> QED BY <3>1, NatMin
  <2>2. j \in 1..n /\ token[j] # Route(a)[j - 1].token
    OBVIOUS
  <2>3. j # 1
    <3>1. 1 - 1 = 0 /\ (1 \in 1..n => token[1] = Asset)
      BY <1>4
    <3> QED BY <2>2, <3>1, RouteStart
  <2>4. j - 1 \in 1..n /\ j - 1 \notin T
    <3>1. j - 1 \in 1..n /\ ~ (j <= j - 1)
      BY <1>1, <2>2, <2>3
    <3> HIDE DEF T
    <3> QED BY <2>1, <3>1
  <2>5. token[j - 1] = Route(a)[(j - 1) - 1].token
    BY <2>4
  <2>6. token[j] = Route(a)[j - 1].token
    BY <1>4, <2>2, <2>3, <2>4, <2>5, RouteToken
  <2> QED BY <2>2, <2>6
<1>6. ASSUME NEW i \in 1..n, NEW x
      PROVE  OutOf(a.pools[i], token[i], x) =
                 OutAt(a.pools[i], x, ReservesOf(a.pools[i], Route(a)[i - 1].token))
  BY <1>5 DEF OutOf, OutAt, ReservesOf
<1>7. \A i \in 1..n : Route(a)[i].amount = OutOf(a.pools[i], token[i], Route(a)[i - 1].amount)
  BY <1>6, RouteToken
<1>8. IsOut(out)
  <2> DEFINE g == [i \in 0..n |-> Route(a)[i].amount]
             h == [i \in 0..n |->
                     IF i = 0 THEN a.amountIn ELSE OutOf(a.pools[i], token[i], g[i - 1])]
  <2>1. \A i \in 0..n : g[i] = h[i]
    <3> SUFFICES ASSUME NEW i \in 0..n
                 PROVE  g[i] = h[i]
      OBVIOUS
    <3>1. CASE i = 0
      BY <3>1, RouteStart
    <3>2. CASE i # 0
      <4>1. i - 1 \in 0..n /\ i \in 1..n
        BY <1>1, <3>2
      <4>2. g[i - 1] = Route(a)[i - 1].amount
        BY <4>1
      <4> QED BY <1>7, <3>2, <4>1, <4>2
    <3> QED BY <3>1, <3>2
  <2>2. g = h
    BY <2>1
  <2>3. IsOut(g)
    BY <2>2
  <2> HIDE DEF IsOut, g
  <2> QED BY <2>3
<1>9. \A i \in 0..n : out[i] = IF i = 0 THEN a.amountIn
                               ELSE OutOf(a.pools[i], token[i], out[i - 1])
  BY <1>8
<1> HIDE DEF out
<1>10. ASSUME NEW i \in 0..n
       PROVE  out[i] = Route(a)[i].amount
  <2> DEFINE T == {j \in 0..n : out[j] # Route(a)[j].amount}
  <2> SUFFICES ASSUME T # {}
               PROVE  FALSE
    OBVIOUS
  <2>1. PICK j \in T : \A k \in T : j <= k
    <3>1. T \subseteq Nat
      OBVIOUS
    <3> HIDE DEF T
    <3> QED BY <3>1, NatMin
  <2>2. j \in 0..n /\ out[j] # Route(a)[j].amount
    OBVIOUS
  <2>3. j # 0
    BY <1>9, <2>2, RouteStart
  <2>4. j - 1 \in 0..n /\ j \in 1..n /\ j - 1 \notin T
    <3>1. j - 1 \in 0..n /\ j \in 1..n /\ ~ (j <= j - 1)
      BY <1>1, <2>2, <2>3
    <3> HIDE DEF T
    <3> QED BY <2>1, <3>1
  <2>5. out[j - 1] = Route(a)[j - 1].amount
    BY <2>4
  <2>6. out[j] = Route(a)[j].amount
    BY <1>7, <1>9, <2>2, <2>3, <2>4, <2>5
  <2> QED BY <2>2, <2>6
<1>11. n \in 0..n
  BY <1>1
<1> QED BY <1>2, <1>10, <1>11

-----------------------------------------------------------------------------
(* FlashPath: the calls. *)

\* Neither a pair that would give nothing nor a V3 pool that is asked with nothing reverts.
GetsOver(a, j) ==
    IF IsV3(a.pools[j]) THEN Route(a)[j - 1].amount > 0 ELSE Route(a)[j].amount > 0

Outcome(a) ==
    IF \A j \in 1..Len(a.pools) : GetsOver(a, j)
    THEN [done |-> TRUE, reverted |-> FALSE,
          amounts |-> [i \in 1..Len(a.pools) + 1 |-> Route(a)[i - 1].amount],
          kept |-> Route(a)[Len(a.pools)].kept]
    ELSE Reverted

\* The call is at the k-th stop of the route.
AtStop(k) ==
    /\ amounts = [i \in 1..k + 1 |-> Route(arb)[i - 1].amount]
    /\ currentTokenIn = Route(arb)[k].token
    /\ kept = Route(arb)[k].kept
    /\ DOMAIN frame = MarketPools
    /\ \A j \in k + 1..Len(arb.pools) : frame[arb.pools[j]] = InitialReserves[arb.pools[j]]
    /\ \A j \in 1..k : GetsOver(arb, j)

Phase ==
    /\ arb \in Arbs
    /\ quoted.done \in BOOLEAN /\ executed.done \in BOOLEAN /\ moved \in BOOLEAN
    /\ call = "quote" => ~quoted.done
    /\ call = "execute" => quoted.done /\ ~executed.done
    /\ call \in {"none", "quote", "execute"}
    /\ ~quoted.done => ~executed.done /\ ~moved
    /\ ~executed.done /\ ~moved => reserves = InitialReserves
    /\ quoted.done \/ call = "quote" => calculated = Route(arb)[Len(arb.pools)].amount

Repaid ==
    IF quoted.reverted \/ quoted.kept < amountToRepay THEN Reverted
    ELSE [quoted EXCEPT !.kept = @ - amountToRepay]

FlashInv ==
    /\ Phase
    /\ quoted.done => quoted = Outcome(arb)
    /\ executed.done /\ ~moved => executed = Repaid
    /\ call # "none" /\ ~moved => \E k \in 0..Len(arb.pools) : AtStop(k)

LEMMA FlashStart == FlashInit => FlashInv
<1> SUFFICES ASSUME FlashInit
             PROVE  FlashInv
  OBVIOUS
<1>1. quoted.done = FALSE /\ executed.done = FALSE /\ moved = FALSE /\ call = "none"
  BY DEF FlashInit, None
<1>2. arb \in Arbs /\ reserves = InitialReserves
  BY DEF FlashInit
<1>3. Phase
  BY <1>1, <1>2 DEF Phase
<1> QED BY <1>1, <1>3 DEF FlashInv

LEMMA Starts ==
    ASSUME FlashInv, NEW kind, Begin(kind), reserves = InitialReserves, arb' = arb
    PROVE  AtStop(0)'
<1>1. Route(arb)[0].token = Asset /\ Route(arb)[0].amount = arb.amountIn
      /\ Route(arb)[0].kept = arb.amountIn /\ arb \in Arbs
  BY RouteStart DEF FlashInv, Phase
<1>2. amounts' = <<arb.amountIn>> /\ currentTokenIn' = Asset /\ kept' = arb.amountIn
      /\ frame' = InitialReserves
  BY DEF Begin
<1>3. <<arb.amountIn>> = [i \in 1..0 + 1 |-> Route(arb)[i - 1].amount]
  <2>1. \A i \in 1..0 + 1 : i - 1 = 0
    OBVIOUS
  <2> QED BY <1>1, <2>1
<1>4. DOMAIN frame' = MarketPools
  BY <1>2, FlashAssumption
<1> QED BY <1>1, <1>2, <1>3, <1>4 DEF AtStop

LEMMA NextHop ==
    ASSUME arb \in Arbs, NEW k \in 0..Len(arb.pools), AtStop(k), InHop
    PROVE  LET p == arb.pools[k + 1]
           IN  /\ Len(amounts) = k + 1 /\ k + 1 \in 1..Len(arb.pools) /\ p \in MarketPools
               /\ amounts[k + 1] = Route(arb)[k].amount
               /\ amounts \in [1..k + 1 -> Nat]
               /\ InOut(frame[p], currentTokenIn = PoolOf[p].token0)
                      = ReservesOf(p, Route(arb)[k].token)
               /\ Route(arb)[k].amount \in Nat /\ Route(arb)[k + 1].amount \in Nat
<1> DEFINE p == arb.pools[k + 1]
<1>1. Len(arb.pools) \in Nat
  BY ArbIs
<1>2. amounts = [i \in 1..k + 1 |-> Route(arb)[i - 1].amount]
  BY DEF AtStop
<1>3. \A i \in 0..Len(arb.pools) : Route(arb)[i].amount \in Nat
  BY RouteIs DEF Stops
<1>4. \A i \in 1..k + 1 : i - 1 \in 0..Len(arb.pools)
  BY <1>1
<1>5. amounts \in [1..k + 1 -> Nat] /\ amounts[k + 1] = Route(arb)[k].amount
  BY <1>1, <1>2, <1>3, <1>4
<1>6. Len(amounts) = k + 1
  BY <1>1, <1>5
<1>7. k + 1 \in 1..Len(arb.pools)
  BY <1>1, <1>6 DEF InHop
<1>8. p \in MarketPools
  BY <1>7, ArbIs
<1>9. frame[p] = InitialReserves[p]
  BY <1>1, <1>7 DEF AtStop
<1>10. InOut(frame[p], currentTokenIn = PoolOf[p].token0) = ReservesOf(p, Route(arb)[k].token)
  BY <1>9 DEF AtStop, ReservesOf
<1>11. Route(arb)[k].amount \in Nat /\ Route(arb)[k + 1].amount \in Nat
  BY <1>3, <1>7, <1>1
<1> QED BY <1>5, <1>6, <1>7, <1>8, <1>10, <1>11

LEMMA Advances ==
    ASSUME arb \in Arbs, NEW k \in 0..Len(arb.pools), AtStop(k), InHop, GetsOver(arb, k + 1),
           NEW taken, taken = TakenAt(arb.pools[k + 1], Route(arb)[k].amount,
                                      ReservesOf(arb.pools[k + 1], Route(arb)[k].token)),
           SwapWith(arb.pools[k + 1], taken, Route(arb)[k + 1].amount)
    PROVE  k + 1 \in 0..Len(arb.pools) /\ AtStop(k + 1)'
<1> DEFINE p == arb.pools[k + 1]
           out == Route(arb)[k + 1].amount
           n == Len(arb.pools)
<1>1. n \in Nat /\ k \in Nat
  BY ArbIs
<1>2. /\ Len(amounts) = k + 1 /\ k + 1 \in 1..n /\ p \in MarketPools
      /\ amounts \in [1..k + 1 -> Nat] /\ out \in Nat
  BY NextHop
<1>3. arb' = arb /\ amounts' = Append(amounts, out) /\ currentTokenIn' = TokenAfter(p, currentTokenIn)
  BY DEF SwapWith
<1>4. currentTokenIn' = Route(arb)[k + 1].token
  <2>1. Route(arb)[k + 1].token = TokenAfter(p, Route(arb)[(k + 1) - 1].token) /\ (k + 1) - 1 = k
    BY <1>1, <1>2, RouteToken
  <2> QED BY <1>3, <2>1 DEF AtStop
<1>5. amounts' = [i \in 1..(k + 1) + 1 |-> Route(arb)[i - 1].amount]
  <2> HIDE DEF p, out, n
  <2> DEFINE as == [i \in 1..(k + 1) + 1 |-> Route(arb)[i - 1].amount]
             bs == Append(amounts, out)
  <2>1. amounts \in Seq(Nat) /\ Len(amounts) = k + 1
    BY <1>1, <1>2
  <2>2. bs \in Seq(Nat) /\ Len(bs) = (k + 1) + 1
    BY <1>1, <1>2, <2>1
  <2>3. bs[(k + 1) + 1] = out
    BY <1>1, <1>2, <2>1
  <2>4. \A i \in 1..k + 1 : bs[i] = amounts[i]
    BY <1>1, <1>2, <2>1
  <2> HIDE DEF bs
  <2>5. DOMAIN bs = 1..(k + 1) + 1 /\ bs = [i \in DOMAIN bs |-> bs[i]]
    BY <1>1, <2>2
  <2>6. \A i \in 1..(k + 1) + 1 : bs[i] = Route(arb)[i - 1].amount
    <3> SUFFICES ASSUME NEW i \in 1..(k + 1) + 1
                 PROVE  bs[i] = Route(arb)[i - 1].amount
      OBVIOUS
    <3>1. CASE i = (k + 1) + 1
      <4>1. i - 1 = k + 1
        BY <1>1, <3>1
      <4> QED BY <2>3, <3>1, <4>1 DEF out
    <3>2. CASE i # (k + 1) + 1
      <4>1. i \in 1..k + 1
        BY <1>1, <3>2
      <4>2. amounts[i] = Route(arb)[i - 1].amount
        BY <4>1 DEF AtStop
      <4> QED BY <2>4, <4>1, <4>2
    <3> QED BY <3>1, <3>2
  <2>7. bs = as
    BY <2>5, <2>6
  <2> QED BY <1>3, <2>7 DEF bs
<1>6. kept' = Route(arb)[k + 1].kept
  <2>1. kept' = (kept - IF currentTokenIn = Asset THEN taken ELSE 0)
                    + IF TokenAfter(p, currentTokenIn) = Asset THEN out ELSE 0
    BY DEF SwapWith
  <2>5. (k + 1) - 1 = k
    BY <1>1
  <2>6. \A i \in 1..n : Route(arb)[i] = HopOver(arb.pools[i], Route(arb)[i - 1])
    BY RouteIs
  <2>7. Route(arb)[k + 1] = HopOver(p, Route(arb)[(k + 1) - 1])
    BY <1>2, <2>6, Zenon
  <2>2. Route(arb)[k + 1] = HopOver(p, Route(arb)[k])
    BY <2>5, <2>7, Zenon
  <2>3. Route(arb)[k + 1].kept =
            (Route(arb)[k].kept - Paid(Route(arb)[k].token, taken))
                + Paid(TokenAfter(p, Route(arb)[k].token), out)
    BY <2>2, HopIs
  <2>4. kept = Route(arb)[k].kept /\ currentTokenIn = Route(arb)[k].token
    BY DEF AtStop
  <2> HIDE DEF out, p
  <2> QED BY <2>1, <2>3, <2>4 DEF Paid
<1>7. DOMAIN frame' = MarketPools /\ \A q \in MarketPools : q # p => frame'[q] = frame[q]
  BY DEF SwapWith, After, AtStop
<1>8. \A j \in (k + 1) + 1..n : frame'[arb.pools[j]] = InitialReserves[arb.pools[j]]
  <2> SUFFICES ASSUME NEW j \in (k + 1) + 1..n
               PROVE  frame'[arb.pools[j]] = InitialReserves[arb.pools[j]]
    OBVIOUS
  <2>1. j \in k + 1..n /\ j \in 1..n /\ j # k + 1
    BY <1>1
  <2>2. arb.pools[j] \in MarketPools /\ arb.pools[j] # p
    BY <1>2, <2>1, ArbIs
  <2>3. frame[arb.pools[j]] = InitialReserves[arb.pools[j]]
    BY <2>1 DEF AtStop
  <2> QED BY <1>7, <2>2, <2>3
<1>9. \A j \in 1..k + 1 : GetsOver(arb, j)
  <2>1. \A j \in 1..k + 1 : j = k + 1 \/ j \in 1..k
    BY <1>1
  <2> QED BY <2>1 DEF AtStop
<1>10. k + 1 \in 0..n
  BY <1>2
<1> QED BY <1>3, <1>4, <1>5, <1>6, <1>7, <1>8, <1>9, <1>10 DEF AtStop

\* A revert is the outcome of the route, or of a repayment that cannot be made.
LEMMA Reverts ==
    ASSUME FlashInv, Revert, call # "none",
           ~moved => \/ Outcome(arb) = Reverted
                     \/ call = "execute" /\ quoted.kept < amountToRepay
    PROVE  FlashInv'
<1>1. /\ arb' = arb /\ call' = "none" /\ moved' = moved /\ reserves' = reserves
      /\ calculated' = calculated
      /\ quoted' = IF call = "quote" THEN Reverted ELSE quoted
      /\ executed' = IF call = "execute" THEN Reverted ELSE executed
  BY DEF Revert
<1>2. Reverted.done = TRUE /\ Reverted.reverted = TRUE
  BY DEF Reverted
<1>3. Phase
  BY DEF FlashInv
<1>4. CASE call = "quote"
  <2>1. quoted' = Reverted /\ executed' = executed /\ ~quoted.done /\ ~executed.done /\ ~moved
    BY <1>1, <1>3, <1>4 DEF Phase
  <2>2. Outcome(arb) = Reverted
    BY <1>4, <2>1
  <2>3. Phase'
    BY <1>1, <1>2, <1>3, <1>4, <2>1 DEF Phase
  <2>4. (quoted.done => quoted = Outcome(arb))'
    BY <1>1, <2>1, <2>2
  <2>5. (executed.done /\ ~moved => executed = Repaid)'
    BY <1>1, <2>1
  <2> QED BY <1>1, <2>3, <2>4, <2>5 DEF FlashInv
<1>5. CASE call = "execute"
  <2>1. quoted' = quoted /\ executed' = Reverted /\ quoted.done
    BY <1>1, <1>3, <1>5 DEF Phase
  <2>2. quoted = Outcome(arb)
    BY <2>1 DEF FlashInv
  <2>3. Phase'
    BY <1>1, <1>2, <1>3, <2>1 DEF Phase
  <2>4. ~moved => Repaid = Reverted
    BY <1>2, <2>2 DEF Repaid
  <2>5. Repaid' = Repaid
    BY <1>1, <2>1 DEF Repaid, amountToRepay
  <2>6. (executed.done /\ ~moved => executed = Repaid)'
    BY <1>1, <2>1, <2>4, <2>5
  <2>7. (quoted.done => quoted = Outcome(arb))'
    BY <1>1, <2>1, <2>2
  <2> QED BY <1>1, <2>3, <2>6, <2>7 DEF FlashInv
<1> QED BY <1>3, <1>4, <1>5 DEF Phase

LEMMA Swaps ==
    ASSUME FlashInv, call # "none", NEW p, NEW taken, NEW out, SwapWith(p, taken, out),
           ~moved => \E k \in 0..Len(arb.pools) : AtStop(k)'
    PROVE  FlashInv'
<1>1. UNCHANGED <<reserves, call, arb, calculated, quoted, executed, moved>>
  BY DEF SwapWith
<1>2. Phase'
  BY <1>1 DEF FlashInv, Phase
<1>3. Repaid' = Repaid
  BY <1>1 DEF Repaid, amountToRepay
<1> QED BY <1>1, <1>2, <1>3 DEF FlashInv

LEMMA Stopped ==
    ASSUME NEW a, NEW j \in 1..Len(a.pools), ~GetsOver(a, j)
    PROVE  Outcome(a) = Reverted
BY DEF Outcome

LEMMA SwapV2Step ==
    ASSUME FlashInv, quoteSwapV2 \/ executeSwapV2
    PROVE  FlashInv'
<1> DEFINE p == arb.pools[Len(amounts)]
           in == amounts[Len(amounts)]
           r  == InOut(frame[p], currentTokenIn = PoolOf[p].token0)
           out == AmountOut(in, r[1], r[2], feeOf(PoolOf[p].protocol))
<1>1. /\ InHop /\ ~IsV3(p) /\ call # "none"
      /\ IF PairAllows(p, in, out, r) THEN SwapWith(p, in, out) ELSE Revert
  BY DEF quoteSwapV2, executeSwapV2, feeOf, InHop
<1>2. arb \in Arbs
  BY DEF FlashInv, Phase
<1>3. ASSUME NEW k \in 0..Len(arb.pools), AtStop(k)
      PROVE  /\ k + 1 \in 1..Len(arb.pools) /\ p = arb.pools[k + 1]
             /\ in = Route(arb)[k].amount /\ out = Route(arb)[k + 1].amount
             /\ in = TakenAt(p, in, ReservesOf(p, Route(arb)[k].token))
             /\ PairAllows(p, in, out, r) <=> GetsOver(arb, k + 1)
  <2> DEFINE s == ReservesOf(p, Route(arb)[k].token)
  <2>1. /\ Len(amounts) = k + 1 /\ k + 1 \in 1..Len(arb.pools)
        /\ arb.pools[k + 1] \in MarketPools /\ amounts[k + 1] = Route(arb)[k].amount
        /\ InOut(frame[arb.pools[k + 1]], currentTokenIn = PoolOf[arb.pools[k + 1]].token0)
               = ReservesOf(arb.pools[k + 1], Route(arb)[k].token)
        /\ Route(arb)[k].amount \in Nat /\ Route(arb)[k + 1].amount \in Nat
    BY <1>1, <1>2, <1>3, NextHop
  <2>2. p = arb.pools[k + 1] /\ p \in MarketPools /\ in = Route(arb)[k].amount /\ r = s
        /\ in \in Nat
    BY <2>1
  <2> HIDE DEF p, in, r, s
  <2>3. feeOf(PoolOf[p].protocol) = compute_fee(PoolOf[p].protocol)
    BY <1>1, <2>2, FeesAgree
  <2>4. OutAt(p, in, s) = out /\ out < r[2]
    <3>1. /\ OutAt(p, in, ReservesOf(p, Route(arb)[k].token))
                = AmountOut(in, ReservesOf(p, Route(arb)[k].token)[1],
                            ReservesOf(p, Route(arb)[k].token)[2], compute_fee(PoolOf[p].protocol))
          /\ OutAt(p, in, ReservesOf(p, Route(arb)[k].token))
                < ReservesOf(p, Route(arb)[k].token)[2]
      BY <1>1, <2>2, OutIs
    <3> QED BY <2>2, <2>3, <3>1 DEF s
  <2>5. Route(arb)[k + 1].amount = OutAt(p, in, s)
    <3>1. (k + 1) - 1 = k
      OBVIOUS
    <3>2. \A i \in 1..Len(arb.pools) :
             Route(arb)[i].amount = OutAt(arb.pools[i], Route(arb)[i - 1].amount,
                                          ReservesOf(arb.pools[i], Route(arb)[i - 1].token))
      BY <1>2, RouteToken
    <3> QED BY <2>1, <2>2, <3>1, <3>2 DEF s
  <2>6. out = Route(arb)[k + 1].amount /\ out \in Nat
    BY <2>1, <2>4, <2>5
  <2>7. PairAllows(p, in, out, r) <=> out > 0
    <3>1. out = AmountOut(in, r[1], r[2], compute_fee(PoolOf[p].protocol))
      BY <2>3
    <3> HIDE DEF out
    <3> QED BY <2>4, <2>6, <3>1 DEF PairAllows
  <2>8. GetsOver(arb, k + 1) <=> Route(arb)[k + 1].amount > 0
    BY <1>1, <2>2 DEF GetsOver
  <2>9. in = TakenAt(p, in, s)
    BY <1>1 DEF TakenAt
  <2> HIDE DEF out
  <2> QED BY <2>1, <2>2, <2>6, <2>7, <2>8, <2>9 DEF s
<1> HIDE DEF p, in, r, out
<1>4. CASE PairAllows(p, in, out, r)
  <2>1. SwapWith(p, in, out)
    BY <1>1, <1>4
  <2>2. ASSUME ~moved
        PROVE  \E k \in 0..Len(arb.pools) : AtStop(k)'
    <3>1. PICK k \in 0..Len(arb.pools) : AtStop(k)
      BY <1>1, <2>2 DEF FlashInv
    <3>2. /\ p = arb.pools[k + 1] /\ in = Route(arb)[k].amount /\ out = Route(arb)[k + 1].amount
          /\ in = TakenAt(p, in, ReservesOf(p, Route(arb)[k].token)) /\ GetsOver(arb, k + 1)
      BY <1>3, <1>4, <3>1
    <3>3. k + 1 \in 0..Len(arb.pools) /\ AtStop(k + 1)'
      BY <1>1, <1>2, <2>1, <3>1, <3>2, Advances
    <3> QED BY <3>3
  <2> QED BY <1>1, <2>1, <2>2, Swaps
<1>5. CASE ~PairAllows(p, in, out, r)
  <2>1. ASSUME ~moved
        PROVE  Outcome(arb) = Reverted
    <3>1. PICK k \in 0..Len(arb.pools) : AtStop(k)
      BY <1>1, <2>1 DEF FlashInv
    <3>2. k + 1 \in 1..Len(arb.pools) /\ ~GetsOver(arb, k + 1)
      BY <1>3, <1>5, <3>1
    <3> QED BY <3>2, Stopped
  <2> QED BY <1>1, <1>5, <2>1, Reverts
<1> QED BY <1>4, <1>5

LEMMA SwapV3Step ==
    ASSUME FlashInv, quoteSwapV3 \/ executeSwapV3
    PROVE  FlashInv'
<1> DEFINE p == arb.pools[Len(amounts)]
           in == amounts[Len(amounts)]
           r  == InOut(frame[p], currentTokenIn = PoolOf[p].token0)
<1>1. /\ InHop /\ IsV3(p) /\ call # "none"
      /\ IF in > 0 THEN SwapWith(p, V3Taken(in, r), V3Out(in, r)) ELSE Revert
  BY DEF quoteSwapV3, executeSwapV3, InHop
<1>2. arb \in Arbs
  BY DEF FlashInv, Phase
<1>3. ASSUME NEW k \in 0..Len(arb.pools), AtStop(k)
      PROVE  /\ k + 1 \in 1..Len(arb.pools) /\ p = arb.pools[k + 1]
             /\ in = Route(arb)[k].amount /\ r = ReservesOf(p, Route(arb)[k].token)
             /\ in > 0 => V3Out(in, r) = Route(arb)[k + 1].amount
             /\ V3Taken(in, r) = TakenAt(p, in, r)
             /\ in > 0 <=> GetsOver(arb, k + 1)
  <2>1. /\ Len(amounts) = k + 1 /\ k + 1 \in 1..Len(arb.pools)
        /\ arb.pools[k + 1] \in MarketPools /\ amounts[k + 1] = Route(arb)[k].amount
        /\ InOut(frame[arb.pools[k + 1]], currentTokenIn = PoolOf[arb.pools[k + 1]].token0)
               = ReservesOf(arb.pools[k + 1], Route(arb)[k].token)
        /\ Route(arb)[k].amount \in Nat
    BY <1>1, <1>2, <1>3, NextHop
  <2>2. p = arb.pools[k + 1] /\ in = Route(arb)[k].amount /\ in \in Nat
        /\ r = ReservesOf(p, Route(arb)[k].token)
    BY <2>1
  <2> HIDE DEF p, in, r
  <2>3. (k + 1) - 1 = k
    OBVIOUS
  <2>4. Route(arb)[k + 1].amount = OutAt(p, in, r)
    <3>1. \A i \in 1..Len(arb.pools) :
             Route(arb)[i].amount = OutAt(arb.pools[i], Route(arb)[i - 1].amount,
                                          ReservesOf(arb.pools[i], Route(arb)[i - 1].token))
      BY <1>2, RouteToken
    <3> QED BY <2>1, <2>2, <2>3, <3>1
  <2>5. in > 0 => V3Out(in, r) = OutAt(p, in, r)
    BY <1>1, <2>2 DEF OutAt
  <2>6. V3Taken(in, r) = TakenAt(p, in, r)
    BY <1>1 DEF TakenAt
  <2>7. in > 0 <=> GetsOver(arb, k + 1)
    BY <1>1, <2>2, <2>3 DEF GetsOver
  <2> QED BY <2>1, <2>2, <2>4, <2>5, <2>6, <2>7
<1> HIDE DEF p, in, r
<1>4. CASE in > 0
  <2>1. SwapWith(p, V3Taken(in, r), V3Out(in, r))
    BY <1>1, <1>4
  <2>2. ASSUME ~moved
        PROVE  \E k \in 0..Len(arb.pools) : AtStop(k)'
    <3>1. PICK k \in 0..Len(arb.pools) : AtStop(k)
      BY <1>1, <2>2 DEF FlashInv
    <3>2. /\ p = arb.pools[k + 1] /\ in = Route(arb)[k].amount
          /\ r = ReservesOf(p, Route(arb)[k].token)
          /\ V3Out(in, r) = Route(arb)[k + 1].amount
          /\ V3Taken(in, r) = TakenAt(p, in, r) /\ GetsOver(arb, k + 1)
      BY <1>3, <1>4, <3>1
    <3>3. SwapWith(p, TakenAt(p, in, r), Route(arb)[k + 1].amount)
      BY <2>1, <3>2
    <3>4. k + 1 \in 0..Len(arb.pools) /\ AtStop(k + 1)'
      BY <1>1, <1>2, <3>1, <3>2, <3>3, Advances
    <3> QED BY <3>4
  <2> QED BY <1>1, <2>1, <2>2, Swaps
<1>5. CASE ~(in > 0)
  <2>1. ASSUME ~moved
        PROVE  Outcome(arb) = Reverted
    <3>1. PICK k \in 0..Len(arb.pools) : AtStop(k)
      BY <1>1, <2>1 DEF FlashInv
    <3>2. k + 1 \in 1..Len(arb.pools) /\ ~GetsOver(arb, k + 1)
      BY <1>3, <1>5, <3>1
    <3> QED BY <3>2, Stopped
  <2> QED BY <1>1, <1>5, <2>1, Reverts
<1> QED BY <1>4, <1>5

\* A call that comes to the end of the path has the route's outcome.
LEMMA Arrives ==
    ASSUME FlashInv, call # "none", ~InHop, ~moved
    PROVE  /\ Outcome(arb) = Success(kept) /\ kept \in Int
           /\ Len(arb.pools) \in Nat /\ arb \in Arbs
<1> DEFINE n == Len(arb.pools)
<1>1. arb \in Arbs /\ n \in Nat
  BY ArbIs DEF FlashInv, Phase
<1>2. PICK k \in 0..n : AtStop(k)
  BY DEF FlashInv
<1>3. amounts = [i \in 1..k + 1 |-> Route(arb)[i - 1].amount] /\ kept = Route(arb)[k].kept
      /\ \A j \in 1..k : GetsOver(arb, j)
  BY <1>2 DEF AtStop
<1>4. Len(amounts) = k + 1
  BY <1>1, <1>3
<1>5. k = n
  BY <1>1, <1>4 DEF InHop
<1>6. kept \in Int
  BY <1>1, <1>3, RouteIs DEF Stops
<1>7. Outcome(arb) = [done |-> TRUE, reverted |-> FALSE, amounts |-> amounts, kept |-> kept]
  BY <1>3, <1>5 DEF Outcome
<1> QED BY <1>1, <1>6, <1>7 DEF Success

LEMMA QuoteStarts ==
    ASSUME FlashInv, quoteArbitrage
    PROVE  FlashInv'
<1>1. /\ call = "none" /\ quoted.done = FALSE /\ Begin("quote") /\ call' = "quote"
      /\ calculated' = calculate_output(arb)
      /\ UNCHANGED <<reserves, arb, quoted, executed, moved>>
  BY DEF quoteArbitrage, Begin, FlashInv, Phase
<1>2. arb \in Arbs /\ ~executed.done /\ ~moved /\ reserves = InitialReserves
  BY <1>1 DEF FlashInv, Phase
<1>3. calculated' = Route(arb)[Len(arb.pools)].amount
  BY <1>1, <1>2, CalculatorIs
<1>4. AtStop(0)'
  BY <1>1, <1>2, Starts
<1>5. Phase'
  BY <1>1, <1>2, <1>3 DEF FlashInv, Phase
<1>6. 0 \in 0..Len(arb.pools)
  BY <1>2, ArbIs
<1> QED BY <1>1, <1>2, <1>4, <1>5, <1>6 DEF FlashInv

LEMMA ExecutionStarts ==
    ASSUME FlashInv, executeArbitrage
    PROVE  FlashInv'
<1>1. /\ call = "none" /\ quoted.done /\ executed.done = FALSE /\ Begin("execute")
      /\ call' = "execute"
      /\ UNCHANGED <<reserves, arb, calculated, quoted, executed, moved>>
  BY DEF executeArbitrage, Begin, FlashInv, Phase
<1>2. arb \in Arbs /\ (~moved => reserves = InitialReserves)
  BY <1>1 DEF FlashInv, Phase
<1>3. ~moved => AtStop(0)'
  BY <1>1, <1>2, Starts
<1>4. Phase'
  BY <1>1, <1>2 DEF FlashInv, Phase
<1>5. 0 \in 0..Len(arb.pools)
  BY <1>2, ArbIs
<1> QED BY <1>1, <1>2, <1>3, <1>4, <1>5 DEF FlashInv

LEMMA QuoteEnds ==
    ASSUME FlashInv, QuoteReturns
    PROVE  FlashInv'
<1>1. /\ call = "quote" /\ ~InHop /\ quoted' = Success(kept) /\ call' = "none"
      /\ UNCHANGED <<reserves, arb, calculated, executed, moved>>
  BY DEF QuoteReturns
<1>2. ~quoted.done /\ ~executed.done /\ ~moved
  BY <1>1 DEF FlashInv, Phase
<1>3. quoted' = Outcome(arb)
  BY <1>1, <1>2, Arrives
<1>4. quoted'.done = TRUE
  BY <1>1 DEF Success
<1>5. Phase'
  BY <1>1, <1>2, <1>4 DEF FlashInv, Phase
<1> QED BY <1>1, <1>2, <1>3, <1>5 DEF FlashInv

LEMMA RepayIs ==
    ASSUME arb \in Arbs
    PROVE  amountToRepay \in Int
<1> DEFINE x == arb.amountIn * PREMIUM
<1>1. arb.amountIn \in Nat /\ x \in Nat
  BY FlashAssumption
<1> HIDE DEF x
<1>2. x \div PRECISION \in Nat
  BY <1>1, Quotient DEF PRECISION
<1> QED BY <1>1, <1>2 DEF amountToRepay, x

LEMMA RepaysStep ==
    ASSUME FlashInv, Repays
    PROVE  FlashInv'
<1>1. /\ call = "execute" /\ ~InHop /\ kept >= amountToRepay
      /\ executed' = Success(kept - amountToRepay) /\ call' = "none"
      /\ UNCHANGED <<arb, calculated, quoted, moved>>
  BY DEF Repays
<1>2. Phase /\ quoted.done /\ ~executed.done /\ quoted = Outcome(arb)
  BY <1>1 DEF FlashInv, Phase
<1>3. executed'.done = TRUE
  BY <1>1 DEF Success
<1>4. Phase'
  BY <1>1, <1>2, <1>3 DEF Phase
<1>5. ASSUME ~moved
      PROVE  executed' = Repaid
  <2>1. quoted = Success(kept) /\ kept \in Int /\ amountToRepay \in Int
    BY <1>1, <1>2, <1>5, Arrives, RepayIs
  <2>2. quoted.reverted = FALSE /\ quoted.kept = kept
    BY <2>1 DEF Success
  <2>3. ~(quoted.kept < amountToRepay)
    BY <1>1, <2>1, <2>2
  <2>4. Repaid = [quoted EXCEPT !.kept = @ - amountToRepay]
    BY <2>2, <2>3 DEF Repaid
  <2>5. Repaid = [Success(kept) EXCEPT !.kept = kept - amountToRepay]
    BY <2>1, <2>2, <2>4
  <2> QED BY <1>1, <2>5 DEF Success
<1>6. Repaid' = Repaid
  BY <1>1 DEF Repaid, amountToRepay
<1> QED BY <1>1, <1>2, <1>4, <1>5, <1>6 DEF FlashInv

LEMMA CannotStep ==
    ASSUME FlashInv, CannotRepay
    PROVE  FlashInv'
<1>1. call = "execute" /\ call # "none" /\ ~InHop /\ kept < amountToRepay /\ Revert
  BY DEF CannotRepay
<1>2. quoted = Outcome(arb)
  BY <1>1 DEF FlashInv, Phase
<1>3. ~moved => quoted.kept < amountToRepay
  <2>1. ~moved => quoted = Success(kept)
    BY <1>1, <1>2, Arrives
  <2>2. Success(kept).kept = kept
    BY DEF Success
  <2> QED BY <1>1, <2>1, <2>2
<1> QED BY <1>1, <1>3, Reverts

LEMMA TradeStep ==
    ASSUME FlashInv, NEW p, NEW token, Trade(p, token)
    PROVE  FlashInv'
<1>1. /\ call = "none" /\ quoted.done /\ ~executed.done /\ moved' = TRUE
      /\ UNCHANGED <<call, arb, calculated, quoted, executed>>
  BY DEF Trade
<1>2. Phase'
  BY <1>1 DEF FlashInv, Phase
<1> QED BY <1>1, <1>2 DEF FlashInv

LEMMA FlashStep == FlashInv /\ [FlashNext]_flashVars => FlashInv'
<1> SUFFICES ASSUME FlashInv, [FlashNext]_flashVars
             PROVE  FlashInv'
  OBVIOUS
<1>1. CASE quoteArbitrage
  BY <1>1, QuoteStarts
<1>2. CASE executeArbitrage
  BY <1>2, ExecutionStarts
<1>3. CASE quoteSwapV2 \/ executeSwapV2
  BY <1>3, SwapV2Step
<1>4. CASE quoteSwapV3 \/ executeSwapV3
  BY <1>4, SwapV3Step
<1>5. CASE QuoteReturns
  BY <1>5, QuoteEnds
<1>6. CASE Repays
  BY <1>6, RepaysStep
<1>7. CASE CannotRepay
  BY <1>7, CannotStep
<1>8. CASE \E p \in MarketPools : \E token \in {PoolOf[p].token0, PoolOf[p].token1} :
              Trade(p, token)
  BY <1>8, TradeStep
<1>9. CASE UNCHANGED flashVars
  <2>1. Phase'
    BY <1>9 DEF flashVars, FlashInv, Phase
  <2>2. Repaid' = Repaid
    BY <1>9 DEF flashVars, Repaid, amountToRepay
  <2>3. \A k : AtStop(k)' <=> AtStop(k)
    BY <1>9 DEF flashVars, AtStop
  <2> QED BY <1>9, <2>1, <2>2, <2>3 DEF flashVars, FlashInv
<1> QED BY <1>1, <1>2, <1>3, <1>4, <1>5, <1>6, <1>7, <1>8, <1>9 DEF FlashNext

\* Calculator, quoter and swap contract agree on every path, over any pools of the registered
\* protocols, with any reserves and premium (FlashQuoter.sol:42, FlashSwap.sol:92).
THEOREM QuotesHold == FlashSpec => []ExecutesAsQuoted
<1>1. FlashInv => ExecutesAsQuoted
  <2> SUFFICES ASSUME FlashInv
               PROVE  ExecutesAsQuoted
    OBVIOUS
  <2> DEFINE n == Len(arb.pools)
  <2>1. arb \in Arbs /\ n \in Nat
    BY ArbIs DEF FlashInv, Phase
  <2>2. ASSUME quoted.done
        PROVE  calculated = IF quoted.reverted THEN 0 ELSE quoted.amounts[Len(quoted.amounts)]
    <3>1. quoted = Outcome(arb) /\ calculated = Route(arb)[n].amount
      BY <2>2 DEF FlashInv, Phase
    <3>2. CASE \A j \in 1..n : GetsOver(arb, j)
      <4> DEFINE as == [i \in 1..n + 1 |-> Route(arb)[i - 1].amount]
      <4>1. quoted.reverted = FALSE /\ quoted.amounts = as
        BY <3>1, <3>2 DEF Outcome
      <4>2. Len(as) = n + 1 /\ as[n + 1] = Route(arb)[n].amount
        BY <2>1
      <4> HIDE DEF as
      <4> QED BY <3>1, <4>1, <4>2
    <3>3. ASSUME NEW j \in 1..n, ~GetsOver(arb, j)
          PROVE  quoted.reverted = TRUE /\ calculated = 0
      <4>1. quoted = Reverted
        BY <3>1, <3>3, Stopped
      <4>2. j \in 0..n /\ j - 1 \in 0..n
        BY <2>1
      <4>3. Route(arb)[j].amount \in Nat /\ Route(arb)[j - 1].amount \in Nat
        BY <2>1, <4>2, RouteIs DEF Stops
      <4>4. Route(arb)[j].amount = 0 \/ Route(arb)[j - 1].amount = 0
        BY <3>3, <4>3 DEF GetsOver
      <4>5. Route(arb)[n].amount = 0
        BY <2>1, <4>2, <4>4, ZeroStays
      <4> QED BY <3>1, <4>1, <4>5 DEF Reverted
    <3> QED BY <3>2, <3>3
  <2>3. executed.done /\ ~moved => executed = Repaid
    BY DEF FlashInv
  <2> QED BY <2>2, <2>3 DEF ExecutesAsQuoted, Repaid
<1> QED BY <1>1, FlashStart, FlashStep, PTL DEF FlashSpec

-----------------------------------------------------------------------------
(* Aerodrome. *)

LEMMA Units == UNIT \in Nat \ {0} /\ ROUNDS \in Nat
BY AeroAssumption

\* What UNIT divides, and what is added before the division comes out.
LEMMA DivUnit ==
    ASSUME NEW m \in Nat \ {0}, NEW x \in Int
    PROVE  (x * m) \div m = x
<1> DEFINE q == (x * m) \div m
<1>1. x * m \in Int
  OBVIOUS
<1>2. q \in Int /\ q * m <= x * m /\ x * m < (q + 1) * m
  BY <1>1, IntDiv
<1> HIDE DEF q
<1>3. q * m < (x + 1) * m
  BY <1>2
<1>4. q * m < (x + 1) * m => q <= x
  BY <1>2, Below
<1>5. x * m < (q + 1) * m => x <= q
  BY <1>2, Below
<1> QED BY <1>2, <1>3, <1>4, <1>5 DEF q

LEMMA AtLeast ==
    ASSUME NEW m \in Nat \ {0}, NEW x \in Int, NEW n \in Int, x >= n * m
    PROVE  x \div m \in Int /\ x \div m >= n
<1> DEFINE q == x \div m
<1>1. q \in Int /\ x < (q + 1) * m
  BY IntDiv
<1> HIDE DEF q
<1>2. n * m < (q + 1) * m
  BY <1>1
<1>3. n <= q
  BY <1>1, <1>2, Below
<1> QED BY <1>1, <1>3 DEF q

LEMMA DivUp ==
    ASSUME NEW m \in Nat \ {0}, NEW x \in Int, NEW u \in Int, u >= x + m
    PROVE  u \div m >= x \div m + 1
<1> DEFINE q == x \div m
<1>1. q \in Int /\ q * m <= x
  BY IntDiv
<1> HIDE DEF q
<1>2. u >= (q + 1) * m
  BY <1>1
<1>3. u \div m >= q + 1
  BY <1>1, <1>2, AtLeast
<1> QED BY <1>3 DEF q

\* The two factors of the curve.
Cross(a, b) == (a * b) \div UNIT
Squares(a, b) == (a * a) \div UNIT + (b * b) \div UNIT

LEMMA FactorsAre ==
    ASSUME NEW a \in Nat, a >= UNIT, NEW b \in Int
    PROVE  /\ Cross(a, b) \in Int /\ Squares(a, b) \in Int
           /\ Squares(a, b) >= UNIT
           /\ b >= 0 => Cross(a, b) >= b
           /\ curve_f(a, b) = (Cross(a, b) * Squares(a, b)) \div UNIT
           /\ curve_f(a, b) \in Int
<1> USE Units
<1>1. a * a \in Int /\ a * a >= UNIT * UNIT /\ b * b \in Int /\ b * b >= 0 /\ a * b \in Int
  <2>1. a * a >= UNIT * a /\ UNIT * a >= UNIT * UNIT
    BY Scaled
  <2> QED BY <2>1
<1>2. (a * a) \div UNIT \in Int /\ (a * a) \div UNIT >= UNIT
  BY <1>1, AtLeast
<1>3. (b * b) \div UNIT \in Int /\ (b * b) \div UNIT >= 0
  <2>1. b * b >= 0 * UNIT
    BY <1>1
  <2> QED BY <1>1, <2>1, AtLeast
<1>4. Cross(a, b) \in Int /\ (b >= 0 => Cross(a, b) >= b)
  <2>1. Cross(a, b) \in Int
    BY <1>1, IntDiv DEF Cross
  <2>2. ASSUME b >= 0
        PROVE  Cross(a, b) >= b
    <3>1. a * b >= b * UNIT
      BY <2>2
    <3> QED BY <1>1, <3>1, AtLeast DEF Cross
  <2> QED BY <2>1, <2>2
<1>5. Squares(a, b) \in Int /\ Squares(a, b) >= UNIT
  BY <1>2, <1>3 DEF Squares
<1>6. Cross(a, b) * Squares(a, b) \in Int
  BY <1>4, <1>5
<1>7. curve_f(a, b) = (Cross(a, b) * Squares(a, b)) \div UNIT
  BY DEF curve_f, Cross, Squares
<1> QED BY <1>4, <1>5, <1>6, <1>7, IntDiv

LEMMA CurveNat ==
    ASSUME NEW a \in Nat, a >= UNIT, NEW b \in Nat
    PROVE  curve_f(a, b) \in Int /\ curve_f(a, b) >= 0
<1> USE Units
<1> DEFINE c == Cross(a, b)
           s == Squares(a, b)
<1>1. c \in Int /\ c >= 0 /\ s \in Int /\ s >= 0 /\ curve_f(a, b) = (c * s) \div UNIT
  <2>1. /\ c \in Int /\ s \in Int /\ s >= UNIT /\ c >= b
        /\ curve_f(a, b) = (c * s) \div UNIT
    BY FactorsAre, b \in Int, b >= 0
  <2> HIDE DEF c, s
  <2> QED BY <2>1
<1> HIDE DEF c, s
<1>2. c * s \in Int /\ c * s >= 0 * UNIT
  BY <1>1
<1> QED BY <1>1, <1>2, AtLeast

\* Where the curve is positive, the balance is.
LEMMA PositiveCurve ==
    ASSUME NEW a \in Nat, a >= UNIT, NEW b \in Int, curve_f(a, b) > 0
    PROVE  b > 0
<1> USE Units
<1> DEFINE c == Cross(a, b)
           s == Squares(a, b)
<1>1. c \in Int /\ s \in Int /\ s >= UNIT /\ curve_f(a, b) = (c * s) \div UNIT
  BY FactorsAre
<1>2. SUFFICES ASSUME b <= 0
               PROVE  FALSE
  OBVIOUS
<1>3. c <= 0
  <2>1. a * b \in Int /\ a * b <= 0
    BY <1>2
  <2>2. (a * b) \div UNIT <= 0 \div UNIT /\ 0 \div UNIT = 0
    BY <2>1, DivMonotone
  <2> QED BY <1>1, <2>2 DEF Cross
<1> HIDE DEF c, s
<1>4. c * s \in Int /\ c * s <= 0
  BY <1>1, <1>3
<1>5. (c * s) \div UNIT <= 0 \div UNIT /\ 0 \div UNIT = 0
  BY <1>4, DivMonotone
<1> QED BY <1>1, <1>5

\* The curve rises with every unit of the balance, roundings and all, once the other balance
\* is a whole token.
LEMMA CurveRises ==
    ASSUME NEW a \in Nat, a >= UNIT, NEW b \in Nat \ {0}
    PROVE  curve_f(a, b - 1) < curve_f(a, b)
<1> USE Units
<1> DEFINE c == Cross(a, b - 1)
           e == Cross(a, b)
           s == Squares(a, b - 1)
           t == Squares(a, b)
<1>1. /\ c \in Int /\ c >= 0 /\ s \in Int
      /\ curve_f(a, b - 1) = (c * s) \div UNIT /\ curve_f(a, b - 1) \in Int
  BY FactorsAre, b - 1 \in Nat
<1>2. /\ e \in Int /\ t \in Int /\ t >= UNIT
      /\ curve_f(a, b) = (e * t) \div UNIT /\ curve_f(a, b) \in Int
  BY FactorsAre
<1>3. e >= c + 1
  <2>1. a * (b - 1) \in Int /\ a * b \in Int /\ a * b >= a * (b - 1) + UNIT
    OBVIOUS
  <2> QED BY <2>1, DivUp DEF Cross
<1>4. s <= t
  <2>1. (b - 1) * (b - 1) \in Int /\ b * b \in Int /\ (b - 1) * (b - 1) <= b * b
    OBVIOUS
  <2>2. ((b - 1) * (b - 1)) \div UNIT <= (b * b) \div UNIT
    BY <2>1, DivMonotone
  <2>3. /\ (a * a) \div UNIT \in Int /\ (b * b) \div UNIT \in Int
        /\ ((b - 1) * (b - 1)) \div UNIT \in Int
    BY <2>1, IntDiv, a * a \in Int
  <2> QED BY <2>2, <2>3 DEF Squares
<1> HIDE DEF c, e, s, t
<1>5. e * t >= c * s + UNIT
  <2>1. e * t >= (c + 1) * t
    BY <1>1, <1>2, <1>3
  <2>2. c * t >= c * s
    BY <1>1, <1>2, <1>4
  <2> QED BY <1>1, <1>2, <2>1, <2>2
<1>6. (e * t) \div UNIT >= (c * s) \div UNIT + 1
  BY <1>1, <1>2, <1>5, DivUp
<1> QED BY <1>1, <1>2, <1>6

LEMMA FeeTaken ==
    ASSUME NEW n \in Nat, NEW fee \in Nat, fee < 10000
    PROVE  n - (n * fee) \div 10000 \in Nat
<1> DEFINE t == n * fee
           c == t \div 10000
<1>1. t \in Int /\ t >= 0 * 10000 /\ t <= n * 10000
  BY Scaled
<1> HIDE DEF t
<1>2. c \in Int /\ c >= 0
  BY <1>1, AtLeast
<1>3. c * 10000 <= t
  BY <1>1, IntDiv
<1> HIDE DEF c
<1>4. c * 10000 < (n + 1) * 10000
  BY <1>1, <1>2, <1>3
<1>5. c <= n
  BY <1>2, <1>4, Below
<1>6. n - c \in Nat
  BY <1>2, <1>5
<1> QED BY <1>6 DEF c, t

\* What the quotes start from: the reserves of a deep stable pool are whole tokens.
LEMMA PoolIs ==
    ASSUME NEW q \in Requests
    PROVE  /\ q.pool \in StablePools /\ q.zeroIn \in BOOLEAN
           /\ {q.pool.reserve0, q.pool.reserve1, DecimalsIn(q), DecimalsOut(q),
               q.pool.token0_decimals, q.pool.token1_decimals} \subseteq Nat \ {0}
           /\ q.pool.stable \in BOOLEAN
           /\ q.amount \in Nat /\ AfterFee(q.pool, q.amount) \in Nat /\ NormalIn(q) \in Nat
<1>1. PICK p \in StablePools, z \in BOOLEAN, h \in AeroAmounts :
          q = [pool |-> p, zeroIn |-> z,
               amount |-> (h * IF z THEN p.token0_decimals ELSE p.token1_decimals) \div 100]
  BY DEF Requests
<1>2. /\ {p.reserve0, p.reserve1, p.token0_decimals, p.token1_decimals} \subseteq Nat \ {0}
      /\ p.fee \in 0..9999 /\ p.stable \in BOOLEAN /\ h \in Nat
  BY AeroAssumption
<1>3. DecimalsIn(q) \in Nat \ {0} /\ DecimalsOut(q) \in Nat \ {0}
  BY <1>1, <1>2 DEF DecimalsIn, DecimalsOut
<1>4. q.amount \in Nat
  <2>1. ASSUME NEW m \in Nat
        PROVE  (h * m) \div 100 \in Nat
    <3>1. h * m \in Int /\ h * m >= 0 * 100
      BY <1>2
    <3> QED BY <3>1, AtLeast
  <2> QED BY <1>1, <1>2, <2>1
<1>5. AfterFee(q.pool, q.amount) \in Nat
  <2>1. p.fee \in 0..9999 /\ q.amount \in Nat
    BY <1>2, <1>4
  <2>2. q.amount - (q.amount * p.fee) \div 10000 \in Nat
    <3> DEFINE n == q.amount
               fee == p.fee
    <3>0. n \in Nat /\ fee \in 0..9999
      BY <2>1
    <3> HIDE DEF n, fee
    <3>1. n \in Nat /\ fee \in Nat /\ fee < 10000
      BY <3>0
    <3>2. n - (n * fee) \div 10000 \in Nat
      BY <3>1, FeeTaken
    <3> QED BY <3>2 DEF n, fee
  <2>3. q.pool = p
    BY <1>1
  <2> QED BY <2>2, <2>3 DEF AfterFee
<1>6. NormalIn(q) \in Nat
  <2> DEFINE n == AfterFee(q.pool, q.amount)
  <2>1. n * UNIT \in Int /\ n * UNIT >= 0 * DecimalsIn(q)
    BY <1>3, <1>5, Units
  <2> QED BY <2>1, <1>3, AtLeast DEF NormalIn
<1> QED BY <1>1, <1>2, <1>3, <1>4, <1>5, <1>6

LEMMA NormalIs ==
    ASSUME NEW q \in Requests
    PROVE  LET r == Normal(q.pool, q.zeroIn)
           IN  /\ r[1] \in Nat /\ r[2] \in Nat
               /\ ~q.pool.stable => r[1] > 0 /\ r[2] > 0
               /\ q.pool.stable /\ Deep(q.pool) => r[1] >= UNIT /\ r[2] >= UNIT
               /\ q.pool.stable =>
                      curve_k(q.pool.reserve0, q.pool.reserve1, q.pool) = curve_f(r[1], r[2])
<1> DEFINE p == q.pool
           n0 == (p.reserve0 * UNIT) \div p.token0_decimals
           n1 == (p.reserve1 * UNIT) \div p.token1_decimals
           r == Normal(p, q.zeroIn)
<1>1. /\ {p.reserve0, p.reserve1, p.token0_decimals, p.token1_decimals} \subseteq Nat \ {0}
      /\ p.stable \in BOOLEAN /\ q.zeroIn \in BOOLEAN
  BY PoolIs
<1>2. ASSUME NEW m \in Nat \ {0}, NEW n \in Nat \ {0}
      PROVE  /\ (n * UNIT) \div m \in Nat
             /\ n >= m => (n * UNIT) \div m >= UNIT
  <2>1. n * UNIT \in Int /\ n * UNIT >= 0 * m
    BY Units
  <2>2. (n * UNIT) \div m \in Int /\ (n * UNIT) \div m >= 0
    BY <2>1, AtLeast
  <2>3. ASSUME n >= m
        PROVE  (n * UNIT) \div m >= UNIT
    <3>1. n * UNIT >= UNIT * m
      BY <2>3, Units, Scaled
    <3> QED BY <2>1, <3>1, AtLeast, Units
  <2> QED BY <2>2, <2>3
<1>3. /\ n0 \in Nat /\ n1 \in Nat
      /\ p.reserve0 >= p.token0_decimals => n0 >= UNIT
      /\ p.reserve1 >= p.token1_decimals => n1 >= UNIT
  BY <1>1, <1>2
<1>4. curve_k(p.reserve0, p.reserve1, p) = curve_f(n0, n1)
  BY DEF curve_k
<1> HIDE DEF n0, n1
<1>5. curve_f(n0, n1) = curve_f(n1, n0)
  <2>1. n0 * n1 = n1 * n0
    BY <1>3
  <2>2. (n0 * n0) \div UNIT \in Int /\ (n1 * n1) \div UNIT \in Int
    BY <1>3, IntDiv, Units
  <2> QED BY <2>1, <2>2 DEF curve_f
<1>6. r = IF ~p.stable THEN IF q.zeroIn THEN <<p.reserve0, p.reserve1>>
                                        ELSE <<p.reserve1, p.reserve0>>
          ELSE IF q.zeroIn THEN <<n0, n1>> ELSE <<n1, n0>>
  BY DEF Normal, n0, n1
<1> QED
  <2>1. CASE ~p.stable /\ q.zeroIn
    <3>1. r[1] = p.reserve0 /\ r[2] = p.reserve1
      BY <1>6, <2>1
    <3>2. r[1] \in Nat /\ r[2] \in Nat /\ r[1] > 0 /\ r[2] > 0
      BY <1>1, <3>1
    <3> QED BY <2>1, <3>2
  <2>2. CASE ~p.stable /\ ~q.zeroIn
    <3>1. r[1] = p.reserve1 /\ r[2] = p.reserve0
      BY <1>6, <2>2
    <3>2. r[1] \in Nat /\ r[2] \in Nat /\ r[1] > 0 /\ r[2] > 0
      BY <1>1, <3>1
    <3> QED BY <2>2, <3>2
  <2>3. CASE p.stable /\ q.zeroIn
    <3>1. r[1] = n0 /\ r[2] = n1
      BY <1>6, <2>3
    <3> QED BY <1>3, <1>4, <2>3, <3>1 DEF Deep
  <2>4. CASE p.stable /\ ~q.zeroIn
    <3>1. r[1] = n1 /\ r[2] = n0
      BY <1>6, <2>4
    <3> QED BY <1>3, <1>4, <1>5, <2>4, <3>1 DEF Deep
  <2> QED BY <1>1, <2>1, <2>2, <2>3, <2>4

\* The search came to an end of its own (it returns 0 otherwise), in a pool whose two tokens
\* have the decimals of UNIT, so that _k is _f.
SearchEnded ==
    asked.pool.stable =>
        y # 0 /\ asked.pool.token0_decimals = UNIT /\ asked.pool.token1_decimals = UNIT

AeroInv ==
    /\ asked \in Requests
    /\ x0 \in Nat
    /\ ~asked.pool.stable => x0 = 0
    /\ asked.pool.stable /\ x0 = 0 => answer = NoAnswer
    /\ x0 # 0 /\ Deep(asked.pool) =>
           LET r == Normal(asked.pool, asked.zeroIn)
           IN  y \in Int /\ x0 = NormalIn(asked) + r[1] /\ xy = curve_f(r[1], r[2])
    /\ SearchEnded => PaysToTheCurve

LEMMA AeroStart == AeroInit => AeroInv
<1> SUFFICES ASSUME AeroInit
             PROVE  AeroInv
  OBVIOUS
<1>1. PaysToTheCurve
  BY DEF AeroInit, PaysToTheCurve
<1> QED BY <1>1 DEF AeroInit, AeroInv

LEMMA VolatilePays ==
    ASSUME NEW a \in Nat \ {0}, NEW b \in Nat \ {0}, NEW in \in Nat
    PROVE  LET out == (in * b) \div (a + in)
           IN  /\ out \in Int
               /\ (a + in) * (b - out) >= a * b
               /\ (a + in) * (b - out - 1) < a * b
<1> DEFINE out == (in * b) \div (a + in)
<1>1. out \in Int /\ out * (a + in) <= in * b /\ in * b < (out + 1) * (a + in)
  BY IntDiv, in * b \in Int, a + in \in Nat \ {0}
<1> HIDE DEF out
<1>2. (a + in) * (b - out) = a * b + in * b - out * (a + in)
  BY <1>1
<1>3. (a + in) * (b - out - 1) = a * b + in * b - (out + 1) * (a + in)
  BY <1>1
<1>4. {in * b, a * b, out * (a + in), (out + 1) * (a + in)} \subseteq Int
  BY <1>1
<1>5. (a + in) * (b - out) >= a * b /\ (a + in) * (b - out - 1) < a * b
  BY <1>1, <1>2, <1>3, <1>4
<1> QED BY <1>1, <1>5 DEF out

LEMMA VolatileStep == AeroInv /\ volatile_out => AeroInv'
<1> SUFFICES ASSUME AeroInv, volatile_out
             PROVE  AeroInv'
  OBVIOUS
<1> DEFINE p == asked.pool
           r == Normal(p, asked.zeroIn)
           in == AfterFee(p, asked.amount)
<1>1. ~p.stable /\ answer' = (in * r[2]) \div (r[1] + in) /\ UNCHANGED <<asked, x0, xy, y, rounds>>
  BY DEF volatile_out
<1>2. in \in Nat /\ r[1] \in Nat \ {0} /\ r[2] \in Nat \ {0}
  BY <1>1, PoolIs, NormalIs DEF AeroInv
<1> HIDE DEF r, in
<1>3. /\ answer' \in Int
      /\ (r[1] + in) * (r[2] - answer') >= r[1] * r[2]
      /\ (r[1] + in) * (r[2] - answer' - 1) < r[1] * r[2]
  BY <1>1, <1>2, VolatilePays
<1>4. answer' = ((r[2] - (r[2] - answer')) * 1) \div 1
  BY <1>2, <1>3
<1>5. PaysToTheCurve'
  BY <1>1, <1>3, <1>4 DEF PaysToTheCurve, Curve, r, in
<1> QED BY <1>1, <1>5 DEF AeroInv, SearchEnded

LEMMA StableStep == AeroInv /\ stable_out => AeroInv'
<1> SUFFICES ASSUME AeroInv, stable_out
             PROVE  AeroInv'
  OBVIOUS
<1> DEFINE p == asked.pool
           r == Normal(p, asked.zeroIn)
<1>1. /\ answer = NoAnswer /\ p.stable
      /\ xy' = curve_k(p.reserve0, p.reserve1, p)
      /\ x0' = NormalIn(asked) + r[1] /\ y' = r[2]
      /\ UNCHANGED <<asked, rounds, answer>>
  BY DEF stable_out
<1>2. /\ NormalIn(asked) \in Nat /\ r[1] \in Nat /\ r[2] \in Nat
      /\ curve_k(p.reserve0, p.reserve1, p) = curve_f(r[1], r[2])
  BY <1>1, PoolIs, NormalIs DEF AeroInv
<1>3. PaysToTheCurve'
  BY <1>1 DEF PaysToTheCurve
<1>4. NormalIn(asked)' = NormalIn(asked) /\ r' = r
  BY <1>1 DEF NormalIn, DecimalsIn
<1> QED BY <1>1, <1>2, <1>3, <1>4 DEF AeroInv

\* Where the search ends: the first balance on or above the curve.
LEMMA EndIs ==
    ASSUME NEW a \in Nat, a >= UNIT, NEW b \in Int, NEW c \in Int, c > 0,
           NEW p, p.token0_decimals = UNIT, p.token1_decimals = UNIT, NEW u,
           IF curve_f(a, b) < c THEN curve_k(a, b + 1, p) > c
           ELSE curve_f(a, b) = c \/ curve_f(a, b - 1) < c,
           u = IF curve_f(a, b) < c THEN b + 1 ELSE b
    PROVE  curve_f(a, u) >= c /\ curve_f(a, u - 1) < c
<1> USE Units
<1>1. curve_f(a, b) \in Int
  BY FactorsAre
<1>2. CASE curve_f(a, b) < c
  <2>1. (a * UNIT) \div UNIT = a
    BY DivUnit
  <2>2. ((b + 1) * UNIT) \div UNIT = b + 1
    BY DivUnit, b + 1 \in Int
  <2>3. curve_k(a, b + 1, p) = curve_f(a, b + 1)
    BY <2>1, <2>2 DEF curve_k
  <2>4. u = b + 1 /\ u - 1 = b
    BY <1>2
  <2>5. curve_f(a, u) \in Int
    BY <2>4, FactorsAre
  <2> QED BY <1>1, <1>2, <2>3, <2>4, <2>5
<1>3. CASE ~(curve_f(a, b) < c)
  <2>1. b > 0
    BY <1>1, <1>3, PositiveCurve
  <2>2. curve_f(a, b - 1) < curve_f(a, b)
    BY <2>1, CurveRises
  <2>3. curve_f(a, b - 1) \in Int
    BY FactorsAre
  <2> QED BY <1>1, <1>3, <2>2, <2>3
<1> QED BY <1>2, <1>3

\* The slope is positive, where a step divides by it.
LEMMA SlopeIs ==
    ASSUME NEW a \in Nat, a >= UNIT, NEW b \in Int
    PROVE  curve_d(a, b) \in Nat \ {0}
<1> USE Units
<1> DEFINE bb == (b * b) \div UNIT
           aa == (a * a) \div UNIT
<1>1. bb \in Int /\ bb >= 0
  <2>1. b * b \in Int /\ b * b >= 0 * UNIT
    OBVIOUS
  <2> QED BY <2>1, AtLeast
<1>2. aa \in Int /\ aa >= UNIT
  <2>1. a * a \in Int /\ a * a >= UNIT * a /\ UNIT * a >= UNIT * UNIT
    BY Scaled
  <2> QED BY <2>1, AtLeast, UNIT * UNIT \in Int
<1> HIDE DEF aa, bb
<1>3. (3 * a * bb) \div UNIT \in Int /\ (3 * a * bb) \div UNIT >= 0
  <2>1. 3 * a * bb \in Int /\ 3 * a * bb >= 0 * UNIT
    BY <1>1
  <2> QED BY <2>1, AtLeast
<1>4. (aa * a) \div UNIT \in Int /\ (aa * a) \div UNIT >= 1
  <2>1. aa * a \in Int /\ aa * a >= UNIT * a /\ UNIT * a >= 1 * UNIT
    BY <1>2, Scaled
  <2> QED BY <2>1, AtLeast, UNIT * a \in Int
<1>5. curve_d(a, b) = (3 * a * bb) \div UNIT + (aa * a) \div UNIT
  BY DEF curve_d, aa, bb
<1> QED BY <1>3, <1>4, <1>5

LEMMA NewtonStep == AeroInv /\ NewtonRound => AeroInv'
<1> SUFFICES ASSUME AeroInv, NewtonRound
             PROVE  AeroInv'
  OBVIOUS
<1> USE Units
<1> DEFINE p == asked.pool
           r == Normal(p, asked.zeroIn)
           k == curve_f(x0, y)
           d == curve_d(x0, y)
           miss == IF k < xy THEN xy - k ELSE k - xy
           dy == (miss * UNIT) \div d
           step == IF dy = 0 THEN 1 ELSE dy
           ends == dy = 0 /\ IF k < xy THEN curve_k(x0, y + 1, p) > xy
                             ELSE k = xy \/ curve_f(x0, y - 1) < xy
<1>1. /\ answer = NoAnswer /\ x0 # 0 /\ UNCHANGED <<asked, x0, xy>>
      /\ IF ends THEN /\ y' = IF k < xy THEN y + 1 ELSE y
                      /\ Pay(y')
         ELSE y' = (IF k < xy THEN y + step ELSE y - step) /\ answer' = answer
  BY DEF NewtonRound, RoundedUp
<1>2. asked \in Requests /\ p.stable
  BY <1>1, PoolIs DEF AeroInv
<1>3. NormalIn(asked)' = NormalIn(asked) /\ r' = r /\ p' = p /\ Deep(p)' = Deep(p)
  BY <1>1 DEF NormalIn, DecimalsIn
<1>4. CASE ~Deep(p)
  <2>1. PaysToTheCurve'
    BY <1>3, <1>4 DEF PaysToTheCurve
  <2> QED BY <1>1, <1>2, <1>3, <1>4, <2>1 DEF AeroInv
<1>5. CASE Deep(p)
  <2>1. /\ r[1] \in Nat /\ r[1] >= UNIT /\ r[2] \in Nat /\ r[2] >= UNIT
        /\ NormalIn(asked) \in Nat
        /\ y \in Int /\ x0 = NormalIn(asked) + r[1] /\ xy = curve_f(r[1], r[2])
    BY <1>1, <1>2, <1>5, NormalIs, PoolIs DEF AeroInv
  <2>2. x0 \in Nat /\ x0 >= UNIT
    BY <2>1
  <2>3. xy \in Int /\ xy > 0
    <3>1. curve_f(r[1], r[2] - 1) < curve_f(r[1], r[2])
      BY <2>1, CurveRises
    <3>2. curve_f(r[1], r[2]) \in Int
      BY <2>1, CurveNat
    <3>3. curve_f(r[1], r[2] - 1) \in Int /\ curve_f(r[1], r[2] - 1) >= 0
      <4>1. r[2] - 1 \in Nat
        BY <2>1
      <4> QED BY <2>1, <4>1, CurveNat
    <3> QED BY <2>1, <3>1, <3>2, <3>3
  <2>4. k \in Int /\ d \in Nat \ {0}
    BY <2>1, <2>2, FactorsAre, SlopeIs
  <2>5. y' \in Int
    <3> HIDE DEF k, d
    <3>1. miss * UNIT \in Int
      BY <2>3, <2>4
    <3>2. dy \in Int
      BY <2>4, <3>1, IntDiv
    <3> HIDE DEF dy, ends
    <3> QED BY <1>1, <2>1, <3>2
  <2>6. SearchEnded' => PaysToTheCurve'
    <3>1. SUFFICES ASSUME SearchEnded', answer' # NoAnswer
                   PROVE  PaysToTheCurve'
      BY DEF PaysToTheCurve
    <3>2. p.token0_decimals = UNIT /\ p.token1_decimals = UNIT
      BY <1>1, <1>2, <3>1 DEF SearchEnded
    <3>3. ends /\ Pay(y') /\ y' = IF k < xy THEN y + 1 ELSE y
      BY <1>1, <3>1
    <3>4. curve_f(x0, y') >= xy /\ curve_f(x0, y' - 1) < xy
      BY <2>1, <2>2, <2>3, <3>2, <3>3, EndIs
    <3>5. answer' = ((r[2] - y') * DecimalsOut(asked)) \div UNIT
      BY <3>3 DEF Pay
    <3>6. DecimalsOut(asked)' = DecimalsOut(asked)
      BY <1>1 DEF DecimalsOut
    <3> HIDE DEF r, p
    <3>7. PaysToTheCurve'
      BY <1>1, <1>2, <1>3, <2>1, <3>4, <3>5, <3>6 DEF PaysToTheCurve, Curve, p, r
    <3> QED BY <3>7
  <2> QED BY <1>1, <1>2, <1>3, <2>1, <2>5, <2>6 DEF AeroInv
<1> QED BY <1>4, <1>5

LEMMA GivenUp == AeroInv /\ GivesUp => AeroInv'
<1> SUFFICES ASSUME AeroInv, GivesUp
             PROVE  AeroInv'
  OBVIOUS
<1>1. x0 # 0 /\ y' = 0 /\ UNCHANGED <<asked, x0, xy>>
  BY DEF GivesUp
<1>2. asked \in Requests /\ asked.pool.stable
  BY <1>1, PoolIs DEF AeroInv
<1>3. ~SearchEnded'
  BY <1>1, <1>2 DEF SearchEnded
<1>4. NormalIn(asked)' = NormalIn(asked)
  BY <1>1 DEF NormalIn, DecimalsIn
<1> QED BY <1>1, <1>2, <1>3, <1>4 DEF AeroInv

\* A volatile pool always, and a stable one of two tokens with 18 decimals whenever the search
\* for its balance ends of its own, pays all that the curve allows and not a unit more: from
\* either side, _get_y returns the first balance on or above the curve, all divisions rounding
\* down (aerodrome.rs:81, :97-129).
THEOREM PaidToTheCurve == AeroSpec => [](SearchEnded => PaysToTheCurve)
<1>1. AeroInv /\ UNCHANGED aeroVars => AeroInv'
  BY DEF AeroInv, aeroVars, SearchEnded, PaysToTheCurve, Curve, NormalIn, DecimalsIn,
         DecimalsOut
<1>2. AeroInv /\ [AeroNext]_aeroVars => AeroInv'
  BY <1>1, VolatileStep, StableStep, NewtonStep, GivenUp DEF AeroNext
<1>3. AeroInv => (SearchEnded => PaysToTheCurve)
  BY DEF AeroInv
<1> QED BY <1>2, <1>3, AeroStart, PTL DEF AeroSpec

=============================================================================
