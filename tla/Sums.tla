--------------------------------- MODULE Sums ---------------------------------
(***************************************************************************)
(* Lemmas that several proofs rest on: least elements of sets of numbers   *)
(* and of sets, and sums over finite sets.                                 *)
(*                                                                         *)
(* SumFunctionOnSet takes the elements one by one, as CHOOSE has them.     *)
(* That such a function exists and is the only one is shown by a least     *)
(* counterexample, and so is that the order does not matter.               *)
(***************************************************************************)
EXTENDS Integers, FiniteSetsExt, FiniteSetTheorems, WellFoundedInduction, TLAPS

-----------------------------------------------------------------------------
(* Least elements. *)

LEMMA NatMin ==
    ASSUME NEW T, T \subseteq Nat, T # {}
    PROVE  \E x \in T : \A y \in T : x <= y
<1>1. PICK x \in T : \A y \in T : ~ (<<y, x>> \in OpToRel(<, Nat))
  BY NatLessThanWellFounded, WFMin
<1>2. ASSUME NEW y \in T
      PROVE  x <= y
  <2>1. ~ (y < x)
    BY <1>1 DEF OpToRel
  <2> QED BY <2>1
<1> QED BY <1>2

LEMMA MinOf ==
    ASSUME NEW W \in SUBSET Nat, W # {}
    PROVE  Min(W) \in W /\ \A j \in W : Min(W) <= j
<1>1. \E x \in W : \A y \in W : x <= y
  BY NatMin
<1> QED BY <1>1 DEF Min

LEMMA MaxOf ==
    ASSUME NEW n \in Nat, NEW W \in SUBSET (0..n), W # {}
    PROVE  /\ Max(W) \in W
           /\ \A j \in W : j <= Max(W)
<1> DEFINE T == {n - i : i \in W}
<1>1. PICK x \in T : \A y \in T : x <= y
  <2>1. \A i \in W : n - i \in Nat
    OBVIOUS
  <2>2. T \subseteq Nat /\ T # {}
    BY <2>1
  <2> HIDE DEF T
  <2> QED BY <2>2, NatMin
<1>2. PICK i \in W : x = n - i
  OBVIOUS
<1>3. \A j \in W : n - i <= n - j
  BY <1>1, <1>2
<1>4. \A j \in W : i >= j
  BY <1>3
<1> QED BY <1>4 DEF Max

LEMMA SmallestSet ==
    ASSUME NEW S, IsFiniteSet(S), NEW B, B \subseteq SUBSET S, B # {}
    PROVE  \E s \in B : \A t \in B : t \subseteq s => t = s
<1> DEFINE sizes == {Cardinality(s) : s \in B}
<1>1. ASSUME NEW s \in B
      PROVE  IsFiniteSet(s) /\ Cardinality(s) \in Nat
  <2>1. s \in SUBSET S
    OBVIOUS
  <2>2. IsFiniteSet(s)
    BY <2>1, FS_Subset
  <2> QED BY <2>2, FS_CardinalityType
<1>2. sizes \subseteq Nat /\ sizes # {}
  BY <1>1
<1> HIDE DEF sizes
<1>3. PICK n \in sizes : \A m \in sizes : n <= m
  BY <1>2, NatMin
<1>4. PICK s \in B : n = Cardinality(s)
  BY DEF sizes
<1>5. ASSUME NEW t \in B, t \subseteq s
      PROVE  t = s
  <2>1. Cardinality(s) <= Cardinality(t)
    BY <1>3, <1>4 DEF sizes
  <2>2. t \in SUBSET s /\ IsFiniteSet(s)
    BY <1>1, <1>5
  <2>3. Cardinality(t) <= Cardinality(s) /\ (Cardinality(s) = Cardinality(t) => s = t)
    BY <2>2, FS_Subset
  <2>4. Cardinality(s) \in Nat /\ Cardinality(t) \in Nat
    BY <1>1
  <2> QED BY <2>1, <2>3, <2>4
<1> QED BY <1>4, <1>5

-----------------------------------------------------------------------------
(* Sums. *)

First(s) == CHOOSE x \in s : TRUE

\* g sums up f over each subset of S.
Sums(f, S, g) ==
    g = [s \in SUBSET S |-> IF s = {} THEN 0 ELSE f[First(s)] + g[s \ {First(s)}]]

LEMMA SumIs ==
    ASSUME NEW f, NEW S
    PROVE  SumFunctionOnSet(f, S) = (CHOOSE g : Sums(f, S, g))[S]
BY DEF SumFunctionOnSet, FoldFunctionOnSet, MapThenFoldSet, Sums, First

LEMMA SumsUnique ==
    ASSUME NEW f, NEW S, IsFiniteSet(S), NEW T \in SUBSET S, NEW g, NEW h,
           Sums(f, S, g), Sums(f, T, h)
    PROVE  g[T] = h[T]
<1> DEFINE B == {s \in SUBSET T : g[s] # h[s]}
<1> SUFFICES ASSUME B # {}
             PROVE  FALSE
  OBVIOUS
<1>1. IsFiniteSet(T)
  BY FS_Subset
<1>2. PICK s \in B : \A t \in B : t \subseteq s => t = s
  <2>1. B \subseteq SUBSET T
    OBVIOUS
  <2> HIDE DEF B
  <2> QED BY <1>1, <2>1, SmallestSet
<1>3. s # {} => First(s) \in s
  BY DEF First
<1>4. s # {} => g[s \ {First(s)}] = h[s \ {First(s)}]
  BY <1>2, <1>3
<1>5. s \in SUBSET S /\ s \in SUBSET T
  OBVIOUS
<1>6. /\ g[s] = IF s = {} THEN 0 ELSE f[First(s)] + g[s \ {First(s)}]
      /\ h[s] = IF s = {} THEN 0 ELSE f[First(s)] + h[s \ {First(s)}]
  BY <1>5 DEF Sums
<1> QED BY <1>4, <1>6

LEMMA SumsExist ==
    ASSUME NEW f, NEW S, IsFiniteSet(S)
    PROVE  \E g : Sums(f, S, g)
<1> DEFINE B == {T \in SUBSET S : ~ \E g : Sums(f, T, g)}
<1> SUFFICES ASSUME B # {}
             PROVE  FALSE
  OBVIOUS
<1>1. PICK T \in B : \A t \in B : t \subseteq T => t = T
  <2>1. B \subseteq SUBSET S
    OBVIOUS
  <2> HIDE DEF B
  <2> QED BY <2>1, SmallestSet
<1>2. IsFiniteSet(T)
  BY FS_Subset
<1> DEFINE next(s) == s \ {First(s)}
           h == [s \in SUBSET T |->
                    IF s = {} THEN 0 ELSE f[First(s)] + SumFunctionOnSet(f, next(s))]
<1>3. ASSUME NEW u \in SUBSET T, u # T
      PROVE  h[u] = SumFunctionOnSet(f, u)
  <2>1. \E g : Sums(f, u, g)
    <3>1. u \notin B /\ u \in SUBSET S
      BY <1>1, <1>3
    <3> QED BY <3>1
  <2>2. PICK g : Sums(f, u, g) /\ SumFunctionOnSet(f, u) = g[u]
    BY <2>1, SumIs
  <2>3. g[u] = IF u = {} THEN 0 ELSE f[First(u)] + g[next(u)]
    BY <2>2 DEF Sums
  <2>4. CASE u # {}
    <3>1. First(u) \in u
      BY <2>4 DEF First
    <3>2. next(u) \in SUBSET T /\ next(u) \in SUBSET u /\ next(u) # T
      BY <3>1
    <3>3. \E k : Sums(f, next(u), k)
      <4>1. next(u) \notin B /\ next(u) \in SUBSET S
        BY <1>1, <3>2
      <4> HIDE DEF next
      <4> QED BY <4>1
    <3>4. PICK k : Sums(f, next(u), k) /\ SumFunctionOnSet(f, next(u)) = k[next(u)]
      BY <3>3, SumIs
    <3>5. IsFiniteSet(u)
      BY <1>2, FS_Subset
    <3>6. g[next(u)] = k[next(u)]
      BY <2>2, <3>2, <3>4, <3>5, SumsUnique
    <3> QED BY <2>2, <2>3, <2>4, <3>4, <3>6
  <2> QED BY <2>2, <2>3, <2>4
<1>4. ASSUME NEW s \in SUBSET T, s # {}
      PROVE  h[next(s)] = SumFunctionOnSet(f, next(s))
  <2>1. First(s) \in s
    BY <1>4 DEF First
  <2>2. next(s) \in SUBSET T /\ next(s) # T
    BY <2>1
  <2> QED BY <1>3, <2>2
<1>5. Sums(f, T, h)
  BY <1>4 DEF Sums
<1> QED BY <1>5

LEMMA SumByFirst ==
    ASSUME NEW f, NEW S, IsFiniteSet(S)
    PROVE  SumFunctionOnSet(f, S)
               = IF S = {} THEN 0
                 ELSE f[First(S)] + SumFunctionOnSet(f, S \ {First(S)})
<1>1. PICK g : Sums(f, S, g) /\ SumFunctionOnSet(f, S) = g[S]
  BY SumsExist, SumIs
<1>2. g[S] = IF S = {} THEN 0 ELSE f[First(S)] + g[S \ {First(S)}]
  BY <1>1 DEF Sums
<1> DEFINE T == S \ {First(S)}
<1>3. T \in SUBSET S /\ IsFiniteSet(T)
  BY FS_Subset
<1> HIDE DEF T
<1>4. PICK h : Sums(f, T, h) /\ SumFunctionOnSet(f, T) = h[T]
  BY <1>3, SumsExist, SumIs
<1>5. g[T] = h[T]
  BY <1>1, <1>3, <1>4, SumsUnique
<1> QED BY <1>1, <1>2, <1>4, <1>5 DEF T

\* The order in which the elements are taken does not matter.
LEMMA SumRemove ==
    ASSUME NEW f, NEW S, IsFiniteSet(S), \A y \in S : f[y] \in Int, NEW x \in S
    PROVE  /\ SumFunctionOnSet(f, S) \in Int
           /\ SumFunctionOnSet(f, S) = f[x] + SumFunctionOnSet(f, S \ {x})
<1> DEFINE Sum(s) == SumFunctionOnSet(f, s)
           Good(s) == Sum(s) \in Int /\ \A y \in s : Sum(s) = f[y] + Sum(s \ {y})
           B == {s \in SUBSET S : ~ Good(s)}
<1>1. B = {}
  <2> SUFFICES ASSUME B # {}
               PROVE  FALSE
    OBVIOUS
  <2>1. PICK s \in B : \A t \in B : t \subseteq s => t = s
    <3>1. B \subseteq SUBSET S
      OBVIOUS
    <3> HIDE DEF B
    <3> QED BY <3>1, SmallestSet
  <2>2. s \in SUBSET S /\ IsFiniteSet(s) /\ \A y \in s : f[y] \in Int
    BY <2>1, FS_Subset
  <2>3. \A t \in SUBSET s : t # s => Good(t)
    <3> SUFFICES ASSUME NEW t \in SUBSET s, t # s
                 PROVE  Good(t)
      OBVIOUS
    <3>1. t \notin B /\ t \in SUBSET S
      BY <2>1, <2>2
    <3> QED BY <3>1
  <2> DEFINE c == First(s)
  <2>4. CASE s = {}
    <3>1. Sum(s) = 0
      BY <2>2, <2>4, SumByFirst
    <3> QED BY <2>1, <2>4, <3>1
  <2>5. CASE s # {}
    <3>1. c \in s
      BY <2>5 DEF First
    <3>2. Sum(s) = f[c] + Sum(s \ {c})
      BY <2>2, <2>5, SumByFirst
    <3> HIDE DEF c, Sum
    <3>3. Sum(s \ {c}) \in Int /\ f[c] \in Int
      BY <2>2, <2>3, <3>1
    <3>4. ASSUME NEW y \in s, y # c
          PROVE  Sum(s) = f[y] + Sum(s \ {y})
      <4>1. Sum(s \ {c}) = f[y] + Sum((s \ {c}) \ {y})
        BY <2>3, <3>1, <3>4
      <4>2. Sum(s \ {y}) = f[c] + Sum((s \ {y}) \ {c})
        BY <2>3, <3>1, <3>4
      <4>3. (s \ {c}) \ {y} = (s \ {y}) \ {c} /\ (s \ {c}) \ {y} # s
        BY <3>1
      <4>4. Sum((s \ {c}) \ {y}) \in Int /\ f[y] \in Int
        BY <2>2, <2>3, <4>3
      <4>5. Sum((s \ {y}) \ {c}) = Sum((s \ {c}) \ {y})
        BY <4>3
      <4> QED BY <3>2, <3>3, <4>1, <4>2, <4>4, <4>5
    <3>5. Good(s)
      BY <3>2, <3>3, <3>4
    <3> QED BY <2>1, <3>5
  <2> QED BY <2>4, <2>5
<1>2. Good(S)
  BY <1>1
<1> QED BY <1>2

LEMMA SumOfNone == ASSUME NEW f PROVE SumFunctionOnSet(f, {}) = 0
BY SumByFirst, FS_EmptySet

LEMMA SumInt ==
    ASSUME NEW f, NEW S, IsFiniteSet(S), \A y \in S : f[y] \in Int
    PROVE  SumFunctionOnSet(f, S) \in Int
<1>1. CASE S = {}
  BY <1>1, SumOfNone
<1>2. CASE S # {}
  BY <1>2, SumRemove
<1> QED BY <1>1, <1>2

LEMMA SumUnion ==
    ASSUME NEW f, NEW S, IsFiniteSet(S), \A y \in S : f[y] \in Int,
           NEW T \in SUBSET S, NEW U \in SUBSET S, T \cap U = {}
    PROVE  SumFunctionOnSet(f, T \cup U) = SumFunctionOnSet(f, T) + SumFunctionOnSet(f, U)
<1> DEFINE Sum(s) == SumFunctionOnSet(f, s)
           B == {t \in SUBSET T : Sum(t \cup U) # Sum(t) + Sum(U)}
<1>1. ASSUME NEW s \in SUBSET S
      PROVE  IsFiniteSet(s) /\ Sum(s) \in Int /\ \A y \in s : Sum(s) = f[y] + Sum(s \ {y})
  <2>1. IsFiniteSet(s) /\ \A y \in s : f[y] \in Int
    BY FS_Subset
  <2> QED BY <2>1, SumInt, SumRemove
<1>2. SUFFICES ASSUME B # {}
               PROVE  FALSE
  OBVIOUS
<1>3. PICK s \in B : \A t \in B : t \subseteq s => t = s
  <2>1. B \subseteq SUBSET T /\ IsFiniteSet(T)
    BY <1>1
  <2> HIDE DEF B
  <2> QED BY <1>2, <2>1, SmallestSet
<1>4. s # {}
  <2>1. Sum({}) = 0 /\ Sum(U) \in Int
    BY <1>1, SumOfNone
  <2>2. Sum({} \cup U) = Sum({}) + Sum(U)
    BY <2>1
  <2> QED BY <1>3, <2>2
<1>5. PICK x \in s : TRUE
  BY <1>4
<1> DEFINE r == s \ {x}
<1>6. r \in SUBSET S /\ r \cup U \in SUBSET S /\ s \cup U \in SUBSET S /\ s \in SUBSET S
      /\ x \in s \cup U /\ (s \cup U) \ {x} = r \cup U /\ f[x] \in Int
  BY <1>3, <1>5
<1>7. Sum(r \cup U) = Sum(r) + Sum(U)
  <2>1. r \notin B /\ r \in SUBSET T
    BY <1>3, <1>5
  <2> QED BY <2>1
<1> HIDE DEF Sum
<1>8. Sum(s) = f[x] + Sum(r) /\ Sum(s \cup U) = f[x] + Sum(r \cup U)
  BY <1>1, <1>5, <1>6
<1>9. Sum(r) \in Int /\ Sum(U) \in Int
  BY <1>1, <1>6
<1>10. Sum(s \cup U) = Sum(s) + Sum(U)
  BY <1>6, <1>7, <1>8, <1>9
<1> QED BY <1>3, <1>10

LEMMA SumNat ==
    ASSUME NEW f, NEW S, IsFiniteSet(S), \A y \in S : f[y] \in Nat
    PROVE  SumFunctionOnSet(f, S) \in Nat
<1> DEFINE Sum(s) == SumFunctionOnSet(f, s)
           B == {s \in SUBSET S : Sum(s) \notin Nat}
<1>1. SUFFICES ASSUME B # {}
               PROVE  FALSE
  BY DEF B
<1>2. PICK s \in B : \A t \in B : t \subseteq s => t = s
  <2>1. B \subseteq SUBSET S
    OBVIOUS
  <2> HIDE DEF B
  <2> QED BY <1>1, <2>1, SmallestSet
<1>3. s \in SUBSET S /\ IsFiniteSet(s)
  BY <1>2, FS_Subset
<1>4. s # {}
  <2>1. Sum({}) \in Nat
    BY SumOfNone
  <2> QED BY <1>2, <2>1
<1>5. PICK x \in s : TRUE
  BY <1>4
<1>6. Sum(s) = f[x] + Sum(s \ {x})
  BY <1>3, SumRemove
<1>7. Sum(s \ {x}) \in Nat
  <2>1. s \ {x} \notin B /\ s \ {x} \in SUBSET S
    BY <1>2, <1>3, <1>5
  <2> QED BY <2>1
<1> HIDE DEF Sum
<1>8. Sum(s) \in Nat
  BY <1>3, <1>6, <1>7
<1> QED BY <1>2, <1>8 DEF Sum

=============================================================================
