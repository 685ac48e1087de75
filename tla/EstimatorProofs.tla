--------------------------- MODULE EstimatorProofs ---------------------------
(***************************************************************************)
(* Proofs about Estimator for every set of pools, all reserves and any     *)
(* number of batches: types, which pools are rated, and both halves of     *)
(* what the searcher's filter is worth.                                    *)
(*                                                                         *)
(* The rates of a pool with WETH are those of its present reserves, since  *)
(* the pools with new reserves are in the batch.  The rest is arithmetic:  *)
(* there and back through one pool never gains, and the output per input   *)
(* falls with the input, so that the estimate, a chord, is above the curve *)
(* from where a profit begins.                                             *)
(***************************************************************************)
EXTENDS Estimator, Sums

-----------------------------------------------------------------------------
(* Arithmetic. *)

LEMMA DivBounds ==
    ASSUME NEW n \in Nat, NEW m \in Nat \ {0}
    PROVE  n \div m \in Nat /\ (n \div m) * m <= n /\ n < (n \div m) * m + m
OBVIOUS

LEMMA MulMono ==
    ASSUME NEW a \in Nat, NEW b \in Nat, NEW c \in Nat, a <= b
    PROVE  a * c <= b * c
OBVIOUS

LEMMA MulCancel ==
    ASSUME NEW a \in Nat, NEW b \in Nat, NEW c \in Nat \ {0}, a * c <= b * c
    PROVE  a <= b
OBVIOUS

\* A swap of x gives y: both bounds of the division.
Gives(x, in, out, y) ==
    /\ y * (in * 1000 + x * 997) <= x * 997 * out
    /\ x * 997 * out < (y + 1) * (in * 1000 + x * 997)

LEMMA WayBack ==
    ASSUME NEW x \in Nat, NEW r0 \in Nat \ {0}, NEW r1 \in Nat \ {0}, NEW u \in Nat, NEW v \in Nat,
           Gives(x, r0, r1, u), Gives(u, r1, r0, v)
    PROVE  v <= x
<1>1. u * r0 * 1000 <= x * r1 * 997
  <2>1. u * (r0 * 1000 + x * 997) = u * r0 * 1000 + u * x * 997
    OBVIOUS
  <2>2. u * x \in Nat /\ u * r0 \in Nat /\ x * 997 * r1 = x * r1 * 997
    OBVIOUS
  <2> QED BY <2>1, <2>2 DEF Gives
<1>2. v * r1 * 1000 <= u * r0 * 997
  <2>1. v * (r1 * 1000 + u * 997) = v * r1 * 1000 + v * u * 997
    OBVIOUS
  <2>2. v * u \in Nat /\ v * r1 \in Nat /\ u * 997 * r0 = u * r0 * 997
    OBVIOUS
  <2> QED BY <2>1, <2>2 DEF Gives
<1>3. v * r1 <= x * r1
  <2>1. u * r0 \in Nat /\ x * r1 \in Nat /\ v * r1 \in Nat
    OBVIOUS
  <2> QED BY <1>1, <1>2, <2>1
<1> QED BY <1>3, MulCancel

\* The more goes in, the more comes out.
LEMMA MoreOut ==
    ASSUME NEW in \in Nat \ {0}, NEW out \in Nat \ {0}, NEW x \in Nat, NEW x2 \in Nat, x <= x2,
           NEW y \in Nat, NEW y2 \in Nat, Gives(x, in, out, y), Gives(x2, in, out, y2)
    PROVE  y <= y2
<1> DEFINE k == in * 1000
<1>1. k \in Nat \ {0}
  OBVIOUS
<1>2. /\ y * (k + x * 997) <= x * 997 * out
      /\ x2 * 997 * out < (y2 + 1) * (k + x2 * 997)
  BY DEF Gives
<1> HIDE DEF k
<1>3. y <= out
  <2> SUFFICES ASSUME y > out
               PROVE  FALSE
    OBVIOUS
  <2>1. y * k > 0 /\ y * (x * 997) >= out * (x * 997)
    BY <1>1
  <2>2. y * (k + x * 997) = y * k + y * (x * 997) /\ out * (x * 997) = x * 997 * out
    BY <1>1
  <2> QED BY <1>1, <1>2, <2>1, <2>2
<1>4. y * k <= x * 997 * (out - y)
  BY <1>1, <1>2
<1>5. x * 997 * (out - y) <= x2 * 997 * (out - y)
  BY <1>3
<1>6. y * k <= x2 * 997 * (out - y)
  <2>1. y * k \in Int /\ x * 997 * (out - y) \in Int /\ x2 * 997 * (out - y) \in Int
    BY <1>1
  <2> QED BY <1>4, <1>5, <2>1
<1>7. y * (k + x2 * 997) <= x2 * 997 * out
  BY <1>1, <1>6
<1>8. y * (k + x2 * 997) < (y2 + 1) * (k + x2 * 997)
  BY <1>1, <1>2, <1>7
<1> QED BY <1>1, <1>8

\* The output per input falls with the input.
LEMMA Chord ==
    ASSUME NEW in \in Nat \ {0}, NEW out \in Nat \ {0}, NEW u \in Nat \ {0}, NEW y \in Nat, u <= y,
           NEW v \in Nat, NEW z \in Nat, Gives(u, in, out, v), Gives(y, in, out, z)
    PROVE  z * u < y * (v + 1)
<1> DEFINE c == in * 1000 + u * 997
           d == in * 1000 + y * 997
           m == y * 997 * out
           n == u * 997 * out
<1>1. c \in Nat \ {0} /\ d \in Nat \ {0} /\ c <= d /\ m \in Nat /\ n \in Nat /\ m * u = y * n
  OBVIOUS
<1>2. z * d <= m /\ n < (v + 1) * c
  BY DEF Gives
<1> HIDE DEF c, d, m, n
<1>3. (z * d) * u <= m * u
  BY <1>1, <1>2
<1>4. y * n < y * ((v + 1) * c)
  BY <1>1, <1>2
<1>5. y * ((v + 1) * c) <= y * ((v + 1) * d)
  BY <1>1
<1>6. (z * u) * d < (y * (v + 1)) * d
  <2>1. (z * d) * u = (z * u) * d /\ y * ((v + 1) * d) = (y * (v + 1)) * d
    BY <1>1
  <2>2. (z * d) * u \in Int /\ m * u \in Int /\ y * n \in Int /\ y * ((v + 1) * c) \in Int
        /\ y * ((v + 1) * d) \in Int
    BY <1>1
  <2> QED BY <1>1, <1>3, <1>4, <1>5, <2>1, <2>2
<1> QED BY <1>1, <1>6

-----------------------------------------------------------------------------
(* The estimate: A goes in, S is the scale, Y and U the scaled quotes of the two pools, and v
   what the way back through the second one gives. *)

Amount(A, S, Y) == (A * ((Y * S) \div A)) \div S
Estimate(A, S, Y, U, v) == (Amount(A, S, Y) * ((v * S) \div U)) \div S

LEMMA AmountBounds ==
    ASSUME NEW S \in Nat \ {0}, NEW A \in 1..S, NEW Y \in Nat
    PROVE  Amount(A, S, Y) \in Nat /\ Amount(A, S, Y) <= Y /\ Y <= Amount(A, S, Y) + 1
<1> DEFINE r == (Y * S) \div A
           a == (A * r) \div S
<1>1. Y * S \in Nat /\ A \in Nat \ {0}
  OBVIOUS
<1>2. r \in Nat /\ r * A <= Y * S /\ Y * S < r * A + A
  BY <1>1, DivBounds
<1>3. a = Amount(A, S, Y)
  BY DEF Amount
<1> HIDE DEF r
<1>4. A * r \in Nat /\ A * r = r * A
  BY <1>2
<1>5. a \in Nat /\ a * S <= A * r /\ A * r < a * S + S
  BY <1>4, DivBounds
<1> HIDE DEF a
<1>6. a * S <= Y * S
  BY <1>1, <1>2, <1>4, <1>5
<1>7. Y * S < (a + 2) * S
  <2>1. (a + 2) * S = a * S + 2 * S /\ a * S \in Nat
    BY <1>5
  <2> QED BY <1>1, <1>2, <1>4, <1>5, <2>1
<1> QED BY <1>3, <1>5, <1>6, <1>7

\* At most v goes up as the quotes do.
LEMMA AtMost ==
    ASSUME NEW S \in Nat \ {0}, NEW A \in 1..S, NEW Y \in Nat, NEW U \in Nat \ {0},
           NEW v \in Nat
    PROVE  Estimate(A, S, Y, U, v) \in Nat /\ Estimate(A, S, Y, U, v) * U <= Y * v
<1> DEFINE a == Amount(A, S, Y)
           r == (v * S) \div U
           e == (a * r) \div S
<1>1. a \in Nat /\ a <= Y
  BY AmountBounds
<1>2. v * S \in Nat
  OBVIOUS
<1>3. r \in Nat /\ r * U <= v * S
  BY <1>2, DivBounds
<1>4. e = Estimate(A, S, Y, U, v)
  BY DEF Estimate
<1> HIDE DEF a, r
<1>5. a * r \in Nat
  BY <1>1, <1>3
<1>6. e \in Nat /\ e * S <= a * r
  BY <1>5, DivBounds
<1> HIDE DEF e
<1>7. (e * S) * U <= (a * r) * U
  BY <1>5, <1>6
<1>8. a * (r * U) <= a * (v * S)
  BY <1>1, <1>2, <1>3
<1>9. a * (v * S) <= Y * (v * S)
  BY <1>1, <1>2
<1>10. (e * U) * S <= (Y * v) * S
  <2>1. (e * S) * U = (e * U) * S /\ (a * r) * U = a * (r * U) /\ Y * (v * S) = (Y * v) * S
    BY <1>1, <1>3, <1>6
  <2>2. (e * S) * U \in Int /\ (a * r) * U \in Int /\ a * (v * S) \in Int /\ Y * (v * S) \in Int
    BY <1>1, <1>3, <1>6
  <2> QED BY <1>7, <1>8, <1>9, <2>1, <2>2
<1>11. e * U <= Y * v
  BY <1>6, <1>10
<1> QED BY <1>4, <1>6, <1>11

LEMMA NotMadeUp ==
    ASSUME NEW S \in Nat \ {0}, NEW A \in 1..S, NEW Y \in Nat, NEW U \in Nat \ {0},
           NEW v \in Nat, Estimate(A, S, Y, U, v) > v
    PROVE  Y > U
<1> DEFINE e == Estimate(A, S, Y, U, v)
<1>1. e \in Nat /\ e * U <= Y * v /\ e > v
  BY AtMost
<1> HIDE DEF e
<1> SUFFICES ASSUME Y <= U
             PROVE  FALSE
  OBVIOUS
<1>2. Y * v <= U * v
  OBVIOUS
<1>3. U * v < U * e
  BY <1>1
<1> QED BY <1>1, <1>2, <1>3

LEMMA NotMissed ==
    ASSUME NEW S \in Nat \ {0}, NEW A \in 1..S, NEW Y \in Nat, NEW U \in Nat \ {0},
           NEW v \in Nat, NEW z \in Nat, z * U < Y * (v + 1)
    PROVE  z <= Estimate(A, S, Y, U, v) + (2 + (Y + v) \div U + Y \div S)
<1> DEFINE a == Amount(A, S, Y)
           r == (v * S) \div U
           e == (a * r) \div S
           b == (Y + v) \div U
           c == Y \div S
<1>1. a \in Nat /\ Y - 1 <= a
  BY AmountBounds
<1>2. v * S \in Nat /\ Y + v \in Nat
  OBVIOUS
<1>3. r \in Nat /\ v * S < r * U + U
  BY <1>2, DivBounds
<1>4. e = Estimate(A, S, Y, U, v)
  BY DEF Estimate
<1>5. b \in Nat /\ Y + v < b * U + U
  BY <1>2, DivBounds
<1>6. c \in Nat /\ Y < c * S + S
  BY DivBounds
<1> HIDE DEF a, r, b, c
<1>7. a * r \in Nat
  BY <1>1, <1>3
<1>8. e \in Nat /\ a * r < e * S + S
  BY <1>7, DivBounds
<1> HIDE DEF e
<1>9. Y >= 1
  <2>1. z * U >= 0 /\ (Y = 0 => Y * (v + 1) = 0)
    OBVIOUS
  <2> QED BY <2>1
<1>10. (a * r) * U < (e * S + S) * U
  BY <1>7, <1>8
<1>11. (Y - 1) * (r * U) <= a * (r * U)
  BY <1>1, <1>3
<1>12. (Y - 1) * (v * S - U) <= (Y - 1) * (r * U)
  BY <1>2, <1>3, <1>9
<1>13. (z * U) * S < (Y * (v + 1)) * S
  OBVIOUS
<1>14. (Y + v) * S < (b * U + U) * S
  BY <1>5
<1>15. Y * U < (c * S + S) * U
  BY <1>6
<1> DEFINE q == S * U
<1>16. /\ (a * r) * U = a * (r * U)
       /\ (e * S + S) * U = (e + 1) * q
       /\ (Y - 1) * (v * S - U) = Y * v * S - Y * U - v * S + U
       /\ (z * U) * S = z * q
       /\ (Y * (v + 1)) * S = Y * v * S + Y * S
       /\ (Y + v) * S = Y * S + v * S
       /\ (b * U + U) * S = (b + 1) * q
       /\ (c * S + S) * U = (c + 1) * q
  BY <1>1, <1>3, <1>5, <1>6, <1>8
<1>17. q \in Nat \ {0}
  OBVIOUS
<1>18. z * q < (e + b + c + 3) * q
  <2>1. /\ (a * r) * U \in Int /\ (Y - 1) * (r * U) \in Int /\ Y * v * S \in Int /\ Y * U \in Int
        /\ v * S \in Int /\ Y * S \in Int /\ z * q \in Int /\ (e + 1) * q \in Int
        /\ (b + 1) * q \in Int /\ (c + 1) * q \in Int
    BY <1>1, <1>3, <1>5, <1>6, <1>8
  <2> HIDE DEF q
  <2>2. (e + b + c + 3) * q = (e + 1) * q + (b + 1) * q + (c + 1) * q
    BY <1>5, <1>6, <1>8, <1>17
  <2> QED BY <1>10, <1>11, <1>12, <1>13, <1>14, <1>15, <1>16, <2>1, <2>2
<1>19. z < e + b + c + 3
  <2> HIDE DEF q
  <2> QED BY <1>5, <1>6, <1>8, <1>17, <1>18
<1> QED BY <1>4, <1>5, <1>6, <1>8, <1>19 DEF b, c

-----------------------------------------------------------------------------
(* The operators of the estimator. *)

Scales == {RATE_SCALE} \cup {Decimals[t] : t \in Tokens}

LEMMA Scaled ==
    ASSUME NEW x \in Nat, NEW d \in Scales
    PROVE  /\ scale_to_rate(x, d) \in Nat
           /\ scale_to_rate(x, RATE_SCALE) = x
           /\ \A y \in Nat : x <= y => scale_to_rate(x, d) <= scale_to_rate(y, d)
           /\ d <= RATE_SCALE =>
                 \E k \in Nat \ {0} : \A y \in Nat : scale_to_rate(y, d) = y * k
<1>1. d \in Nat /\ RATE_SCALE \in Nat
  BY EstimatorAssumption DEF Scales
<1>2. scale_to_rate(x, RATE_SCALE) = x
  <2>1. RATE_SCALE - RATE_SCALE = 0 /\ 10 ^ 0 = 1
    BY <1>1
  <2> QED BY <1>1, <2>1 DEF scale_to_rate
<1>3. CASE d <= RATE_SCALE
  <2> DEFINE k == 10 ^ (RATE_SCALE - d)
  <2>1. k \in Nat \ {0}
    BY <1>1, <1>3, PowersOfTen DEF Scales
  <2>2. \A y \in Nat : scale_to_rate(y, d) = y * k
    BY <1>1, <1>3 DEF scale_to_rate
  <2> HIDE DEF k
  <2>3. scale_to_rate(x, d) \in Nat
    BY <2>1, <2>2
  <2>4. ASSUME NEW y \in Nat, x <= y
        PROVE  scale_to_rate(x, d) <= scale_to_rate(y, d)
    <3>1. x * k <= y * k
      BY <2>1, <2>4, MulMono
    <3> QED BY <2>2, <3>1
  <2> QED BY <1>2, <2>1, <2>2, <2>3, <2>4
<1>4. CASE d > RATE_SCALE
  <2> DEFINE k == 10 ^ (d - RATE_SCALE)
  <2>1. k \in Nat \ {0}
    BY <1>1, <1>4, PowersOfTen DEF Scales
  <2>2. \A y \in Nat : scale_to_rate(y, d) = y \div k
    BY <1>1, <1>4 DEF scale_to_rate
  <2> HIDE DEF k
  <2>3. x \div k \in Nat /\ \A y \in Nat : x <= y => x \div k <= y \div k
    BY <2>1
  <2> HIDE DEF k
  <2>4. scale_to_rate(x, d) \in Nat
    BY <2>2, <2>3
  <2>5. \A y \in Nat : x <= y => scale_to_rate(x, d) <= scale_to_rate(y, d)
    BY <2>2, <2>3
  <2> QED BY <1>1, <1>2, <1>4, <2>4, <2>5
<1> QED BY <1>1, <1>3, <1>4

Good(rs) == rs \in [Pools -> Nat \X Nat] /\ \A p \in Pools : rs[p] \in Reserves[p]

ReserveIn(rs, p, t)  == IF t = Token0[p] THEN rs[p][1] ELSE rs[p][2]
ReserveOut(rs, p, t) == IF t = Token0[p] THEN rs[p][2] ELSE rs[p][1]

LEMMA PoolOutput ==
    ASSUME NEW rs, Good(rs), NEW p \in Pools, NEW t, NEW x \in Nat
    PROVE  /\ ReserveIn(rs, p, t) \in Nat \ {0} /\ ReserveOut(rs, p, t) \in Nat \ {0}
           /\ compute_pool_output(rs, p, t, x) \in Nat
           /\ Gives(x, ReserveIn(rs, p, t), ReserveOut(rs, p, t), compute_pool_output(rs, p, t, x))
<1> DEFINE in  == ReserveIn(rs, p, t)
           out == ReserveOut(rs, p, t)
           n   == x * 997 * out
           m   == in * 1000 + x * 997
<1>1. in \in Nat \ {0} /\ out \in Nat \ {0}
  <2>1. rs[p] \in (Nat \ {0}) \X (Nat \ {0})
    BY EstimatorAssumption DEF Good
  <2> QED BY <2>1 DEF ReserveIn, ReserveOut
<1>2. compute_pool_output(rs, p, t, x) = n \div m
  BY DEF compute_pool_output, ReserveIn, ReserveOut
<1>3. Gives(x, in, out, n \div m) <=> (n \div m) * m <= n /\ n < (n \div m + 1) * m
  BY DEF Gives
<1> HIDE DEF in, out
<1>4. n \in Nat /\ m \in Nat \ {0}
  BY <1>1
<1> HIDE DEF n, m
<1>5. n \div m \in Nat /\ (n \div m) * m <= n /\ n < (n \div m) * m + m
  BY <1>4, DivBounds
<1>6. n < (n \div m + 1) * m
  BY <1>4, <1>5
<1> QED BY <1>1, <1>2, <1>3, <1>5, <1>6 DEF in, out

LEMMA ScaleType == RATE_SCALE_VALUE \in Nat \ {0} /\ AMOUNT \in 1..RATE_SCALE_VALUE
<1>1. RATE_SCALE \in Nat /\ RATE_SCALE - 0 = RATE_SCALE /\ 0 <= RATE_SCALE
  BY EstimatorAssumption
<1>2. 10 ^ (RATE_SCALE - 0) \in Nat \ {0}
  BY <1>1, PowersOfTen
<1> QED BY <1>1, <1>2, EstimatorAssumption DEF RATE_SCALE_VALUE

LEMMA RateType ==
    ASSUME NEW x \in Nat, NEW y \in Nat, NEW t \in Tokens, NEW u \in Tokens
    PROVE  calculate_rate(x, y, t, u) \in Nat
<1>1. RATE_SCALE_VALUE \in Nat
  BY ScaleType
<1>2. token_decimals(t) \in Scales /\ token_decimals(u) \in Scales
  BY DEF token_decimals, Scales
<1>3. scale_to_rate(x, token_decimals(t)) \in Nat /\ scale_to_rate(y, token_decimals(u)) \in Nat
  BY <1>2, Scaled
<1> QED BY <1>1, <1>3 DEF calculate_rate, CheckedDiv

LEMMA TokensOfPools ==
    ASSUME NEW p \in Pools
    PROVE  /\ TokensOf(p) \subseteq Tokens /\ Token0[p] \in TokensOf(p)
           /\ \A t \in TokensOf(p) : Other(p, t) \in TokensOf(p)
           /\ IsEthPool(p) => Alt(p) \in Tokens
BY DEF TokensOf, Tokens, Other, IsEthPool, Alt

LEMMA RatesType ==
    ASSUME NEW rs, Good(rs), NEW p \in Pools, NEW t \in TokensOf(p), NEW x \in Nat
    PROVE  OutRate(rs, p, t, x) \in Nat /\ BackRate(rs, p, t, x) \in Nat
<1>1. t \in Tokens /\ Other(p, t) \in Tokens
  BY TokensOfPools
<1>2. Out(rs, p, t, x) \in Nat
  BY PoolOutput DEF Out
<1>3. Back(rs, p, t, x) \in Nat
  BY <1>2, PoolOutput DEF Back
<1> QED BY <1>1, <1>2, <1>3, RateType DEF OutRate, BackRate

LEMMA EthRates ==
    ASSUME NEW rs, Good(rs), NEW p \in Pools, IsEthPool(p)
    PROVE  process_eth_pool(rs, p) \in [TokensOf(p) -> Nat]
<1>1. AMOUNT \in Nat
  BY EstimatorAssumption
<1>2. WETH \in TokensOf(p)
  BY DEF IsEthPool
<1>3. OutRate(rs, p, WETH, AMOUNT) \in Nat /\ BackRate(rs, p, WETH, AMOUNT) \in Nat
  BY <1>1, <1>2, RatesType
<1> QED BY <1>3 DEF process_eth_pool, StoreRates

-----------------------------------------------------------------------------
(* The invariant. *)

FreshInv ==
    batches > 0 => \A p \in Pools : IsEthPool(p) => rates[p] = process_eth_pool(reserves, p)

AggregateInv ==
    \A t \in Tokens :
        aggregated_weth_rate[t] # NoRate <=> batches > 0 /\ EthPoolsOf(Pools, t) # {}

UnratedInv == batches = 0 => \A p \in Pools : rates[p][Token0[p]] = NoRate

EInv == TypeOK /\ Good(reserves) /\ FreshInv /\ AggregateInv /\ UnratedInv /\ RatedPools

\* One batch: the pools ps are rated with the reserves rs, and the rest has not changed.
LEMMA Processed ==
    ASSUME TypeOK, AggregateInv, UnratedInv, RatedPools, NEW rs, Good(rs), NEW ps \in SUBSET Pools,
           process_pools(rs, ps), batches > 0 \/ ps = Pools, batches' > 0, reserves' = rs,
           \A p \in Pools \ ps : IsEthPool(p) => rates[p] = process_eth_pool(rs, p)
    PROVE  /\ DOMAIN rates' = Pools
           /\ \A p \in Pools : rates'[p] \in [TokensOf(p) -> Nat \cup {NoRate}]
           /\ aggregated_weth_rate' \in [Tokens -> Nat \cup {NoRate}]
           /\ FreshInv' /\ AggregateInv' /\ RatedPools'
<1> DEFINE eth == [p \in Pools |-> IF p \in EthPools(ps) THEN process_eth_pool(rs, p) ELSE rates[p]]
           agg == Aggregate(aggregated_weth_rate, eth, ps)
           all == [p \in Pools |-> IF p \in ps \ EthPools(ps)
                                   THEN process_nonweth_pool(rs, p, agg, eth[p]) ELSE eth[p]]
<1>1. aggregated_weth_rate' = agg /\ rates' = all
  BY DEF process_pools, PoolsToRate, AggregateInUse
<1>2. ASSUME NEW p \in Pools, IsEthPool(p)
      PROVE  eth[p] = process_eth_pool(rs, p) /\ eth[p] \in [TokensOf(p) -> Nat]
  BY <1>2, EthRates DEF EthPools
<1>3. ASSUME NEW p \in Pools, ~ IsEthPool(p)
      PROVE  eth[p] = rates[p]
  BY <1>3 DEF EthPools
<1>4. ASSUME NEW p \in Pools
      PROVE  eth[p] \in [TokensOf(p) -> Nat \cup {NoRate}]
  BY <1>2, <1>3 DEF TypeOK
<1> HIDE DEF eth
<1>5. ASSUME NEW t \in Tokens
      PROVE  /\ agg[t] \in Nat \cup {NoRate}
             /\ EthPoolsOf(ps, t) # {} => agg[t] \in Nat
             /\ EthPoolsOf(ps, t) = {} => agg[t] = aggregated_weth_rate[t]
  <2> DEFINE mine == EthPoolsOf(ps, t)
             sum == SumFunctionOnSet([p \in mine |-> eth[p][WETH]], mine)
             old == aggregated_weth_rate[t]
  <2>1. agg[t] = IF mine = {} THEN old ELSE (OrZero(old) + sum) \div Cardinality(mine)
    BY DEF Aggregate
  <2>2. old \in Nat \cup {NoRate} /\ OrZero(old) \in Nat
    BY DEF TypeOK, OrZero
  <2>3. ASSUME mine # {}
        PROVE  agg[t] \in Nat
    <3>1. mine \in SUBSET Pools /\ IsFiniteSet(Pools)
      BY EstimatorAssumption DEF EthPoolsOf, EthPools
    <3>2. IsFiniteSet(mine)
      BY <3>1, FS_Subset
    <3>3. \A p \in mine : [q \in mine |-> eth[q][WETH]][p] \in Nat
      BY <1>2, <3>1 DEF EthPoolsOf, EthPools, IsEthPool
    <3> HIDE DEF mine
    <3>4. sum \in Nat
      BY <3>2, <3>3, SumNat
    <3>5. Cardinality(mine) \in Nat \ {0}
      BY <2>3, <3>2, FS_CardinalityType, FS_EmptySet
    <3> HIDE DEF sum, old, agg
    <3> QED BY <2>1, <2>2, <2>3, <3>4, <3>5
  <2> QED BY <2>1, <2>2, <2>3
<1>6. agg \in [Tokens -> Nat \cup {NoRate}]
  <2>1. agg = [t \in Tokens |-> agg[t]]
    BY DEF Aggregate
  <2> HIDE DEF agg
  <2> QED BY <1>5, <2>1
<1>7. ASSUME NEW t \in Tokens
      PROVE  agg[t] # NoRate <=> EthPoolsOf(Pools, t) # {}
  <2>1. CASE EthPoolsOf(ps, t) # {}
    <3>1. EthPoolsOf(Pools, t) # {}
      BY <2>1 DEF EthPoolsOf, EthPools
    <3> QED BY <1>5, <2>1, <3>1, EstimatorAssumption
  <2>2. CASE EthPoolsOf(ps, t) = {}
    <3>1. agg[t] = aggregated_weth_rate[t]
      BY <1>5, <2>2
    <3> QED BY <2>2, <3>1 DEF AggregateInv
  <2> QED BY <2>1, <2>2
<1> HIDE DEF agg
<1>8. ASSUME NEW p \in Pools, ~ IsEthPool(p)
      PROVE  /\ all[p] \in [TokensOf(p) -> Nat \cup {NoRate}]
             /\ all[p][Token0[p]] # NoRate <=> EthPoolsOf(Pools, Token0[p]) # {}
  <2> DEFINE input == agg[Token0[p]]
  <2>1. Token0[p] \in Tokens /\ Token0[p] \in TokensOf(p)
    BY TokensOfPools
  <2>2. input \in Nat \cup {NoRate} /\ (input # NoRate <=> EthPoolsOf(Pools, Token0[p]) # {})
    BY <1>6, <1>7, <2>1
  <2>3. CASE p \in ps /\ input # NoRate
    <3>1. /\ OutRate(rs, p, Token0[p], input) \in Nat
          /\ BackRate(rs, p, Token0[p], input) \in Nat
      BY <2>1, <2>2, <2>3, RatesType
    <3>2. all[p] = [t \in TokensOf(p) |-> IF t = Token0[p] THEN OutRate(rs, p, Token0[p], input)
                                          ELSE BackRate(rs, p, Token0[p], input)]
      BY <1>8, <2>3 DEF process_nonweth_pool, StoreRates, EthPools
    <3> HIDE DEF all, input
    <3>3. all[p] \in [TokensOf(p) -> Nat] /\ all[p][Token0[p]] \in Nat
      BY <2>1, <3>1, <3>2
    <3> QED BY <2>2, <2>3, <3>3, EstimatorAssumption
  <2>4. CASE ~ (p \in ps /\ input # NoRate)
    <3>1. all[p] = rates[p]
      BY <1>3, <1>8, <2>4 DEF process_nonweth_pool
    <3>2. rates[p] \in [TokensOf(p) -> Nat \cup {NoRate}]
      BY DEF TypeOK
    <3>3. CASE batches > 0
      <4>1. rates[p][Token0[p]] # NoRate
                <=> \E q \in Pools : IsEthPool(q) /\ Alt(q) = Token0[p]
        BY <1>8, <3>3 DEF RatedPools
      <4> QED BY <3>1, <3>2, <4>1 DEF EthPoolsOf, EthPools
    <3>4. CASE ~ (batches > 0)
      <4>1. batches = 0 /\ ps = Pools
        BY <3>4 DEF TypeOK
      <4>2. rates[p][Token0[p]] = NoRate /\ input = NoRate
        BY <2>4, <4>1 DEF UnratedInv
      <4> QED BY <2>2, <3>1, <3>2, <4>2
    <3> QED BY <3>3, <3>4
  <2> QED BY <2>3, <2>4
<1>9. ASSUME NEW p \in Pools, IsEthPool(p)
      PROVE  /\ all[p] = process_eth_pool(rs, p) /\ all[p] \in [TokensOf(p) -> Nat]
             /\ all[p][Token0[p]] # NoRate
  <2>1. all[p] = eth[p]
    BY <1>9 DEF EthPools
  <2>2. all[p] = process_eth_pool(rs, p) /\ all[p] \in [TokensOf(p) -> Nat]
    BY <1>2, <1>9, <2>1
  <2> QED BY <2>2, TokensOfPools, EstimatorAssumption
<1>10. DOMAIN all = Pools
  OBVIOUS
<1> HIDE DEF all
<1>11. \A p \in Pools : all[p] \in [TokensOf(p) -> Nat \cup {NoRate}]
  BY <1>8, <1>9
<1>12. FreshInv'
  BY <1>1, <1>9 DEF FreshInv
<1>13. AggregateInv'
  BY <1>1, <1>7 DEF AggregateInv
<1>14. RatedPools'
  <2> SUFFICES ASSUME NEW p \in Pools
               PROVE  (all[p][Token0[p]] # NoRate)
                        <=> (IsEthPool(p) \/ \E q \in Pools : IsEthPool(q) /\ Alt(q) = Token0[p])
    BY <1>1 DEF RatedPools
  <2> QED BY <1>8, <1>9 DEF EthPoolsOf, EthPools
<1> QED BY <1>1, <1>6, <1>10, <1>11, <1>12, <1>13, <1>14

LEMMA StatesGood ==
    ASSUME NEW rs \in ReserveStates
    PROVE  Good(rs)
<1>1. \A p \in Pools : rs[p] \in Nat \X Nat
  BY EstimatorAssumption DEF ReserveStates
<1> QED BY <1>1 DEF ReserveStates, Good

LEMMA EInit == Init => EInv
<1> SUFFICES ASSUME Init
             PROVE  EInv
  OBVIOUS
<1>1. Good(reserves)
  BY StatesGood DEF Init
<1>2. TypeOK
  BY <1>1, EstimatorAssumption DEF Init, TypeOK, Good
<1>3. FreshInv /\ AggregateInv /\ UnratedInv /\ RatedPools
  BY TokensOfPools DEF Init, FreshInv, AggregateInv, UnratedInv, RatedPools
<1> QED BY <1>1, <1>2, <1>3 DEF EInv

LEMMA EStep == EInv /\ [Next]_vars => EInv'
<1> SUFFICES ASSUME EInv, [Next]_vars
             PROVE  EInv'
  OBVIOUS
<1> USE DEF EInv
<1>1. CASE InitialRates
  <2>1. reserves' = reserves /\ process_pools(reserves, Pools) /\ batches = 0 /\ batches' = 1
    BY <1>1 DEF InitialRates
  <2>2. Good(reserves) /\ Pools \in SUBSET Pools /\ batches' > 0
    BY <2>1
  <2>3. /\ DOMAIN rates' = Pools
        /\ \A p \in Pools : rates'[p] \in [TokensOf(p) -> Nat \cup {NoRate}]
        /\ aggregated_weth_rate' \in [Tokens -> Nat \cup {NoRate}]
        /\ FreshInv' /\ AggregateInv' /\ RatedPools'
    BY <2>1, <2>2, Processed
  <2>4. TypeOK' /\ Good(reserves)' /\ UnratedInv'
    BY <2>1, <2>3, EstimatorAssumption DEF TypeOK, UnratedInv, Good
  <2> QED BY <2>3, <2>4
<1>2. ASSUME NEW ps \in SUBSET Pools, NEW rs \in ReserveStates, UpdateRates(ps, rs)
      PROVE  EInv'
  <2>1. /\ reserves' = rs /\ \A p \in Pools \ ps : rs[p] = reserves[p]
        /\ process_pools(reserves', ps) /\ batches \in 1..MaxBatches /\ batches' = batches + 1
    BY <1>2 DEF UpdateRates
  <2>2. Good(reserves')
    BY <2>1, StatesGood
  <2>3. batches > 0 /\ batches' > 0 /\ batches' \in 0..MaxBatches + 1 /\ batches' # 0
    BY <2>1, EstimatorAssumption
  <2>4. ASSUME NEW p \in Pools \ ps, IsEthPool(p)
        PROVE  rates[p] = process_eth_pool(reserves', p)
    <3>1. reserves'[p] = reserves[p]
      BY <2>1
    <3>2. process_eth_pool(reserves', p) = process_eth_pool(reserves, p)
      BY <3>1 DEF process_eth_pool, OutRate, BackRate, Out, Back, compute_pool_output
    <3> QED BY <2>3, <2>4, <3>2 DEF FreshInv
  <2>5. /\ DOMAIN rates' = Pools
        /\ \A p \in Pools : rates'[p] \in [TokensOf(p) -> Nat \cup {NoRate}]
        /\ aggregated_weth_rate' \in [Tokens -> Nat \cup {NoRate}]
        /\ FreshInv' /\ AggregateInv' /\ RatedPools'
    BY <2>1, <2>2, <2>3, <2>4, Processed
  <2>6. TypeOK' /\ Good(reserves)' /\ UnratedInv'
    BY <2>2, <2>3, <2>5 DEF TypeOK, UnratedInv, Good
  <2> QED BY <2>5, <2>6
<1>3. CASE UNCHANGED vars
  BY <1>3 DEF vars, TypeOK, Good, FreshInv, AggregateInv, UnratedInv, RatedPools
<1> QED BY <1>1, <1>2, <1>3 DEF Next

\* Spec keeps the rates of the pools with WETH those of their reserves, whatever batches came.
LEMMA Invariant == Spec => []EInv
BY EInit, EStep, PTL DEF Spec

\* The estimate of a path of two pools with WETH first, in the terms of the arithmetic above.
LEMMA EstimateIs ==
    ASSUME EInv, NEW p \in Pools, NEW q \in Pools, TwoHops(p, q), WethFirst(p), WethFirst(q)
    PROVE  LET d == token_decimals(Alt(p))
               Y == scale_to_rate(Quote(p), d)
               U == scale_to_rate(Quote(q), d)
               v == Back(reserves, q, WETH, AMOUNT)
           IN  /\ d = Decimals[Alt(p)] /\ d \in Scales
               /\ Quote(p) \in Nat /\ Quote(q) \in Nat /\ v \in Nat /\ v <= AMOUNT
               /\ batches = 0 => estimate_output_amount(p, q) = 0
               /\ batches > 0 => estimate_output_amount(p, q)
                                   = IF U = 0 THEN 0 ELSE Estimate(AMOUNT, RATE_SCALE_VALUE, Y, U, v)
<1> DEFINE A == AMOUNT
           S == RATE_SCALE_VALUE
           t == Alt(p)
           d == token_decimals(t)
           Y == scale_to_rate(Quote(p), d)
           U == scale_to_rate(Quote(q), d)
           v == Back(reserves, q, WETH, A)
<1>1. /\ IsEthPool(p) /\ IsEthPool(q) /\ Alt(q) = t /\ Token0[p] = WETH /\ Token0[q] = WETH
      /\ t = Token1[p] /\ t = Token1[q] /\ t # WETH /\ t \in Tokens
      /\ {WETH, t} = TokensOf(p) /\ {WETH, t} = TokensOf(q)
  BY EstimatorAssumption DEF TwoHops, WethFirst, IsEthPool, Alt, Other, TokensOf, Tokens
<1>2. d = Decimals[t] /\ token_decimals(WETH) = RATE_SCALE /\ d \in Scales
  BY <1>1, EstimatorAssumption DEF token_decimals, Scales
<1>3. S \in Nat \ {0} /\ A \in 1..S /\ A \in Nat \ {0}
  BY ScaleType
<1>4. Good(reserves)
  BY DEF EInv
<1>5. Quote(p) \in Nat /\ Quote(q) \in Nat
  BY <1>3, <1>4, PoolOutput DEF Quote
<1>6. v \in Nat /\ v <= A
  <2> DEFINE r0 == ReserveIn(reserves, q, WETH)
             r1 == ReserveOut(reserves, q, WETH)
  <2>1. v = compute_pool_output(reserves, q, t, Quote(q))
    BY <1>1 DEF Back, Out, Quote, Other
  <2>2. ReserveIn(reserves, q, t) = r1 /\ ReserveOut(reserves, q, t) = r0
    BY <1>1 DEF ReserveIn, ReserveOut
  <2>3. r0 \in Nat \ {0} /\ r1 \in Nat \ {0} /\ Gives(A, r0, r1, Quote(q))
    BY <1>3, <1>4, PoolOutput DEF Quote
  <2>4. v \in Nat /\ Gives(Quote(q), r1, r0, v)
    BY <1>4, <1>5, <2>1, <2>2, PoolOutput
  <2> HIDE DEF v, r0, r1, A
  <2> QED BY <1>3, <1>5, <2>3, <2>4, WayBack
<1>7. batches = 0 => estimate_output_amount(p, q) = 0
  BY <1>1 DEF EInv, UnratedInv, estimate_output_amount
<1>8. ASSUME batches > 0
      PROVE  estimate_output_amount(p, q) = IF U = 0 THEN 0 ELSE Estimate(A, S, Y, U, v)
  <2>1. rates[p] = process_eth_pool(reserves, p) /\ rates[q] = process_eth_pool(reserves, q)
    BY <1>1, <1>8 DEF EInv, FreshInv
  <2>2. /\ rates[p][WETH] = OutRate(reserves, p, WETH, A)
        /\ rates[q][t] = BackRate(reserves, q, WETH, A)
    BY <1>1, <2>1 DEF process_eth_pool, StoreRates
  <2>3. rates[p][WETH] \in Nat /\ rates[q][t] \in Nat
    <3>1. A \in Nat /\ WETH \in TokensOf(p) /\ WETH \in TokensOf(q)
      BY <1>1, <1>3
    <3>2. OutRate(reserves, p, WETH, A) \in Nat /\ BackRate(reserves, q, WETH, A) \in Nat
      BY <1>4, <3>1, RatesType
    <3> QED BY <2>2, <3>2
  <2>4. estimate_output_amount(p, q) = (((A * rates[p][WETH]) \div S) * rates[q][t]) \div S
    BY <1>1, <2>3, EstimatorAssumption DEF estimate_output_amount
  <2>5. OutRate(reserves, p, WETH, A) = (Y * S) \div A
    <3>1. Other(p, WETH) = t /\ Out(reserves, p, WETH, A) = Quote(p)
      BY DEF Alt, Out, Quote
    <3>2. scale_to_rate(A, token_decimals(WETH)) = A
      BY <1>2, <1>3, Scaled
    <3> QED BY <1>3, <3>1, <3>2 DEF OutRate, calculate_rate, CheckedDiv
  <2>6. BackRate(reserves, q, WETH, A) = IF U = 0 THEN 0 ELSE (v * S) \div U
    <3>1. Other(q, WETH) = t /\ Out(reserves, q, WETH, A) = Quote(q)
      BY <1>1 DEF Alt, Out, Quote
    <3>2. scale_to_rate(v, token_decimals(WETH)) = v
      BY <1>2, <1>6, Scaled
    <3> QED BY <3>1, <3>2 DEF BackRate, calculate_rate, CheckedDiv
  <2>7. Y \in Nat
    BY <1>2, <1>5, Scaled
  <2>8. estimate_output_amount(p, q)
            = (Amount(A, S, Y) * (IF U = 0 THEN 0 ELSE (v * S) \div U)) \div S
    BY <2>2, <2>4, <2>5, <2>6 DEF Amount
  <2>9. Amount(A, S, Y) \in Nat
    BY <1>3, <2>7, AmountBounds
  <2> HIDE DEF A, S, Y, U, v
  <2>10. CASE U = 0
    BY <1>3, <2>8, <2>9, <2>10
  <2>11. CASE U # 0
    BY <2>8, <2>11 DEF Estimate
  <2> QED BY <2>10, <2>11
<1> QED BY <1>2, <1>5, <1>6, <1>7, <1>8

-----------------------------------------------------------------------------
(* The theorems. *)

\* Every pool has its rates filed under its own two tokens (estimator.rs:24-48).
THEOREM TypeCorrect == Spec => []TypeOK
<1>1. EInv => TypeOK
  BY DEF EInv
<1> QED BY <1>1, Invariant, PTL

\* After the first batch the pools that can be rated are, whatever order they came in and
\* whatever batches follow (estimator.rs:145-183).
THEOREM Rated == Spec => []RatedPools
<1>1. EInv => RatedPools
  BY DEF EInv
<1> QED BY <1>1, Invariant, PTL

\* The filter of the searcher lets no path pass whose first pool pays less for WETH than its
\* second, for all reserves, decimals and batches (searcher.rs:97-108, estimator.rs:72-93).
THEOREM FilterSound == Spec => []NoProfitMadeUp
<1>1. EInv => NoProfitMadeUp
  <2> SUFFICES ASSUME EInv, NEW p \in Pools, NEW q \in Pools, TwoHops(p, q),
                      WethFirst(p), WethFirst(q), Selected(p, q)
               PROVE  Quote(p) > Quote(q)
    BY DEF NoProfitMadeUp
  <2> DEFINE d == token_decimals(Alt(p))
             Y == scale_to_rate(Quote(p), d)
             U == scale_to_rate(Quote(q), d)
             v == Back(reserves, q, WETH, AMOUNT)
  <2>1. /\ d \in Scales /\ Quote(p) \in Nat /\ Quote(q) \in Nat /\ v \in Nat /\ v <= AMOUNT
        /\ batches = 0 => estimate_output_amount(p, q) = 0
        /\ batches > 0 => estimate_output_amount(p, q)
                            = IF U = 0 THEN 0 ELSE Estimate(AMOUNT, RATE_SCALE_VALUE, Y, U, v)
    BY EstimateIs
  <2>2. estimate_output_amount(p, q) >= MinProfit /\ MinProfit \in Nat /\ AMOUNT < MinProfit
    BY EstimatorAssumption DEF Selected
  <2>3. Y \in Nat /\ U \in Nat
    BY <2>1, Scaled
  <2>4. batches \in Nat
    BY EstimatorAssumption DEF EInv, TypeOK
  <2>5. Quote(p) <= Quote(q) => Y <= U
    BY <2>1, Scaled
  <2> HIDE DEF d, Y, U, v
  <2>6. /\ RATE_SCALE_VALUE \in Nat \ {0} /\ AMOUNT \in 1..RATE_SCALE_VALUE
        /\ AMOUNT \in Nat \ {0}
    BY ScaleType
  <2>7. /\ U # 0
        /\ estimate_output_amount(p, q) = Estimate(AMOUNT, RATE_SCALE_VALUE, Y, U, v)
    BY <2>1, <2>2, <2>4, <2>6
  <2>8. Estimate(AMOUNT, RATE_SCALE_VALUE, Y, U, v) \in Int
    <3>1. Amount(AMOUNT, RATE_SCALE_VALUE, Y) \in Nat
      BY <2>3, <2>6, AmountBounds
    <3>2. (v * RATE_SCALE_VALUE) \div U \in Int
      BY <2>1, <2>3, <2>6, <2>7
    <3> QED BY <2>6, <3>1, <3>2 DEF Estimate
  <2>9. Estimate(AMOUNT, RATE_SCALE_VALUE, Y, U, v) > v
    BY <2>1, <2>2, <2>6, <2>7, <2>8
  <2>10. Y > U
    BY <2>1, <2>3, <2>6, <2>7, <2>9, NotMadeUp
  <2> QED BY <2>1, <2>3, <2>5, <2>10
<1> QED BY <1>1, Invariant, PTL

\* And it stops no path whose calculated output is a profit by more than the roundings, at
\* either end, unless the prices of its pools are MaxEstimate / AMOUNT times apart
\* (estimator.rs:118-143, searcher.rs:97-108).
THEOREM FilterComplete == Spec => []NoProfitMissed
<1>1. EInv => NoProfitMissed
  <2> SUFFICES ASSUME EInv, NEW p \in Pools, NEW q \in Pools, TwoHops(p, q),
                      WethFirst(p), WethFirst(q), batches > 0,
                      Decimals[Alt(p)] <= RATE_SCALE, Quote(q) > 0,
                      AMOUNT * Quote(p) < MaxEstimate * Quote(q),
                      calculate_output(p, q) >= MinProfit + RoundingLoss(p, q)
               PROVE  Selected(p, q)
    BY DEF NoProfitMissed
  <2> DEFINE S == RATE_SCALE_VALUE
             d == token_decimals(Alt(p))
             y == Quote(p)
             u == Quote(q)
             Y == scale_to_rate(y, d)
             U == scale_to_rate(u, d)
             v == Back(reserves, q, WETH, AMOUNT)
             z == calculate_output(p, q)
             in  == ReserveOut(reserves, q, WETH)
             out == ReserveIn(reserves, q, WETH)
  <2>1. /\ d = Decimals[Alt(p)] /\ d \in Scales
        /\ y \in Nat /\ u \in Nat /\ v \in Nat /\ v <= AMOUNT
        /\ estimate_output_amount(p, q) = IF U = 0 THEN 0 ELSE Estimate(AMOUNT, S, Y, U, v)
    BY EstimateIs
  <2>2. S \in Nat \ {0} /\ AMOUNT \in 1..S /\ AMOUNT \in Nat \ {0}
        /\ MinProfit \in Nat /\ AMOUNT < MinProfit /\ MaxEstimate \in Nat
    BY ScaleType, EstimatorAssumption
  <2>3. /\ Alt(q) = Alt(p) /\ Token0[q] = WETH /\ Alt(p) # WETH /\ Other(q, WETH) = Alt(p)
    BY EstimatorAssumption DEF TwoHops, WethFirst, Alt, Other
  <2>4. /\ in \in Nat \ {0} /\ out \in Nat \ {0} /\ z \in Nat
        /\ Gives(u, in, out, v) /\ Gives(y, in, out, z)
    <3>1. Good(reserves)
      BY DEF EInv
    <3>2. v = compute_pool_output(reserves, q, Alt(p), u) /\ z = compute_pool_output(reserves, q, Alt(p), y)
      BY <2>3 DEF Back, Out, Quote, calculate_output
    <3>3. in = ReserveIn(reserves, q, Alt(p)) /\ out = ReserveOut(reserves, q, Alt(p))
      BY <2>3 DEF ReserveIn, ReserveOut
    <3> QED BY <2>1, <3>1, <3>2, <3>3, PoolOutput
  <2>5. PICK k \in Nat \ {0} : Y = y * k /\ U = u * k
    BY <2>1, Scaled
  <2>6. RoundingLoss(p, q) = 2 + (Y + v) \div U + Y \div S
    BY <2>1, <2>3 DEF RoundingLoss
  <2>7. u > 0 /\ z >= MinProfit + RoundingLoss(p, q) /\ AMOUNT * y < MaxEstimate * u
    OBVIOUS
  <2> HIDE DEF S, d, y, u, Y, U, v, z, in, out
  <2>8. Y \in Nat /\ U \in Nat \ {0} /\ u \in Nat \ {0}
    BY <2>1, <2>5, <2>7
  <2>9. (Y + v) \div U \in Nat /\ Y \div S \in Nat
    BY <2>1, <2>2, <2>8, DivBounds
  <2>10. u <= y
    <3> SUFFICES ASSUME y <= u
                 PROVE  z <= v
      BY <2>1, <2>2, <2>4, <2>6, <2>7, <2>9
    <3> QED BY <2>1, <2>4, MoreOut
  <2>11. z * u < y * (v + 1)
    BY <2>1, <2>4, <2>8, <2>10, Chord
  <2>12. z * U < Y * (v + 1)
    <3>1. z * U = (z * u) * k /\ Y * (v + 1) = (y * (v + 1)) * k
      BY <2>1, <2>4, <2>5
    <3>2. z * u \in Int /\ y * (v + 1) \in Int
      BY <2>1, <2>4
    <3> QED BY <2>11, <3>1, <3>2
  <2>13. z <= Estimate(AMOUNT, S, Y, U, v) + (2 + (Y + v) \div U + Y \div S)
    BY <2>1, <2>2, <2>4, <2>8, <2>12, NotMissed
  <2> DEFINE e == Estimate(AMOUNT, S, Y, U, v)
  <2>14. e \in Nat /\ e * U <= Y * v
    BY <2>1, <2>2, <2>8, AtMost
  <2>15. estimate_output_amount(p, q) = e
    BY <2>1, <2>8
  <2>16. e >= MinProfit
    BY <2>1, <2>2, <2>4, <2>6, <2>7, <2>8, <2>9, <2>13, <2>14
  <2> HIDE DEF e
  <2>17. e < MaxEstimate
    <3>1. Y * v <= Y * AMOUNT
      BY <2>1, <2>2, <2>8
    <3>2. Y * AMOUNT = (AMOUNT * y) * k /\ MaxEstimate * U = (MaxEstimate * u) * k
      BY <2>1, <2>2, <2>5
    <3>3. (AMOUNT * y) * k < (MaxEstimate * u) * k
      BY <2>1, <2>2, <2>7
    <3>4. e * U < MaxEstimate * U
      <4>1. e * U \in Int /\ Y * v \in Int /\ Y * AMOUNT \in Int /\ MaxEstimate * U \in Int
        BY <2>1, <2>2, <2>8, <2>14
      <4> QED BY <2>14, <3>1, <3>2, <3>3, <4>1
    <3> QED BY <2>2, <2>8, <2>14, <3>4
  <2> QED BY <2>15, <2>16, <2>17 DEF Selected
<1> QED BY <1>1, Invariant, PTL

=============================================================================
