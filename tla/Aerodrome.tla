------------------------------- MODULE Aerodrome -------------------------------
(***************************************************************************)
(* aerodrome_out: what a volatile pool pays (x * y is kept) and a stable   *)
(* one (x^3 y + x y^3 is kept), where the balance after the swap is found  *)
(* by Newton's method on integers, each product of which is rounded down.  *)
(* Reserves are brought to UNIT per token first (1e18).  One quote per     *)
(* behaviour; U256 does not wrap at these sizes.                           *)
(***************************************************************************)
EXTENDS Integers

CONSTANTS
    UNIT,
    ROUNDS,        \* of the method, 255
    StablePools,   \* [reserve0, reserve1, token0_decimals, token1_decimals, stable, fee]
    AeroAmounts,   \* inputs, in 1 / 100 of a token
    Nobody         \* asks

ASSUME AeroAssumption ==
    /\ {UNIT, ROUNDS} \subseteq Nat \ {0} /\ AeroAmounts \subseteq Nat
    /\ \A p \in StablePools :
          /\ {p.reserve0, p.reserve1, p.token0_decimals, p.token1_decimals} \subseteq Nat \ {0}
          /\ p.fee \in 0..9999 /\ p.stable \in BOOLEAN

VARIABLES
    asked,    \* the pool, whether token0 goes in, and the input; or Nobody
    x0, xy,   \* balance of the input after the swap, value of the curve before it
    y,        \* the balance of the output, as found so far
    rounds,
    answer    \* the output, or NoAnswer so far

aeroVars == <<asked, x0, xy, y, rounds, answer>>

NoAnswer == -1

AfterFee(p, amount) == amount - (amount * p.fee) \div 10000

\* Reserves in and out, as the two formulas want them.
Normal(p, zeroIn) ==
    LET n0 == (p.reserve0 * UNIT) \div p.token0_decimals
        n1 == (p.reserve1 * UNIT) \div p.token1_decimals
    IN  IF ~p.stable THEN IF zeroIn THEN <<p.reserve0, p.reserve1>> ELSE <<p.reserve1, p.reserve0>>
        ELSE IF zeroIn THEN <<n0, n1>> ELSE <<n1, n0>>

DecimalsIn(q)  == IF q.zeroIn THEN q.pool.token0_decimals ELSE q.pool.token1_decimals
DecimalsOut(q) == IF q.zeroIn THEN q.pool.token1_decimals ELSE q.pool.token0_decimals

NormalIn(q) == (AfterFee(q.pool, q.amount) * UNIT) \div DecimalsIn(q)

curve_f(a, b) ==
    (((a * b) \div UNIT) * ((a * a) \div UNIT + (b * b) \div UNIT)) \div UNIT

\* The slope in y, with the roundings of _d.
curve_d(a, b) ==
    (3 * a * ((b * b) \div UNIT)) \div UNIT + (((a * a) \div UNIT) * a) \div UNIT

\* _k brings its arguments to UNIT; _get_y calls it with what is there already.
curve_k(a, b, p) ==
    curve_f((a * UNIT) \div p.token0_decimals, (b * UNIT) \div p.token1_decimals)

-----------------------------------------------------------------------------

Requests ==
    {[pool |-> p, zeroIn |-> z, amount |-> (h * IF z THEN p.token0_decimals ELSE p.token1_decimals)
                                               \div 100] :
        p \in StablePools, z \in BOOLEAN, h \in AeroAmounts}

AeroInit ==
    /\ asked \in Requests
    /\ x0 = 0 /\ xy = 0 /\ y = 0 /\ rounds = 0 /\ answer = NoAnswer

volatile_out ==
    /\ answer = NoAnswer /\ ~asked.pool.stable
    /\ LET r  == Normal(asked.pool, asked.zeroIn)
           in == AfterFee(asked.pool, asked.amount)
       IN  answer' = (in * r[2]) \div (r[1] + in)
    /\ UNCHANGED <<asked, x0, xy, y, rounds>>

stable_out ==
    /\ answer = NoAnswer /\ asked.pool.stable /\ x0 = 0
    /\ LET p == asked.pool
           r == Normal(p, asked.zeroIn)
       IN  /\ xy' = curve_k(p.reserve0, p.reserve1, p)
           /\ x0' = NormalIn(asked) + r[1]
           /\ y'  = r[2]
    /\ UNCHANGED <<asked, rounds, answer>>

\* What is paid once the balance b has been found.
Pay(b) ==
    answer' = ((Normal(asked.pool, asked.zeroIn)[2] - b) * DecimalsOut(asked)) \div UNIT

\* A mutant that pays for the last balance below the curve.
MutantBelow(above) == y
RoundedUp(above) == above

\* A round of _get_y: a step of at least 1 towards the curve, or the end.
NewtonRound ==
    LET k    == curve_f(x0, y)
        d    == curve_d(x0, y)
        miss == IF k < xy THEN xy - k ELSE k - xy
        dy   == (miss * UNIT) \div d
        step == IF dy = 0 THEN 1 ELSE dy
        ends == dy = 0 /\ IF k < xy THEN curve_k(x0, y + 1, asked.pool) > xy
                          ELSE k = xy \/ curve_f(x0, y - 1) < xy
    IN  /\ answer = NoAnswer /\ x0 # 0 /\ rounds < ROUNDS
        /\ d # 0
        /\ IF ends THEN /\ y' = IF k < xy THEN RoundedUp(y + 1) ELSE y
                        /\ Pay(y')
                        /\ UNCHANGED rounds
           ELSE /\ y' = IF k < xy THEN y + step ELSE y - step
                /\ rounds' = rounds + 1
                /\ UNCHANGED answer
        /\ UNCHANGED <<asked, x0, xy>>

\* Without a slope, or after all rounds, _get_y returns 0: all of the reserve is paid.
GivesUp ==
    /\ answer = NoAnswer /\ x0 # 0
    /\ rounds = ROUNDS \/ curve_d(x0, y) = 0
    /\ y' = 0
    /\ Pay(0)
    /\ UNCHANGED <<asked, x0, xy, rounds>>

AeroNext == volatile_out \/ stable_out \/ NewtonRound \/ GivesUp

AeroSpec == AeroInit /\ [][AeroNext]_aeroVars /\ WF_aeroVars(AeroNext)

-----------------------------------------------------------------------------
(* Properties. *)

\* A token of each, in a stable pool; with next to none the products round to 0.
Deep(p) == p.stable => p.reserve0 >= p.token0_decimals /\ p.reserve1 >= p.token1_decimals

\* The curve of the pool that is asked.
Curve(a, b) == IF asked.pool.stable THEN curve_f(a, b) ELSE a * b

\* The output is all that the pool can pay and not a unit more: the curve does not fall, and
\* it would with one unit less in the pool.  So the search ends, from either side, within its
\* rounds, and on the unit the contract ends on.  (For pools with a token of each.)
PaysToTheCurve ==
    asked # Nobody /\ answer # NoAnswer /\ Deep(asked.pool) =>
        LET r     == Normal(asked.pool, asked.zeroIn)
            after == IF asked.pool.stable THEN x0 ELSE r[1] + AfterFee(asked.pool, asked.amount)
            left  == IF asked.pool.stable THEN y ELSE r[2] - answer
        IN  /\ Curve(after, left) >= Curve(r[1], r[2])
            /\ Curve(after, left - 1) < Curve(r[1], r[2])
            /\ answer = ((r[2] - left) * IF asked.pool.stable THEN DecimalsOut(asked) ELSE 1)
                            \div IF asked.pool.stable THEN UNIT ELSE 1

=============================================================================
