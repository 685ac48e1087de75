-------------------------------- MODULE V3Swap --------------------------------
(***************************************************************************)
(* The loop of uniswap_v3_out: an input is swapped along the price, from   *)
(* one initialized tick to the next, while the liquidity changes at each   *)
(* of them.  The pool has been filled with positions; the price has        *)
(* SUBTICKS places per tick, and moving it by one place takes and gives    *)
(* the active liquidity.  The library (uniswap_v3_math) is modelled by     *)
(* what the loop relies on.  One quote per behaviour; the pool is read     *)
(* under one read lock and stands still.                                   *)
(***************************************************************************)
EXTENDS Integers, FiniteSets, FiniteSetsExt, Functions

CONSTANTS
    MIN_TICK, MAX_TICK,
    TICK_SPACING,
    WORD,       \* ticks per word of the bitmap (256)
    SUBTICKS,   \* prices per tick
    FEE, SCALE, \* the fee is FEE / SCALE of the input
    Positions,  \* the positions [lower, upper, amount] a pool can have
    Amounts     \* the inputs

ASSUME V3Assumption ==
    /\ MIN_TICK \in Int /\ MAX_TICK \in Int /\ MIN_TICK < MAX_TICK
    /\ {TICK_SPACING, WORD, SCALE} \subseteq Nat \ {0}
    /\ SUBTICKS \in Nat /\ SUBTICKS > 1
    /\ FEE \in 0..SCALE - 1
    /\ Amounts \subseteq Nat
    /\ IsFiniteSet(Positions)
    /\ \A p \in Positions :
          /\ {p.lower, p.upper} \subseteq {t \in MIN_TICK..MAX_TICK : t % TICK_SPACING = 0}
          /\ p.lower < p.upper /\ p.amount \in Nat \ {0}

VARIABLES
    positions,  \* of the pool
    zero_to_one,
    pc,         \* "loop", "done", "failed", or "idle" if nobody asks
    amount_specified_remaining, amount_calculated, sqrt_price, tick, liquidity,
    start       \* the price before (history)

swapVars == <<positions, zero_to_one, pc, amount_specified_remaining, amount_calculated,
              sqrt_price, tick, liquidity, start>>

-----------------------------------------------------------------------------
(* The pool. *)

AmountOf == [p \in Positions |-> p.amount]
Total(ps) == SumFunctionOnSet(AmountOf, ps)

ActiveAt(t) == Total({p \in positions : p.lower <= t /\ t < p.upper})
ticks_liquidity_net(t) ==
    Total({p \in positions : p.lower = t}) - Total({p \in positions : p.upper = t})
Initialized(t) == \E p \in positions : t \in {p.lower, p.upper}

get_sqrt_ratio_at_tick(t) == t * SUBTICKS
get_tick_at_sqrt_ratio(price) == price \div SUBTICKS

MIN_SQRT_RATIO == get_sqrt_ratio_at_tick(MIN_TICK)
MAX_SQRT_RATIO == get_sqrt_ratio_at_tick(MAX_TICK)

sqrt_price_limit == IF zero_to_one THEN MIN_SQRT_RATIO + 1 ELSE MAX_SQRT_RATIO - 1

\* Integer division of Rust rounds to zero; >> and the cast of a remainder to u8 do not.
Truncated(x, y) == IF x >= 0 THEN x \div y ELSE -((-x) \div y)
position(t) == [word |-> t \div WORD, bit |-> t % WORD]

\* A mutant that reads the word of the tick only.
MutantOneWord == {position(Truncated(tick, TICK_SPACING)).word}
LoadedWords ==
    LET word_pos == position(Truncated(tick, TICK_SPACING)).word
    IN  word_pos - 1..word_pos + 1

\* The word in which the library looks for the next tick, and from which bit on.
WhereToLook == LET compressed == tick \div TICK_SPACING
               IN  position(IF zero_to_one THEN compressed ELSE compressed + 1)

TickOf(word, bit) == (word * WORD + bit) * TICK_SPACING

\* The words of the bitmap the database has: those with a tick, from when the pool was
\* inserted or from the block that set the first one.  A mutant that inserts none.
MutantNotInserted == {}
InsertedWords == {w \in LoadedWords : \E b \in 0..WORD - 1 : Initialized(TickOf(w, b))}

\* A word the database lacks is asked from the node; where that fails it counts as empty.
\* The node answers as of its newest block: that no tick was set in such a word meanwhile is
\* the assumption of a pool that stands still, and with it every tick found has its own slot
\* in the database, so that ticks_liquidity_net never asks the node.
tick_bitmap(w, failed) ==
    IF w \in failed THEN {} ELSE {b \in 0..WORD - 1 : Initialized(TickOf(w, b))}

\* The next initialized tick in that word, or the word's end.
NextTick(failed) ==
    LET at     == WhereToLook
        bits   == IF zero_to_one THEN 0..at.bit ELSE at.bit..WORD - 1
        found  == bits \cap tick_bitmap(at.word, failed)
    IN  [initialized |-> found # {},
         tick |-> TickOf(at.word, IF zero_to_one
                                  THEN IF found = {} THEN 0 ELSE Max(found)
                                  ELSE IF found = {} THEN WORD - 1 ELSE Min(found))]

Clamp(t) == IF t < MIN_TICK THEN MIN_TICK ELSE IF t > MAX_TICK THEN MAX_TICK ELSE t

-----------------------------------------------------------------------------

\* The chain leaves tick one below the price's if a swap came down to a tick and crossed it.
SwapInit ==
    /\ positions \in SUBSET Positions
    /\ zero_to_one \in BOOLEAN
    /\ amount_specified_remaining \in Amounts
    /\ amount_calculated = 0
    /\ sqrt_price \in MIN_SQRT_RATIO + 1..MAX_SQRT_RATIO - 1
    /\ tick \in {get_tick_at_sqrt_ratio(sqrt_price), get_tick_at_sqrt_ratio(sqrt_price - 1)}
    /\ liquidity = ActiveAt(tick)
    /\ start = sqrt_price
    /\ pc = IF amount_specified_remaining = 0 THEN "done" ELSE "loop"

\* A mutant that goes on until the input is spent, whatever the price.
MutantUntilSpent == amount_specified_remaining # 0
GoesOn == amount_specified_remaining # 0 /\ sqrt_price # sqrt_price_limit

\* A mutant that may pass the limit.
MutantNoLimit(price) == price
Target(price) ==
    IF zero_to_one THEN IF price < sqrt_price_limit THEN sqrt_price_limit ELSE price
    ELSE IF price > sqrt_price_limit THEN sqrt_price_limit ELSE price

CeilDiv(x, y) == (x + y - 1) \div y

\* The library's swap inside one range: to the target if the input is enough, else as far as
\* it goes, and then all of the rest is fee.
compute_swap_step(target) ==
    LET distance == IF zero_to_one THEN sqrt_price - target ELSE target - sqrt_price
        net      == (amount_specified_remaining * (SCALE - FEE)) \div SCALE
        reached  == net >= liquidity * distance
        moved    == IF reached THEN distance ELSE net \div liquidity
    IN  [price |-> IF zero_to_one THEN sqrt_price - moved ELSE sqrt_price + moved,
         amount_in  |-> liquidity * moved,
         amount_out |-> liquidity * moved,
         fee_amount |-> IF reached THEN CeilDiv(liquidity * moved * FEE, SCALE - FEE)
                        ELSE amount_specified_remaining - liquidity * moved]

\* A mutant that forgets that ticks are crossed from above.
MutantUpOnly(net) == net
Signed(net) == IF zero_to_one THEN -net ELSE net

\* A mutant that stays on the tick it came down to.
MutantOnTick(t) == t
TickAfter(t) == IF zero_to_one THEN t - 1 ELSE t

\* One round of the loop.  The library fails for a word it was not given, and the
\* liquidity is subtracted with a check; the caller unwraps either error.
SwapRound(failed) ==
    LET next  == NextTick(failed)
        t     == Clamp(next.tick)
        price == get_sqrt_ratio_at_tick(t)
        step  == compute_swap_step(Target(price))
        net   == IF next.initialized THEN Signed(ticks_liquidity_net(t)) ELSE 0
        atTick == step.price = price
        fails == WhereToLook.word \notin LoadedWords \/ (atTick /\ liquidity + net < 0)
    IN  /\ pc = "loop" /\ GoesOn
        /\ pc' = IF fails THEN "failed" ELSE "loop"
        /\ amount_specified_remaining' =
               amount_specified_remaining - (step.amount_in + step.fee_amount)
        /\ amount_calculated' = amount_calculated - step.amount_out
        /\ sqrt_price' = step.price
        /\ liquidity' = IF atTick /\ ~fails THEN liquidity + net ELSE liquidity
        /\ tick' = IF atTick THEN TickAfter(t)
                   ELSE IF step.price = sqrt_price THEN tick
                   ELSE get_tick_at_sqrt_ratio(step.price)
        /\ UNCHANGED <<positions, zero_to_one, start>>

SwapDone ==
    /\ pc = "loop" /\ ~GoesOn
    /\ pc' = "done"
    /\ UNCHANGED <<positions, zero_to_one, amount_specified_remaining, amount_calculated,
                   sqrt_price, tick, liquidity, start>>

SwapNext == SwapDone \/ \E failed \in SUBSET (LoadedWords \ InsertedWords) : SwapRound(failed)

\* The loop is sequential code: nothing keeps it from the next round.
SwapSpec == SwapInit /\ [][SwapNext]_swapVars /\ WF_swapVars(SwapNext)

-----------------------------------------------------------------------------
(* Properties. *)

SwapTypeOK ==
    /\ positions \subseteq Positions
    /\ zero_to_one \in BOOLEAN
    /\ pc \in {"loop", "done", "failed", "idle"}
    /\ amount_specified_remaining \in Nat
    /\ -amount_calculated \in Nat
    /\ sqrt_price \in MIN_SQRT_RATIO + 1..MAX_SQRT_RATIO - 1
    /\ tick \in MIN_TICK - 1..MAX_TICK
    /\ liquidity \in Nat

\* Whatever ticks have been crossed, in whatever direction, the liquidity counted is that of
\* the positions around the current tick, and the tick that of the price.
LiquidityActive ==
    pc = "loop" =>
        /\ liquidity = ActiveAt(tick)
        /\ get_sqrt_ratio_at_tick(tick) <= sqrt_price
        /\ sqrt_price <= get_sqrt_ratio_at_tick(tick + 1)

\* What the positions take and give at each price.
DueAt ==
    [k \in MIN_SQRT_RATIO..MAX_SQRT_RATIO |-> ActiveAt(get_tick_at_sqrt_ratio(k))]

\* The amount out is what the positions give for the way the price went, place by place,
\* and it goes all the way to the limit unless the input is used up before, whatever reads
\* of the bitmap fail.  Neither is a word missing nor liquidity short on the way, at which
\* the searcher would panic (calculator.rs:134).
OutIsDue ==
    /\ pc # "failed"
    /\ pc = "done" =>
        LET places == {k \in MIN_SQRT_RATIO..MAX_SQRT_RATIO :
                          IF zero_to_one THEN sqrt_price <= k /\ k < start
                          ELSE start <= k /\ k < sqrt_price}
        IN  /\ -amount_calculated = SumFunctionOnSet(DueAt, places)
            /\ amount_specified_remaining > 0 => sqrt_price = sqrt_price_limit

\* Every quote comes to an end.
Finishes == <>(pc \in {"done", "idle"})

=============================================================================
