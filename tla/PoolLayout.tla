------------------------------ MODULE PoolLayout ------------------------------
(***************************************************************************)
(* How the words of a pool's storage stand for its state (v2_db.rs,        *)
(* v3_db.rs): a pool is inserted field by field as it was synced, block    *)
(* updates put whole words of the chain over that, with fields the         *)
(* insertion left at 0, and the calculators read fields out of either.     *)
(* A pair and a V3 pool, after the last block applied; widths in bits.     *)
(***************************************************************************)
EXTENDS Integers, FiniteSets, FiniteSetsExt

CONSTANTS
    RESERVE, STAMP,       \* widths in a pair's word: 112, 32
    PRICE, TICK, INDEX,   \* widths in slot 0: 160, 24, and 48 for the three observation fields
    LIQUIDITY,            \* 128
    BITS,                 \* of a word of the bitmap: 256
    PairStates,           \* [reserve0, reserve1, stamp]
    Slot0States,          \* [price, tick, index]
    Liquidities,
    Ticks,                \* the ticks of the pool that can be initialized, in spacings
    TickStates,           \* [gross, net]
    Observations,         \* what the oracle may have written to slot 14
    SPACING

ASSUME LayoutAssumption ==
    /\ {RESERVE, STAMP, PRICE, TICK, INDEX, LIQUIDITY, BITS, SPACING} \subseteq Nat \ {0}
    /\ PairStates \subseteq [reserve0 : 0..2 ^ RESERVE - 1, reserve1 : 0..2 ^ RESERVE - 1,
                             stamp : 1..2 ^ STAMP - 1]
    /\ Slot0States \subseteq [price : 1..2 ^ PRICE - 1, tick : -2 ^ (TICK - 1)..2 ^ (TICK - 1) - 1,
                              index : 0..2 ^ INDEX - 1]
    /\ Liquidities \subseteq 0..2 ^ LIQUIDITY - 1
    /\ TickStates \subseteq [gross : 0..2 ^ LIQUIDITY - 1,
                             net : -2 ^ (LIQUIDITY - 1)..2 ^ (LIQUIDITY - 1) - 1]
    /\ \A s \in TickStates : s.gross = 0 => s.net = 0
    /\ Ticks \subseteq Int /\ IsFiniteSet(Ticks) /\ Observations \subseteq Nat \ {0}

\* Laws of arithmetic for the widths at hand; the provers know none of powers.
ASSUME PowerLaw ==
    LET widths == 2 * RESERVE + PRICE + TICK + INDEX + LIQUIDITY + 8
    IN  \A m \in 0..widths : /\ 2 ^ m \in Nat \ {0}
                             /\ \A n \in 0..widths - m : 2 ^ (m + n) = 2 ^ m * 2 ^ n

VARIABLES
    pair,        \* the pair on the chain
    pool,        \* the V3 pool on the chain: [slot0, liquidity, ticks, observation]
    words        \* the words the database holds of both

layoutVars == <<pair, pool, words>>

Shl(x, n) == x * 2 ^ n
Shr(x, n) == x \div 2 ^ n
Low(x, n) == x % 2 ^ n      \* & with a mask of n bits; a negative number as two's complement
SignedOf(x, n) == IF x < 2 ^ (n - 1) THEN x ELSE x - 2 ^ n

\* Slots of the pair and of the pool; those of a mapping by the key that is hashed.
Reserves8      == <<"pair", 8>>
Slot0          == <<"pool", 0>>
Liquidity4     == <<"pool", 4>>
Slot14         == <<"pool", 14>>
TickSlot(t)    == <<"ticks", t>>
BitmapSlot(w)  == <<"bitmap", w>>

WordOf(t) == t \div BITS
Bitmap(ticks, w) == MapThenSumSet(LAMBDA t : 2 ^ (t % BITS),
                                  {t \in Ticks : WordOf(t) = w /\ ticks[t].gross > 0})

-----------------------------------------------------------------------------
(* The contracts.  A word is 0 where nothing was written. *)

ReservesWord(p) == p.reserve0 + Shl(p.reserve1, RESERVE) + Shl(p.stamp, 2 * RESERVE)

UNLOCKED == PRICE + TICK + INDEX + 8
Slot0Word(s) ==
    s.price + Shl(Low(s.tick, TICK), PRICE) + Shl(s.index, PRICE + TICK) + Shl(1, UNLOCKED)

TickWord(s) == s.gross + Shl(Low(s.net, LIQUIDITY), LIQUIDITY)

LayoutSlots == {Reserves8, Slot0, Liquidity4, Slot14} \cup {TickSlot(t) : t \in Ticks}
                   \cup {BitmapSlot(WordOf(t)) : t \in Ticks}

ChainWord(pr, pl, slot) ==
    IF slot = Reserves8 THEN ReservesWord(pr)
    ELSE IF slot = Slot0 THEN Slot0Word(pl.slot0)
    ELSE IF slot = Liquidity4 THEN pl.liquidity
    ELSE IF slot = Slot14 THEN pl.observation
    ELSE IF slot[1] = "ticks" THEN TickWord(pl.ticks[slot[2]])
    ELSE Bitmap(pl.ticks, slot[2])

-----------------------------------------------------------------------------
(* insert_v2 and insert_v3.  A tick or word that is not inserted reads as 0. *)

insert_reserves(p) == Shl(p.reserve1, RESERVE) + p.reserve0
insert_slot0(s) == s.price + Shl(Low(s.tick, TICK), PRICE) + Shl(1, UNLOCKED)
insert_tick_liquidity_net(s) == Shl(Low(s.net, LIQUIDITY), LIQUIDITY)

Inserted(pr, pl) ==
    [slot \in LayoutSlots |->
        IF slot = Reserves8 THEN insert_reserves(pr)
        ELSE IF slot = Slot0 THEN insert_slot0(pl.slot0)
        ELSE IF slot = Slot14 THEN SPACING
        ELSE IF slot[1] = "ticks" THEN insert_tick_liquidity_net(pl.ticks[slot[2]])
        ELSE ChainWord(pr, pl, slot)]

NoWords == [slot \in {} |-> 0]
NotInserted == pair = NoWords /\ pool = NoWords /\ words = NoWords

PoolStates == [slot0 : Slot0States, liquidity : Liquidities, ticks : [Ticks -> TickStates],
               observation : Observations \cup {0}]

\* A young pool has not come to its seventh observation yet.
LayoutInit ==
    /\ pair \in PairStates
    /\ pool \in {p \in PoolStates : p.observation = 0}
    /\ words = Inserted(pair, pool)

-----------------------------------------------------------------------------
(* A block: the words it changed come with the trace, unless they were cleared. *)

update_all_slots(pr, pl) ==
    words' = [slot \in LayoutSlots |->
                 LET value == ChainWord(pr, pl, slot)
                 IN  IF value \notin {0, ChainWord(pair, pool, slot)} THEN value ELSE words[slot]]

Block(pr, pl) == pair' = pr /\ pool' = pl /\ update_all_slots(pr, pl)

\* Of a swap in the V3 pool the oracle may write an observation.
LayoutNext ==
    \/ \E pr \in PairStates : Block(pr, pool)
    \/ \E s \in Slot0States, o \in Observations \cup {pool.observation} :
          Block(pair, [pool EXCEPT !.slot0 = s, !.observation = o])
    \/ \E l \in Liquidities, t \in Ticks, s \in TickStates :
          Block(pair, [pool EXCEPT !.liquidity = l, !.ticks[t] = s])

LayoutSpec == LayoutInit /\ [][LayoutNext]_layoutVars

-----------------------------------------------------------------------------
(* The readers. *)

\* A mutant that relies on the word to end with the second reserve.
MutantNoMask ==
    <<Low(words[Reserves8], RESERVE), Shr(words[Reserves8], RESERVE)>>
get_reserves ==
    <<Low(words[Reserves8], RESERVE), Low(Shr(words[Reserves8], RESERVE), RESERVE)>>

slot0 == [price |-> Low(words[Slot0], PRICE),
          tick  |-> SignedOf(Low(Shr(words[Slot0], PRICE), TICK), TICK)]

liquidity == words[Liquidity4]

ticks_liquidity_net(t) == SignedOf(Shr(words[TickSlot(t)], LIQUIDITY), LIQUIDITY)

tick_bitmap(w) == words[BitmapSlot(w)]

tick_spacing == words[Slot14]

-----------------------------------------------------------------------------
(* Properties. *)

Written(slot) == ChainWord(pair, pool, slot) # 0

\* Whether a word was put together by the insertion or taken over from a block, each reader
\* finds in it what the contract has, signs included; words that the chain has cleared are
\* AllChangesApplied's matter.  The spacing shares its slot with the seventh observation of
\* the pool's oracle, and is read right only until that is written.
ReadersAgree ==
    words # NoWords =>
        /\ get_reserves = <<pair.reserve0, pair.reserve1>>
        /\ slot0 = [price |-> pool.slot0.price, tick |-> pool.slot0.tick]
        /\ Written(Liquidity4) => liquidity = pool.liquidity
        /\ \A t \in Ticks :
              /\ Written(TickSlot(t)) => ticks_liquidity_net(t) = pool.ticks[t].net
              /\ Written(BitmapSlot(WordOf(t))) =>
                    tick_bitmap(WordOf(t)) = Bitmap(pool.ticks, WordOf(t))
        /\ ~Written(Slot14) => tick_spacing = SPACING

=============================================================================
