------------------------------ MODULE BlockFeed ------------------------------
(***************************************************************************)
(* What the rest of the bot relies on about block updates, with the        *)
(* stream, the channel and the node left out.  Block updates are written   *)
(* to the shared database one block at a time.  While catching up nobody   *)
(* is told; once live, each update is announced (PoolsTouched) before the  *)
(* next block is written.  Blocks are consecutive, except that the first   *)
(* live block may lie beyond the end of the catch-up.                      *)
(***************************************************************************)
EXTENDS Naturals, Sequences

CONSTANTS
    SyncedAt,   \* the block (a natural number) the pools were synced at
    FeedBlocks  \* the block numbers that can occur

VARIABLES
    live,       \* the catch-up is over
    base,       \* how many blocks the catch-up wrote
    applied,    \* the blocks written to the database, oldest first
    published   \* the blocks announced to the searcher, oldest first

feedVars == <<live, base, applied, published>>

FeedTypeOK ==
    /\ live \in BOOLEAN
    /\ base \in Nat
    /\ applied \in Seq(FeedBlocks)
    /\ published \in Seq(FeedBlocks)

Newest == IF applied = <<>> THEN SyncedAt ELSE applied[Len(applied)]

\* every live update has been announced
Settled == Len(applied) = base + Len(published)

FeedInit ==
    /\ live = FALSE
    /\ base = 0
    /\ applied = <<>>
    /\ published = <<>>

CatchUp(b) ==
    /\ ~live
    /\ b = Newest + 1
    /\ applied' = Append(applied, b)
    /\ UNCHANGED <<live, base, published>>

GoLive ==
    /\ ~live
    /\ live' = TRUE
    /\ base' = Len(applied)
    /\ UNCHANGED <<applied, published>>

\* only the first live block may leave a gap behind it
Apply(b) ==
    /\ live
    /\ Settled
    /\ b > Newest
    /\ Len(applied) > base => b = Newest + 1
    /\ applied' = Append(applied, b)
    /\ UNCHANGED <<live, base, published>>

Publish ==
    /\ live
    /\ ~Settled
    /\ published' = Append(published, Newest)
    /\ UNCHANGED <<live, base, applied>>

FeedNext ==
    \/ \E b \in FeedBlocks : CatchUp(b) \/ Apply(b)
    \/ GoLive
    \/ Publish

FeedSpec == FeedInit /\ [][FeedNext]_feedVars

=============================================================================
