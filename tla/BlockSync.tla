------------------------------ MODULE BlockSync ------------------------------
(***************************************************************************)
(* From the node to the database: the block stream (stream.rs), the        *)
(* broadcast channel with its two receivers, the state updater with its    *)
(* catch-up (market_state.rs), the gas station (gas_station.rs) and the    *)
(* start-up order of ignition.rs.                                          *)
(*                                                                         *)
(* The node is external: it extends its chain, may replace a suffix of it  *)
(* (reorg), answers block-number and trace requests from its current       *)
(* chain, and announces headers in order to a subscription.  A header is   *)
(* its number and a version, which a reorg raises.  The state change of a  *)
(* block is abstracted to the fact that it was written: applied is the     *)
(* history of the calls of update_state, written the version of each block *)
(* the node traced for it.                                                 *)
(***************************************************************************)
EXTENDS Naturals, Sequences

CONSTANTS
    SyncedAt,    \* last_synced_block returned by sync_pools
    MaxBlock,    \* bound: the highest block the node produces
    Capacity,    \* headers the broadcast ring retains (100, rounded up, in the code)
    MaxReorgs,   \* bound: how often a suffix of the chain is replaced
    MayFail      \* which connections may fail: a subset of {"rpc", "ipc"}

ASSUME BlockSyncAssumption ==
    /\ SyncedAt \in Nat
    /\ MaxBlock \in Nat
    /\ SyncedAt <= MaxBlock
    /\ Capacity \in Nat \ {0}
    /\ MaxReorgs \in Nat
    /\ MayFail \subseteq {"rpc", "ipc"}

VARIABLES
    chain,        \* the node: chain[n] is the version of block n
    reorgs,       \* the node: how many reorgs have happened
    announceNext, \* the node: the next header the subscription delivers
    streamPc,     \* the task stream_new_blocks
    sent,         \* every Event::NewBlock ever sent on the broadcast channel
    cursor,       \* per receiver: how many events of sent it has consumed
    mainPc,       \* start_workers
    updaterPc,    \* the task state_updater
    last_synced_block, current_block, caught_up,
    block_number, \* the block in hand: block_num of the catch-up, then block_number
    gasPc,        \* the task update_gas
    base_fee,     \* the header the stored base fee was computed from
    applied,      \* history: the blocks update_state wrote, oldest first
    written,      \* history: the version of each block when it was traced, or 0
    published,    \* history: the blocks of the PoolsTouched events, oldest first
    handover      \* history: Len(applied) when caught_up was stored

nodeVars    == <<chain, reorgs, announceNext>>
streamVars  == <<streamPc, sent>>
syncVars    == <<last_synced_block, current_block, caught_up, block_number>>
gasVars     == <<gasPc, base_fee>>
historyVars == <<applied, written, published, handover>>
vars == <<nodeVars, streamVars, cursor, mainPc, updaterPc, syncVars, gasVars,
          historyVars>>

Receivers == {"updater", "gas"}
Blocks    == 1..MaxBlock
Headers   == [num : Blocks, ver : 1..(MaxReorgs + 1)]
NoHeader  == [num |-> 0, ver |-> 0]
HeadBlock == Len(chain)

NodeTypeOK ==
    /\ chain \in Seq(1..(MaxReorgs + 1)) /\ HeadBlock \in SyncedAt..MaxBlock
    /\ reorgs \in 0..MaxReorgs
    /\ announceNext \in 0..(MaxBlock + 1)

ChannelTypeOK ==
    /\ streamPc \in {"unborn", "connecting", "streaming", "ended"}
    /\ sent \in Seq(Headers)
    /\ cursor \in [Receivers -> Nat]
    /\ \A r \in Receivers : cursor[r] <= Len(sent)

TaskTypeOK ==
    /\ mainPc \in {"filter", "spawnGas", "warmUp", "spin", "running"}
    /\ updaterPc \in 
          {"unborn", "query", "test", "catchup", "recv", "update", "notify", "ended"}
    /\ gasPc \in {"unborn", "recv", "ended"}
    /\ base_fee \in Headers \cup {NoHeader}

SyncTypeOK ==
    /\ last_synced_block \in SyncedAt..MaxBlock
    /\ current_block \in 0..MaxBlock
    /\ caught_up \in BOOLEAN
    /\ block_number \in 0..(MaxBlock + 1)

HistoryTypeOK ==
    /\ applied \in Seq(Blocks)
    /\ written \in [Blocks -> 0..(MaxReorgs + 1)]
    /\ published \in Seq(Blocks)
    /\ handover \in Nat

TypeOK == NodeTypeOK /\ ChannelTypeOK /\ TaskTypeOK /\ SyncTypeOK /\ HistoryTypeOK

Init ==
    /\ chain = [n \in 1..SyncedAt |-> 1]
    /\ reorgs = 0
    /\ announceNext = 0
    /\ streamPc = "unborn"
    /\ sent = <<>>
    /\ cursor = [r \in Receivers |-> 0]
    /\ mainPc = "filter"
    /\ updaterPc = "unborn"
    /\ last_synced_block = SyncedAt
    /\ current_block = 0
    /\ caught_up = FALSE
    /\ block_number = 0
    /\ gasPc = "unborn"
    /\ base_fee = NoHeader
    /\ applied = <<>>
    /\ written = [b \in Blocks |-> 0]
    /\ published = <<>>
    /\ handover = 0

-----------------------------------------------------------------------------
(* The node. *)

MineBlock ==
    /\ HeadBlock < MaxBlock
    /\ chain' = Append(chain, 1)
    /\ UNCHANGED <<reorgs, announceNext, streamVars, cursor, mainPc, updaterPc,
                   syncVars, gasVars, historyVars>>

\* The blocks from b on are replaced; the subscription announces them again.
Reorg(b) ==
    /\ reorgs < MaxReorgs
    /\ b \in (SyncedAt + 1)..HeadBlock
    /\ reorgs' = reorgs + 1
    /\ chain' = [n \in DOMAIN chain |-> IF n < b THEN chain[n] ELSE reorgs + 2]
    /\ announceNext' = IF announceNext > b THEN b ELSE announceNext
    /\ UNCHANGED <<streamVars, cursor, mainPc, updaterPc, syncVars, gasVars, historyVars>>

-----------------------------------------------------------------------------
(* stream_new_blocks: subscribe, then forward every header. *)

Subscribe ==
    /\ streamPc = "connecting"
    /\ streamPc' = "streaming"
    /\ announceNext' = HeadBlock + 1
    /\ UNCHANGED <<chain, reorgs, sent, cursor, mainPc, updaterPc, syncVars, gasVars,
                   historyVars>>

SendNewBlock ==
    /\ streamPc = "streaming"
    /\ announceNext <= HeadBlock
    /\ sent' = Append(sent, [num |-> announceNext, ver |-> chain[announceNext]])
    /\ announceNext' = announceNext + 1
    /\ UNCHANGED <<chain, reorgs, streamPc, cursor, mainPc, updaterPc, syncVars,
                   gasVars, historyVars>>

\* The connection cannot be opened, or it closes: the task ends, and with it the
\* only sender of the channel.
StreamEnds ==
    /\ "ipc" \in MayFail
    /\ streamPc \in {"connecting", "streaming"}
    /\ streamPc' = "ended"
    /\ UNCHANGED <<nodeVars, sent, cursor, mainPc, updaterPc, syncVars, gasVars,
                   historyVars>>

-----------------------------------------------------------------------------
(* The broadcast channel, as a receiver sees it. *)

Lagged(r) == Len(sent) - cursor[r] > Capacity
Ready(r)  == cursor[r] < Len(sent) /\ ~Lagged(r)
Closed(r) == cursor[r] = Len(sent) /\ streamPc = "ended"
Event(r)  == sent[cursor[r] + 1]
Consume(r) == cursor' = [cursor EXCEPT ![r] = @ + 1]

-----------------------------------------------------------------------------
(* start_workers. *)

SpawnStream ==
    /\ mainPc = "filter"
    /\ mainPc' = "spawnGas"
    /\ streamPc' = "connecting"
    /\ UNCHANGED <<nodeVars, sent, cursor, updaterPc, syncVars, gasVars, historyVars>>

\* The gas station resubscribes: it sees what is sent from now on.
SpawnGas ==
    /\ mainPc = "spawnGas"
    /\ mainPc' = "warmUp"
    /\ cursor' = [cursor EXCEPT !["gas"] = Len(sent)]
    /\ gasPc' = "recv"
    /\ UNCHANGED <<nodeVars, streamVars, updaterPc, syncVars, base_fee, historyVars>>

\* init_state_and_start_stream: the database is filled, then the updater spawned.
SpawnUpdater ==
    /\ mainPc = "warmUp"
    /\ mainPc' = "spin"
    /\ updaterPc' = "query"
    /\ UNCHANGED <<nodeVars, streamVars, cursor, syncVars, gasVars, historyVars>>

\* Leave the spin loop, compute the first rates and start the other workers.
LeaveSpin ==
    /\ mainPc = "spin"
    /\ caught_up
    /\ mainPc' = "running"
    /\ UNCHANGED <<nodeVars, streamVars, cursor, updaterPc, syncVars, gasVars, historyVars>>

-----------------------------------------------------------------------------
(* state_updater. *)

\* Each mutant below is a plausible slip in the operator that follows it; the
\* specification does not use it.

\* update_state(b): trace the block the node has under this number now, then
\* rewrite the pools it touches under the write lock.
UpdateState(b) ==
    /\ applied' = Append(applied, b)
    /\ written' = [written EXCEPT ![b] = chain[b]]

\* The head the node answered lies past what was caught up with (l. 96); the
\* mutant does one round, as an if in place of the while would.
MutantOneRound == last_synced_block = SyncedAt /\ last_synced_block < current_block
Behind == last_synced_block < current_block

\* The inclusive range of the catch-up loop (l. 101).
InCatchUpRange == block_number <= current_block

SignalCaughtUp == caught_up' = TRUE /\ handover' = Len(applied)

\* A block the catch-up or an earlier header covered (l. 118).
MutantNeverSynced(b) == FALSE
MutantSkipsNext(b) == b <= last_synced_block + 1
AlreadySynced(b) == b <= last_synced_block

\* The touched pools go to the searcher, however few (l. 135).
MutantKeepQuiet(b) == UNCHANGED published
SendTouched(b) == published' = Append(published, b)

MutantForgetSynced(b) == UNCHANGED last_synced_block
MutantMarkNext(b) == last_synced_block' = b + 1
MarkSynced(b) == last_synced_block' = b

\* the task awaits the answer; the chain may move on before it is used
GetBlockNumber ==
    /\ updaterPc = "query"
    /\ current_block' = HeadBlock
    /\ updaterPc' = "test"
    /\ UNCHANGED <<nodeVars, streamVars, cursor, mainPc, last_synced_block, caught_up,
                   block_number, gasVars, historyVars>>

StartRound ==
    /\ updaterPc = "test"
    /\ Behind
    /\ block_number' = last_synced_block + 1
    /\ updaterPc' = "catchup"
    /\ UNCHANGED <<nodeVars, streamVars, cursor, mainPc, last_synced_block, current_block,
                   caught_up, gasVars, historyVars>>

GoLive ==
    /\ updaterPc = "test"
    /\ ~Behind
    /\ SignalCaughtUp
    /\ updaterPc' = "recv"
    /\ UNCHANGED <<nodeVars, streamVars, cursor, mainPc, last_synced_block, current_block,
                   block_number, gasVars, applied, written, published>>

CatchUpBlock ==
    /\ updaterPc = "catchup"
    /\ InCatchUpRange
    /\ UpdateState(block_number)
    /\ block_number' = block_number + 1
    /\ UNCHANGED <<nodeVars, streamVars, cursor, mainPc, updaterPc, last_synced_block,
                   current_block, caught_up, gasVars, published, handover>>

CatchUpRoundDone ==
    /\ updaterPc = "catchup"
    /\ ~InCatchUpRange
    /\ MarkSynced(current_block)
    /\ updaterPc' = "query"
    /\ UNCHANGED <<nodeVars, streamVars, cursor, mainPc, current_block, caught_up,
                   block_number, gasVars, historyVars>>

SkipBlock ==
    /\ updaterPc = "recv"
    /\ Ready("updater")
    /\ AlreadySynced(Event("updater").num)
    /\ Consume("updater")
    /\ UNCHANGED <<nodeVars, streamVars, mainPc, updaterPc, syncVars, gasVars, historyVars>>

TakeBlock ==
    /\ updaterPc = "recv"
    /\ Ready("updater")
    /\ ~AlreadySynced(Event("updater").num)
    /\ Consume("updater")
    /\ block_number' = Event("updater").num
    /\ updaterPc' = "update"
    /\ UNCHANGED <<nodeVars, streamVars, mainPc, last_synced_block, current_block,
                   caught_up, gasVars, historyVars>>

StreamUpdate ==
    /\ updaterPc = "update"
    /\ UpdateState(block_number)
    /\ updaterPc' = "notify"
    /\ UNCHANGED <<nodeVars, streamVars, cursor, mainPc, syncVars, gasVars, published,
                   handover>>

\* address_tx.send, whose failure is only logged, then the bookkeeping.
SendPoolsTouched ==
    /\ updaterPc = "notify"
    /\ SendTouched(block_number)
    /\ MarkSynced(block_number)
    /\ updaterPc' = "recv"
    /\ UNCHANGED <<nodeVars, streamVars, cursor, mainPc, current_block, caught_up,
                   block_number, gasVars, applied, written, handover>>

\* recv answers Lagged or Closed: the while-let pattern fails and the task returns.
UpdaterLoopEnds ==
    /\ updaterPc = "recv"
    /\ Lagged("updater") \/ Closed("updater")
    /\ updaterPc' = "ended"
    /\ UNCHANGED <<nodeVars, streamVars, cursor, mainPc, syncVars, gasVars, historyVars>>

\* get_block_number and debug_trace_block unwrap the answer of the node: the task
\* dies where it awaits one.
UpdaterPanics ==
    /\ "rpc" \in MayFail
    /\ \/ updaterPc \in {"query", "update"}
       \/ updaterPc = "catchup" /\ InCatchUpRange
    /\ updaterPc' = "ended"
    /\ UNCHANGED <<nodeVars, streamVars, cursor, mainPc, syncVars, gasVars, historyVars>>

-----------------------------------------------------------------------------
(* update_gas. *)

\* the mutant skips block numbers it has seen, as the updater does
MutantSkipSeen(h) == base_fee' = IF h.num > base_fee.num THEN h ELSE base_fee
StoreFee(h) == base_fee' = h

UpdateGas ==
    /\ gasPc = "recv"
    /\ Ready("gas")
    /\ Consume("gas")
    /\ StoreFee(Event("gas"))
    /\ UNCHANGED <<nodeVars, streamVars, mainPc, updaterPc, syncVars, gasPc, historyVars>>

GasLoopEnds ==
    /\ gasPc = "recv"
    /\ Lagged("gas") \/ Closed("gas")
    /\ gasPc' = "ended"
    /\ UNCHANGED <<nodeVars, streamVars, cursor, mainPc, updaterPc, syncVars, base_fee,
                   historyVars>>

-----------------------------------------------------------------------------
Node    == MineBlock \/ \E b \in Blocks : Reorg(b)
Stream  == Subscribe \/ SendNewBlock
Main    == SpawnStream \/ SpawnGas \/ SpawnUpdater \/ LeaveSpin
Updater ==
    \/ GetBlockNumber \/ StartRound \/ GoLive \/ CatchUpBlock \/ CatchUpRoundDone
    \/ SkipBlock \/ TakeBlock \/ StreamUpdate \/ SendPoolsTouched \/ UpdaterLoopEnds
Gas     == UpdateGas \/ GasLoopEnds

\* The node has reached the bound and every task waits for it or has ended: the
\* model stops here, the program would not.
Quiet ==
    /\ HeadBlock = MaxBlock
    /\ streamPc = "ended" \/ (streamPc = "streaming" /\ announceNext > HeadBlock)
    /\ mainPc = "running" \/ (mainPc = "spin" /\ updaterPc = "ended")
    /\ updaterPc = "ended" \/ (updaterPc = "recv" /\ cursor["updater"] = Len(sent))
    /\ gasPc = "ended" \/ cursor["gas"] = Len(sent)
    /\ UNCHANGED vars

Next == Node \/ Stream \/ StreamEnds \/ Main \/ Updater \/ UpdaterPanics \/ Gas \/ Quiet

Spec == Init /\ [][Next]_vars

\* The tasks run on the tokio runtime, which polls a ready task again and again;
\* connecting and subscribing are assumed to be answered.  The node owes nothing.
FairSpec ==
    Spec /\ WF_vars(Stream) /\ WF_vars(Main) /\ WF_vars(Updater) /\ WF_vars(Gas)

-----------------------------------------------------------------------------
(* Properties. *)

\* Every block is written at most once and in the order of the chain, whatever
\* the stream repeats: the skip test of the receive loop covers the blocks of the
\* catch-up and the headers a reorg announces again.
NeverReprocessed ==
    \A i, j \in DOMAIN applied : i < j => applied[i] < applied[j]

\* When caught_up is stored the database holds every block up to the head the node
\* answered last, however often the head moved during the rounds of the catch-up;
\* what was mined after that answer is left to the stream.
CaughtUpToHead ==
    [][caught_up' /\ ~caught_up =>
         \A b \in (SyncedAt + 1)..current_block :
             \E i \in DOMAIN applied : applied[i] = b]_vars

\* The catch-up is the race of module CatchUp, distances in place of numbers.
Race == INSTANCE CatchUp WITH
            MaxLag  <- MaxBlock,
            RequestsFail <- "rpc" \in MayFail,
            raceMainPc <- IF mainPc \in {"filter", "spawnGas"} THEN "warmUp" ELSE mainPc,
            racePc  <- IF caught_up THEN "live" ELSE updaterPc,
            behind  <- HeadBlock - SyncedAt -
                           (IF caught_up THEN handover ELSE Len(applied)),
            todo    <- CASE updaterPc = "test"    -> current_block - last_synced_block
                         [] updaterPc = "catchup" -> current_block + 1 - block_number
                         [] OTHER                 -> 0,
            round   <- 0,
            shrinks <- FALSE
RaceRefined == Race!RaceSpec

\* The updater implements the feed the searcher relies on: consecutive blocks,
\* each announced before the next is written, a gap only at the first live block.
Feed == INSTANCE BlockFeed WITH
            FeedBlocks <- Blocks, live <- caught_up, base <- handover
FeedRefined == Feed!FeedSpec

\* the headers that can be announced: the synced part of the chain stays
NewHeaders == {h \in Headers : h.num > SyncedAt}

Announced(h) == \E i \in DOMAIN sent : sent[i] = h

\* h is the first header of its number or above, and its block is not written yet.
Fresh(h) ==
    /\ written[h.num] = 0
    /\ \E i \in DOMAIN sent :
          sent[i] = h /\ \A j \in 1..(i - 1) : sent[j].num < h.num

\* The block of every header that is new to the stream and to the database is
\* written sooner or later, in the version announced or a newer one, or the updater
\* has ended: nothing between the channel and the database gets stuck or lost.
SentBlocksReflected ==
    \A h \in NewHeaders : Fresh(h) ~> (written[h.num] >= h.ver \/ updaterPc = "ended")

\* The skip test is there, says its comment (market_state.rs:117), so that blocks
\* the catch-up covered are not processed again.  It also drops blocks nobody has
\* processed: those a reorg puts in the place of written ones, so that the database
\* keeps the state of the orphaned versions.
ReorgsReflected ==
    \A h \in NewHeaders : Announced(h) ~> (written[h.num] >= h.ver \/ updaterPc = "ended")

\* What ignition.rs:34 promises of the stream: no block sent is missed.  It fails
\* without any failure of the node: blocks pile up in the ring during start-up,
\* and the first recv after the catch-up answers Lagged, which ends the updater.
NoBlockMissed ==
    \A b \in Blocks :
        (\E i \in DOMAIN sent : sent[i].num = b) ~> (last_synced_block >= b)

\* Once the chain is quiet the gas station, while it lives, holds the fee of the
\* last header sent since it subscribed, a repeated block number included.
FeeFollowsHead ==
    <>[](gasPc = "recv" /\ base_fee # NoHeader => base_fee = sent[Len(sent)])

-----------------------------------------------------------------------------
(* The inductive invariant, by the part of the state it speaks of. *)

Newest == Feed!Newest

\* Main starts the tasks in order, and the updater reads nothing before it is live.
StartInv ==
    /\ mainPc = "filter" => streamPc = "unborn"
    /\ mainPc \in {"filter", "spawnGas", "warmUp"} => updaterPc = "unborn"
    /\ updaterPc \in {"unborn", "query", "test", "catchup"} => cursor["updater"] = 0

\* Headers are announced in order; only a reorg goes back, and never leaps ahead.
LogInv ==
    /\ streamPc \in {"unborn", "connecting"} => sent = <<>>
    /\ streamPc = "streaming" => announceNext >= 1
    /\ \A i \in DOMAIN sent : sent[i].num <= HeadBlock
    /\ \A i \in 1..(Len(sent) - 1) : sent[i + 1].num <= sent[i].num + 1
    /\ sent # <<>> => announceNext <= sent[Len(sent)].num + 1

\* What has been written: the catch-up's blocks follow the sync block, the live
\* ones follow each other.
WrittenInv ==
    /\ ~caught_up => published = <<>> /\ handover = 0
    /\ ~caught_up => \A i \in DOMAIN applied : applied[i] = SyncedAt + i
    /\ caught_up => handover <= Len(applied)
    /\ \A i \in DOMAIN applied : applied[i] > SyncedAt
    /\ NeverReprocessed

\* The updater's locals agree with what it has written and read.
UpdaterInv ==
    /\ updaterPc \in {"unborn", "query", "test", "catchup"} => ~caught_up
    /\ updaterPc \in {"recv", "update", "notify"} => caught_up
    /\ updaterPc \in {"unborn", "query", "test"} =>
          last_synced_block = SyncedAt + Len(applied) /\ last_synced_block <= HeadBlock
    /\ updaterPc = "test" =>
          last_synced_block <= current_block /\ current_block <= HeadBlock
    /\ updaterPc = "catchup" =>
          /\ block_number = SyncedAt + Len(applied) + 1
          /\ block_number <= current_block + 1
          /\ current_block <= HeadBlock
    /\ updaterPc \in {"recv", "update"} =>
          last_synced_block = Newest /\ Len(applied) = handover + Len(published)
    /\ updaterPc = "notify" =>
          block_number = Newest /\ Len(applied) = handover + Len(published) + 1
    /\ updaterPc = "update" =>
          /\ last_synced_block < block_number /\ block_number <= HeadBlock
          /\ Len(applied) > handover => block_number = Newest + 1

\* What the updater has read from the channel lies at or below what it holds.
CursorInv ==
    /\ caught_up /\ Len(applied) > handover => cursor["updater"] > 0
    /\ updaterPc = "recv" /\ cursor["updater"] > 0 =>
          sent[cursor["updater"]].num <= last_synced_block
    /\ updaterPc \in {"update", "notify"} =>
          cursor["updater"] > 0 /\ sent[cursor["updater"]].num = block_number

\* The history the updater leaves behind and its locals always fit together: the
\* strengthening under which the ordering and the refinement are inductive.
SyncInv == StartInv /\ LogInv /\ WrittenInv /\ UpdaterInv /\ CursorInv

=============================================================================
