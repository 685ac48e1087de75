--------------------------- MODULE BlockSyncProofs ---------------------------
(***************************************************************************)
(* Proofs about BlockSync for every chain length, ring capacity, number of *)
(* reorgs and set of failing connections.  TypeOK /\ SyncInv is inductive; *)
(* the ordering of the updates and the refinement of BlockFeed follow.     *)
(***************************************************************************)
EXTENDS BlockSync, TLAPS

IInv == TypeOK /\ SyncInv

\* the one-line operators the actions are built from
USE DEF Behind, InCatchUpRange, SignalCaughtUp, AlreadySynced, SendTouched, MarkSynced,
        StoreFee

\* The initial state satisfies the inductive invariant.
LEMMA InitEstablishes == Init => IInv
<1> SUFFICES ASSUME Init PROVE IInv
  OBVIOUS
<1> USE BlockSyncAssumption
<1>1. TypeOK
  <2>1. NodeTypeOK
    <3>1. 1 \in 1..(MaxReorgs + 1)
      OBVIOUS
    <3>2. chain = [n \in 1..SyncedAt |-> 1]
      BY DEF Init
    <3>3. chain \in Seq(1..(MaxReorgs + 1)) /\ Len(chain) = SyncedAt
      BY <3>1, <3>2
    <3> QED BY <3>3 DEF Init, NodeTypeOK, HeadBlock
  <2>2. ChannelTypeOK
    BY DEF Init, ChannelTypeOK, Receivers
  <2>3. TaskTypeOK
    BY Zenon DEF Init, TaskTypeOK
  <2>5. SyncTypeOK
    <3>1. caught_up \in BOOLEAN
      BY Zenon DEF Init
    <3>2. /\ last_synced_block \in SyncedAt..MaxBlock /\ current_block \in 0..MaxBlock
          /\ block_number \in 0..(MaxBlock + 1)
      BY DEF Init
    <3> QED BY <3>1, <3>2 DEF SyncTypeOK
  <2>4. HistoryTypeOK
    BY DEF Init, HistoryTypeOK, Blocks
  <2> QED BY <2>1, <2>2, <2>3, <2>4, <2>5 DEF TypeOK
<1>2. SyncInv
  BY <1>1 DEF Init, TypeOK, NodeTypeOK, HeadBlock, SyncInv, StartInv, LogInv, WrittenInv, NeverReprocessed, UpdaterInv, CursorInv,
     Receivers
<1> QED BY <1>1, <1>2 DEF IInv

\* Every step keeps the variables in their types; the bounds of chain[b] and of
\* the header to announce come from SyncInv.
LEMMA TypeStep == IInv /\ [Next]_vars => TypeOK'
<1> SUFFICES ASSUME IInv, [Next]_vars PROVE TypeOK'
  OBVIOUS
<1> USE BlockSyncAssumption DEF nodeVars, streamVars, syncVars, gasVars, historyVars
<1> NodeTypeOK /\ ChannelTypeOK /\ TaskTypeOK /\ SyncTypeOK /\ HistoryTypeOK /\ SyncInv
  BY DEF IInv, TypeOK
<1>1. CASE MineBlock
  <2>1. chain' \in Seq(1..(MaxReorgs + 1)) /\ Len(chain') = Len(chain) + 1
    BY <1>1 DEF MineBlock, NodeTypeOK
  <2>2. NodeTypeOK'
    BY <1>1, <2>1 DEF MineBlock, NodeTypeOK, HeadBlock
  <2> QED BY <1>1, <2>2 DEF MineBlock, TypeOK, ChannelTypeOK, TaskTypeOK, SyncTypeOK, HistoryTypeOK
<1>2. ASSUME NEW b \in Blocks, Reorg(b) PROVE TypeOK'
  <2> DEFINE R == 1..(MaxReorgs + 1)
  <2>1. chain' \in Seq(R) /\ Len(chain') = Len(chain)
    <3>1. reorgs + 2 \in R
      BY <1>2 DEF Reorg, NodeTypeOK
    <3>2. chain \in Seq(R) /\ DOMAIN chain = 1..Len(chain) /\ Len(chain) \in Nat
      BY DEF NodeTypeOK
    <3>3. \A n \in DOMAIN chain : (IF n < b THEN chain[n] ELSE reorgs + 2) \in R
      BY <3>1, <3>2
    <3>4. chain' = [n \in DOMAIN chain |-> IF n < b THEN chain[n] ELSE reorgs + 2]
      BY <1>2 DEF Reorg
    <3> HIDE DEF R
    <3> QED BY <3>2, <3>3, <3>4
  <2>2. NodeTypeOK'
    BY <1>2, <2>1 DEF Reorg, NodeTypeOK, HeadBlock
  <2> QED BY <1>2, <2>2 DEF Reorg, TypeOK, ChannelTypeOK, TaskTypeOK, SyncTypeOK, HistoryTypeOK
<1>3. CASE Subscribe
  BY <1>3 DEF Subscribe, TypeOK, NodeTypeOK, HeadBlock, ChannelTypeOK, TaskTypeOK, SyncTypeOK, HistoryTypeOK
<1>4. CASE SendNewBlock
  <2>1. announceNext \in 1..Len(chain) /\ announceNext \in Blocks
    BY <1>4 DEF SendNewBlock, SyncInv, LogInv, NodeTypeOK, HeadBlock, Blocks
  <2>2. [num |-> announceNext, ver |-> chain[announceNext]] \in Headers
    <3>1. chain[announceNext] \in 1..(MaxReorgs + 1)
      BY <2>1 DEF NodeTypeOK
    <3> QED BY <2>1, <3>1 DEF Headers
  <2>3. sent' \in Seq(Headers) /\ Len(sent') = Len(sent) + 1
    BY <1>4, <2>2 DEF SendNewBlock, ChannelTypeOK
  <2>4. ChannelTypeOK'
    BY <1>4, <2>3 DEF SendNewBlock, ChannelTypeOK, Receivers
  <2>5. NodeTypeOK'
    BY <1>4, <2>1 DEF SendNewBlock, NodeTypeOK, HeadBlock, Blocks
  <2> QED BY <1>4, <2>4, <2>5 DEF SendNewBlock, TypeOK, TaskTypeOK, SyncTypeOK, HistoryTypeOK
<1>5. CASE StreamEnds
  BY <1>5 DEF StreamEnds, TypeOK, NodeTypeOK, HeadBlock, ChannelTypeOK, TaskTypeOK, SyncTypeOK, HistoryTypeOK
<1>6. CASE Main
  <2>1. ChannelTypeOK'
    BY <1>6 DEF Main, SpawnStream, SpawnGas, SpawnUpdater, LeaveSpin, ChannelTypeOK, Receivers
  <2>2. TaskTypeOK'
    BY <1>6 DEF Main, SpawnStream, SpawnGas, SpawnUpdater, LeaveSpin, TaskTypeOK
  <2>3. NodeTypeOK' /\ SyncTypeOK' /\ HistoryTypeOK'
    BY <1>6 DEF Main, SpawnStream, SpawnGas, SpawnUpdater, LeaveSpin, NodeTypeOK, HeadBlock,
       SyncTypeOK, HistoryTypeOK
  <2> QED BY <2>1, <2>2, <2>3 DEF TypeOK
<1>w. ASSUME NEW b \in Blocks, UpdateState(b), b <= Len(chain)
      PROVE  applied' \in Seq(Blocks) /\ written' \in [Blocks -> 0..(MaxReorgs + 1)]
  <2>1. applied' \in Seq(Blocks)
    BY <1>w DEF UpdateState, HistoryTypeOK
  <2>2. chain[b] \in 0..(MaxReorgs + 1)
    BY <1>w DEF NodeTypeOK, Blocks
  <2> QED BY <1>w, <2>1, <2>2 DEF UpdateState, HistoryTypeOK
<1>7. CASE GetBlockNumber
  BY <1>7 DEF GetBlockNumber, TypeOK, NodeTypeOK, HeadBlock, ChannelTypeOK, TaskTypeOK, SyncTypeOK, HistoryTypeOK
<1>8. CASE StartRound
  BY <1>8 DEF StartRound, TypeOK, NodeTypeOK, HeadBlock, ChannelTypeOK, TaskTypeOK, SyncTypeOK, HistoryTypeOK
<1>20. CASE GoLive
  BY <1>20 DEF GoLive, TypeOK, NodeTypeOK, HeadBlock, ChannelTypeOK, TaskTypeOK, SyncTypeOK, HistoryTypeOK
<1>9. CASE CatchUpBlock
  <2>1. block_number \in 1..Len(chain) /\ block_number \in Blocks
    <3>1. block_number = SyncedAt + Len(applied) + 1 /\ current_block <= Len(chain)
      BY <1>9 DEF CatchUpBlock, SyncInv, UpdaterInv, HeadBlock
    <3>2. Len(applied) \in Nat /\ Len(chain) \in Nat /\ Len(chain) <= MaxBlock
      BY DEF HistoryTypeOK, NodeTypeOK, HeadBlock
    <3>3. block_number <= current_block /\ current_block \in Nat
      BY <1>9 DEF CatchUpBlock, SyncTypeOK
    <3> QED BY <3>1, <3>2, <3>3 DEF Blocks
  <2>2. HistoryTypeOK'
    BY <1>9, <2>1, <1>w DEF CatchUpBlock, HistoryTypeOK
  <2>3. SyncTypeOK'
    BY <1>9, <2>1 DEF CatchUpBlock, SyncTypeOK, Blocks
  <2> QED BY <1>9, <2>2, <2>3 DEF CatchUpBlock, TypeOK, NodeTypeOK, HeadBlock, ChannelTypeOK, TaskTypeOK
<1>10. CASE CatchUpRoundDone
  <2>1. SyncTypeOK'
    BY <1>10 DEF CatchUpRoundDone, SyncTypeOK, SyncInv, UpdaterInv, HistoryTypeOK
  <2> QED BY <1>10, <2>1 DEF CatchUpRoundDone, TypeOK, NodeTypeOK, HeadBlock, ChannelTypeOK, TaskTypeOK, HistoryTypeOK
<1>11. CASE SkipBlock
  BY <1>11 DEF SkipBlock, Ready, Consume, TypeOK, NodeTypeOK, HeadBlock, ChannelTypeOK, TaskTypeOK,
     SyncTypeOK, HistoryTypeOK, Receivers
<1>12. CASE TakeBlock
  <2>1. ChannelTypeOK'
    BY <1>12 DEF TakeBlock, Ready, Consume, ChannelTypeOK, Receivers
  <2>2. Event("updater") \in Headers
    BY <1>12 DEF TakeBlock, Ready, Event, ChannelTypeOK, Receivers
  <2>3. SyncTypeOK'
    BY <1>12, <2>2 DEF TakeBlock, SyncTypeOK, Headers, Blocks
  <2> QED BY <1>12, <2>1, <2>3 DEF TakeBlock, TypeOK, NodeTypeOK, HeadBlock, TaskTypeOK, HistoryTypeOK
<1>13. CASE StreamUpdate
  <2>1. block_number \in 1..Len(chain) /\ block_number \in Blocks
    BY <1>13 DEF StreamUpdate, SyncInv, UpdaterInv, NodeTypeOK, SyncTypeOK, HeadBlock, Blocks
  <2>2. HistoryTypeOK'
    BY <1>13, <2>1, <1>w DEF StreamUpdate, HistoryTypeOK
  <2> QED BY <1>13, <2>2 DEF StreamUpdate, TypeOK, NodeTypeOK, HeadBlock, ChannelTypeOK, TaskTypeOK, SyncTypeOK
<1>14. CASE SendPoolsTouched
  <2>1. block_number = Newest /\ Len(applied) > 0
    BY <1>14 DEF SendPoolsTouched, SyncInv, UpdaterInv, HistoryTypeOK
  <2>2. block_number \in Blocks
    BY <2>1 DEF Newest, Feed!Newest, HistoryTypeOK
  <2>3. block_number >= SyncedAt
    BY <2>1 DEF Newest, Feed!Newest, HistoryTypeOK, SyncInv, WrittenInv, Blocks
  <2>4. SyncTypeOK' /\ HistoryTypeOK'
    BY <1>14, <2>2, <2>3 DEF SendPoolsTouched, SyncTypeOK, HistoryTypeOK, Blocks
  <2> QED BY <1>14, <2>4 DEF SendPoolsTouched, TypeOK, NodeTypeOK, HeadBlock, ChannelTypeOK, TaskTypeOK
<1>15. CASE UpdaterLoopEnds
  BY <1>15 DEF UpdaterLoopEnds, TypeOK, NodeTypeOK, HeadBlock, ChannelTypeOK, TaskTypeOK, SyncTypeOK, HistoryTypeOK
<1>16. CASE UpdaterPanics
  BY <1>16 DEF UpdaterPanics, TypeOK, NodeTypeOK, HeadBlock, ChannelTypeOK, TaskTypeOK, SyncTypeOK, HistoryTypeOK
<1>17. CASE UpdateGas
  <2>1. ChannelTypeOK'
    BY <1>17 DEF UpdateGas, Ready, Consume, ChannelTypeOK, Receivers
  <2>2. Event("gas") \in Headers
    BY <1>17 DEF UpdateGas, Ready, Event, ChannelTypeOK, Receivers
  <2> QED BY <1>17, <2>1, <2>2 DEF UpdateGas, TypeOK, NodeTypeOK, HeadBlock, TaskTypeOK, SyncTypeOK, HistoryTypeOK
<1>18. CASE GasLoopEnds
  BY <1>18 DEF GasLoopEnds, TypeOK, NodeTypeOK, HeadBlock, ChannelTypeOK, TaskTypeOK, SyncTypeOK, HistoryTypeOK
<1>19. CASE UNCHANGED vars
  BY <1>19 DEF vars, TypeOK, NodeTypeOK, HeadBlock, ChannelTypeOK, TaskTypeOK, SyncTypeOK, HistoryTypeOK
<1> QED
  BY <1>1, <1>2, <1>3, <1>4, <1>5, <1>6, <1>7, <1>8, <1>9, <1>10, <1>11, <1>12, <1>13,
     <1>14, <1>15, <1>16, <1>17, <1>18, <1>19, <1>20
     DEF Next, Node, Stream, Updater, Gas, Quiet

\* Every step keeps SyncInv.  The node and the stream disturb only the log, the
\* updater only its own history, its locals and its cursor.
LEMMA SyncStep == IInv /\ [Next]_vars => SyncInv'
<1> SUFFICES ASSUME IInv, [Next]_vars PROVE SyncInv'
  OBVIOUS
<1> USE BlockSyncAssumption DEF nodeVars, streamVars, syncVars, gasVars, historyVars
<1> NodeTypeOK /\ ChannelTypeOK /\ TaskTypeOK /\ SyncTypeOK /\ HistoryTypeOK
  BY DEF IInv, TypeOK
<1> StartInv /\ LogInv /\ WrittenInv /\ UpdaterInv /\ CursorInv
  BY DEF IInv, SyncInv
<1>a. ASSUME UNCHANGED <<streamPc, sent, announceNext, chain>> PROVE LogInv'
  BY <1>a DEF LogInv, HeadBlock
<1>b. ASSUME UNCHANGED <<caught_up, published, handover, applied>> PROVE WrittenInv'
  BY <1>b DEF WrittenInv, NeverReprocessed
<1>c. ASSUME UNCHANGED <<updaterPc, syncVars, applied, published, handover>>,
             Len(chain') >= Len(chain)
      PROVE  UpdaterInv'
  BY <1>c DEF UpdaterInv, Newest, Feed!Newest, HeadBlock, NodeTypeOK, SyncTypeOK
<1>d. ASSUME UNCHANGED <<updaterPc, syncVars, applied, handover>>,
             cursor'["updater"] = cursor["updater"],
             cursor["updater"] > 0 => sent'[cursor["updater"]] = sent[cursor["updater"]]
      PROVE  CursorInv'
  BY <1>d DEF CursorInv
<1>e. ASSUME UNCHANGED <<mainPc, streamPc, updaterPc>>,
             cursor'["updater"] = cursor["updater"]
      PROVE  StartInv'
  BY <1>e DEF StartInv
<1>f. /\ DOMAIN sent = 1..Len(sent) /\ Len(sent) \in Nat
      /\ \A i \in 1..Len(sent) : sent[i].num \in Nat
  <2>1. sent \in Seq(Headers)
    BY DEF ChannelTypeOK
  <2>2. \A i \in 1..Len(sent) : sent[i] \in Headers
    BY <2>1
  <2> QED BY <2>1, <2>2 DEF Headers, Blocks
<1>g. /\ DOMAIN applied = 1..Len(applied) /\ Len(applied) \in Nat
      /\ \A i \in 1..Len(applied) : applied[i] \in Nat
  BY DEF HistoryTypeOK, Blocks
<1>h. Len(chain) \in Nat /\ announceNext \in Nat
  BY DEF NodeTypeOK
<1>1. CASE MineBlock
  <2>1. Len(chain') = Len(chain) + 1
    BY <1>1 DEF MineBlock, NodeTypeOK
  <2>2. LogInv'
    BY <1>1, <2>1, <1>f, <1>h DEF MineBlock, LogInv, HeadBlock
  <2>3. UpdaterInv'
    BY <1>1, <2>1, <1>c DEF MineBlock, NodeTypeOK
  <2> QED BY <1>1, <2>2, <2>3, <1>b, <1>d, <1>e DEF MineBlock, SyncInv
<1>2. ASSUME NEW b \in Blocks, Reorg(b) PROVE SyncInv'
  <2>1. Len(chain') = Len(chain)
    BY <1>2 DEF Reorg, NodeTypeOK
  <2>2. /\ announceNext' <= announceNext
        /\ announceNext >= 1 => announceNext' >= 1
    BY <1>2 DEF Reorg, NodeTypeOK, Blocks
  <2>3. LogInv'
    <3>1. sent # <<>> => announceNext' <= sent[Len(sent)].num + 1
      <4>1. announceNext' \in Nat
        BY <1>2, <1>h DEF Reorg, Blocks
      <4>2. sent # <<>> => Len(sent) \in 1..Len(sent)
        BY <1>f DEF ChannelTypeOK
      <4> QED BY <2>2, <4>1, <4>2, <1>f, <1>h DEF LogInv
    <3> QED BY <1>2, <2>1, <2>2, <3>1 DEF Reorg, LogInv, HeadBlock
  <2>4. UpdaterInv'
    BY <1>2, <2>1, <1>c DEF Reorg, NodeTypeOK
  <2> QED BY <1>2, <2>3, <2>4, <1>b, <1>d, <1>e DEF Reorg, SyncInv
<1>3. CASE Subscribe
  <2>1. LogInv'
    BY <1>3 DEF Subscribe, LogInv, HeadBlock, NodeTypeOK
  <2> QED BY <1>3, <2>1, <1>b, <1>c, <1>d, <1>e DEF Subscribe, SyncInv, StartInv, NodeTypeOK
<1>4. CASE SendNewBlock
  <2> DEFINE h == [num |-> announceNext, ver |-> chain[announceNext]]
  <2>1. sent' = Append(sent, h) /\ announceNext' = announceNext + 1
        /\ announceNext \in 1..Len(chain) /\ UNCHANGED <<chain, streamPc>>
        /\ streamPc = "streaming"
    BY <1>4 DEF SendNewBlock, LogInv, NodeTypeOK, HeadBlock
  <2>2. h.num = announceNext
    OBVIOUS
  <2> HIDE DEF h
  <2>3. /\ Len(sent') = Len(sent) + 1
        /\ \A i \in 1..Len(sent) : sent'[i] = sent[i]
        /\ sent'[Len(sent) + 1] = h
        /\ DOMAIN sent = 1..Len(sent) /\ Len(sent) \in Nat
        /\ DOMAIN sent' = 1..(Len(sent) + 1)
    BY <2>1 DEF ChannelTypeOK
  <2>4. \A i \in DOMAIN sent' : sent'[i].num <= Len(chain)
    BY <2>1, <2>2, <2>3 DEF LogInv, HeadBlock
  <2>5. \A i \in 1..(Len(sent') - 1) : sent'[i + 1].num <= sent'[i].num + 1
    <3> SUFFICES ASSUME NEW i \in 1..Len(sent)
                 PROVE  sent'[i + 1].num <= sent'[i].num + 1
      BY <2>3
    <3>1. CASE i = Len(sent)
      BY <3>1, <2>1, <2>2, <2>3 DEF LogInv
    <3>2. CASE i < Len(sent)
      <4>1. i \in 1..(Len(sent) - 1) /\ i + 1 \in 1..Len(sent)
        BY <3>2, <2>3
      <4>2. sent[i + 1].num <= sent[i].num + 1
        BY <4>1 DEF LogInv
      <4> QED BY <4>1, <4>2, <2>3
    <3>3. i \in Nat /\ i <= Len(sent) /\ Len(sent) \in Nat
      BY <2>3
    <3> QED BY <3>1, <3>2, <3>3
  <2>6. sent' # <<>> /\ announceNext' <= sent'[Len(sent')].num + 1
    BY <2>1, <2>2, <2>3
  <2>7. LogInv'
    BY <2>1, <2>4, <2>5, <2>6 DEF LogInv, HeadBlock
  <2>8. CursorInv'
    BY <1>4, <1>d, <2>3 DEF SendNewBlock, ChannelTypeOK, Receivers
  <2> QED BY <1>4, <2>7, <2>8, <1>b, <1>c, <1>e DEF SendNewBlock, SyncInv, NodeTypeOK
<1>5. CASE StreamEnds
  <2>1. LogInv'
    BY <1>5 DEF StreamEnds, LogInv, HeadBlock
  <2> QED BY <1>5, <2>1, <1>b, <1>c, <1>d, <1>e DEF StreamEnds, SyncInv, StartInv, NodeTypeOK
<1>6. CASE SpawnStream
  <2>1. LogInv'
    BY <1>6 DEF SpawnStream, LogInv, HeadBlock, StartInv
  <2> QED BY <1>6, <2>1, <1>b, <1>c, <1>d, <1>e DEF SpawnStream, SyncInv, StartInv, NodeTypeOK
<1>7. CASE SpawnGas
  <2>1. cursor'["updater"] = cursor["updater"]
    BY <1>7 DEF SpawnGas, ChannelTypeOK, Receivers
  <2> QED BY <1>7, <2>1, <1>a, <1>b, <1>c, <1>d, <1>e DEF SpawnGas, SyncInv, StartInv, NodeTypeOK
<1>8. CASE SpawnUpdater
  <2>1. UpdaterInv' /\ CursorInv'
    BY <1>8 DEF SpawnUpdater, UpdaterInv, CursorInv, HeadBlock, StartInv
  <2> QED BY <1>8, <2>1, <1>a, <1>b DEF SpawnUpdater, SyncInv, StartInv
<1>9. CASE LeaveSpin
  BY <1>9, <1>a, <1>b, <1>c, <1>d, <1>e DEF LeaveSpin, SyncInv, StartInv, NodeTypeOK
<1>10. CASE GetBlockNumber
  <2>1. UpdaterInv' /\ CursorInv'
    BY <1>10 DEF GetBlockNumber, UpdaterInv, CursorInv, HeadBlock
  <2> QED BY <1>10, <2>1, <1>a, <1>b DEF GetBlockNumber, SyncInv, StartInv
<1>23. CASE StartRound
  <2>1. UpdaterInv' /\ CursorInv'
    BY <1>23 DEF StartRound, UpdaterInv, CursorInv, HeadBlock, NodeTypeOK, SyncTypeOK, HistoryTypeOK
  <2> QED BY <1>23, <2>1, <1>a, <1>b DEF StartRound, SyncInv, StartInv
<1>11. CASE GoLive
  <2>1. Newest = last_synced_block
    BY <1>11 DEF GoLive, UpdaterInv, WrittenInv, Newest, Feed!Newest, HistoryTypeOK
  <2>2. UpdaterInv'
    BY <1>11, <2>1 DEF GoLive, UpdaterInv, WrittenInv, Newest, Feed!Newest, HistoryTypeOK
  <2>3. WrittenInv'
    BY <1>11 DEF GoLive, UpdaterInv, WrittenInv, NeverReprocessed, HistoryTypeOK
  <2>4. CursorInv'
    BY <1>11 DEF GoLive, CursorInv, StartInv
  <2> QED BY <1>11, <2>2, <2>3, <2>4, <1>a DEF GoLive, SyncInv, StartInv
<1>12. CASE CatchUpBlock
  <2>1. /\ ~caught_up /\ handover = 0 /\ published = <<>>
        /\ block_number = SyncedAt + Len(applied) + 1
        /\ applied' = Append(applied, block_number) /\ block_number \in Blocks
        /\ \A i \in DOMAIN applied : applied[i] = SyncedAt + i
    BY <1>12 DEF CatchUpBlock, UpdateState, UpdaterInv, WrittenInv, SyncTypeOK, HistoryTypeOK, Blocks
  <2>2. /\ Len(applied') = Len(applied) + 1 /\ DOMAIN applied' = 1..(Len(applied) + 1)
        /\ \A i \in 1..Len(applied) : applied'[i] = applied[i]
        /\ applied'[Len(applied) + 1] = block_number
        /\ DOMAIN applied = 1..Len(applied) /\ Len(applied) \in Nat
    BY <2>1 DEF HistoryTypeOK
  <2>3. \A i \in DOMAIN applied' : applied'[i] = SyncedAt + i
    BY <2>1, <2>2
  <2>4. WrittenInv'
    BY <1>12, <2>1, <2>2, <2>3 DEF CatchUpBlock, WrittenInv, NeverReprocessed
  <2>5. UpdaterInv'
    BY <1>12, <2>1, <2>2 DEF CatchUpBlock, UpdaterInv, HeadBlock, SyncTypeOK
  <2>6. CursorInv' /\ StartInv'
    BY <1>12, <2>1 DEF CatchUpBlock, CursorInv, StartInv
  <2> QED BY <1>12, <2>4, <2>5, <2>6, <1>a DEF CatchUpBlock, SyncInv
<1>13. CASE CatchUpRoundDone
  <2>1. UpdaterInv'
    <3>1. /\ block_number = SyncedAt + Len(applied) + 1
          /\ block_number <= current_block + 1 /\ block_number > current_block
          /\ current_block \in Nat /\ block_number \in Nat
      BY <1>13 DEF CatchUpRoundDone, UpdaterInv, SyncTypeOK
    <3>2. current_block = SyncedAt + Len(applied)
      BY <3>1, <1>g
    <3> QED BY <1>13, <3>2 DEF CatchUpRoundDone, UpdaterInv, HeadBlock
  <2>2. CursorInv' /\ StartInv'
    BY <1>13 DEF CatchUpRoundDone, CursorInv, StartInv, UpdaterInv
  <2> QED BY <1>13, <2>1, <2>2, <1>a, <1>b DEF CatchUpRoundDone, SyncInv
<1>14. CASE SkipBlock
  <2>1. /\ cursor'["updater"] = cursor["updater"] + 1 /\ cursor["updater"] \in Nat
        /\ sent[cursor["updater"] + 1].num <= last_synced_block
    BY <1>14 DEF SkipBlock, Event, Consume, ChannelTypeOK, Receivers
  <2>2. CursorInv' /\ StartInv'
    BY <1>14, <2>1 DEF SkipBlock, CursorInv, StartInv
  <2>3. UpdaterInv'
    BY <1>14, <1>c DEF SkipBlock, NodeTypeOK
  <2> QED BY <1>14, <2>2, <2>3, <1>a, <1>b DEF SkipBlock, SyncInv
<1>15. CASE TakeBlock
  <2> DEFINE c == cursor["updater"]
  <2>1. /\ cursor'["updater"] = c + 1 /\ c \in Nat /\ c + 1 <= Len(sent) /\ Len(sent) \in Nat
        /\ block_number' = sent[c + 1].num /\ sent[c + 1].num > last_synced_block
        /\ DOMAIN sent = 1..Len(sent) /\ \A i \in DOMAIN sent : sent[i].num \in Nat
    <3>1. c \in Nat /\ cursor'["updater"] = c + 1 /\ c < Len(sent)
      BY <1>15 DEF TakeBlock, Ready, Consume, ChannelTypeOK, Receivers
    <3>2. c + 1 \in 1..Len(sent) /\ Event("updater") = sent[c + 1]
      BY <1>f, <3>1 DEF Event
    <3>3. sent[c + 1].num \in Nat /\ last_synced_block \in Nat
      BY <1>f, <3>2 DEF SyncTypeOK
    <3>4. ~(sent[c + 1].num <= last_synced_block) /\ block_number' = sent[c + 1].num
      BY <1>15, <3>2 DEF TakeBlock
    <3> QED BY <1>f, <3>1, <3>2, <3>3, <3>4
  <2>2. CursorInv' /\ StartInv'
    BY <1>15, <2>1 DEF TakeBlock, CursorInv, StartInv
  <2>3. /\ last_synced_block = Newest /\ Len(applied) = handover + Len(published) /\ caught_up
        /\ last_synced_block \in Nat
    BY <1>15 DEF TakeBlock, UpdaterInv, SyncTypeOK
  <2>4. block_number' <= Len(chain)
    BY <2>1 DEF LogInv, HeadBlock
  <2>5. ASSUME Len(applied) > handover PROVE block_number' = Newest + 1
    <3>1. c > 0 /\ sent[c].num <= last_synced_block
      BY <1>15, <2>3, <2>5 DEF TakeBlock, CursorInv
    <3>2. sent[c + 1].num <= sent[c].num + 1
      BY <2>1, <3>1 DEF LogInv
    <3>3. c \in DOMAIN sent /\ sent[c].num \in Nat /\ sent[c + 1].num \in Nat
      BY <2>1, <3>1
    <3> QED BY <2>1, <2>3, <3>1, <3>2, <3>3
  <2>6. Newest' = Newest /\ Len(chain') = Len(chain)
    BY <1>15 DEF TakeBlock, Newest, Feed!Newest
  <2>7. UpdaterInv'
    BY <1>15, <2>1, <2>3, <2>4, <2>5, <2>6 DEF TakeBlock, UpdaterInv, HeadBlock
  <2> QED BY <1>15, <2>2, <2>7, <1>a, <1>b DEF TakeBlock, SyncInv
<1>16. CASE StreamUpdate
  <2>1. /\ caught_up /\ last_synced_block = Newest /\ Len(applied) = handover + Len(published)
        /\ last_synced_block < block_number /\ block_number \in Nat
        /\ applied' = Append(applied, block_number)
        /\ SyncedAt <= last_synced_block /\ last_synced_block \in Nat
        /\ block_number \in Blocks
    BY <1>16 DEF StreamUpdate, UpdateState, UpdaterInv, SyncTypeOK, Blocks, NodeTypeOK, HeadBlock
  <2>2. /\ Len(applied') = Len(applied) + 1 /\ DOMAIN applied' = 1..(Len(applied) + 1)
        /\ \A i \in 1..Len(applied) : applied'[i] = applied[i]
        /\ applied'[Len(applied) + 1] = block_number
        /\ DOMAIN applied = 1..Len(applied) /\ Len(applied) \in Nat
        /\ applied' # <<>> /\ \A i \in 1..Len(applied) : applied[i] \in Nat
    <3>1. applied \in Seq(Blocks)
      BY DEF HistoryTypeOK
    <3> HIDE DEF Blocks
    <3>2. /\ Len(applied') = Len(applied) + 1 /\ DOMAIN applied' = 1..(Len(applied) + 1)
          /\ \A i \in 1..Len(applied) : applied'[i] = applied[i]
          /\ applied'[Len(applied) + 1] = block_number
      BY <2>1, <3>1
    <3> QED BY <1>g, <3>2
  <2>3. Newest' = block_number
    BY <2>2 DEF Newest, Feed!Newest
  <2>4. \A i \in 1..Len(applied) : applied[i] < block_number
    <3> SUFFICES ASSUME NEW i \in 1..Len(applied) PROVE applied[i] < block_number
      OBVIOUS
    <3>1. Newest = applied[Len(applied)]
      BY <1>g DEF Newest, Feed!Newest
    <3>2. i \in Nat /\ i <= Len(applied) /\ Len(applied) \in Nat
      BY <1>g
    <3>3. applied[i] <= applied[Len(applied)]
      <4>1. CASE i = Len(applied)
        BY <4>1, <1>g
      <4>2. CASE i < Len(applied)
        <5>1. i \in DOMAIN applied /\ Len(applied) \in DOMAIN applied
          BY <4>2, <1>g
        <5> QED BY <4>2, <5>1, <1>g DEF WrittenInv, NeverReprocessed
      <4> QED BY <4>1, <4>2, <3>2
    <3>4. applied[i] \in Nat /\ applied[Len(applied)] \in Nat
      BY <1>g
    <3> QED BY <2>1, <3>1, <3>3, <3>4
  <2>5. WrittenInv'
    <3>1. NeverReprocessed'
      <4> SUFFICES ASSUME NEW i \in 1..(Len(applied) + 1), NEW j \in 1..(Len(applied) + 1), i < j
                   PROVE  applied'[i] < applied'[j]
        BY <2>2 DEF NeverReprocessed
      <4>1. CASE j = Len(applied) + 1
        BY <4>1, <2>2, <2>4
      <4>2. CASE j < Len(applied) + 1
        BY <4>2, <2>2 DEF WrittenInv, NeverReprocessed
      <4> QED BY <4>1, <4>2, <2>2
    <3>2. \A i \in DOMAIN applied' : applied'[i] > SyncedAt
      BY <2>1, <2>2 DEF WrittenInv
    <3>3. handover <= Len(applied')
      BY <2>1, <2>2 DEF WrittenInv, HistoryTypeOK
    <3> QED BY <1>16, <2>1, <3>1, <3>2, <3>3 DEF StreamUpdate, WrittenInv
  <2>6. UpdaterInv'
    BY <1>16, <2>1, <2>2, <2>3 DEF StreamUpdate, UpdaterInv, HistoryTypeOK
  <2>7. CursorInv' /\ StartInv'
    BY <1>16, <2>1, <2>2 DEF StreamUpdate, CursorInv, StartInv
  <2> QED BY <1>16, <2>5, <2>6, <2>7, <1>a DEF StreamUpdate, SyncInv
<1>17. CASE SendPoolsTouched
  <2>1. /\ block_number = Newest /\ Len(applied) = handover + Len(published) + 1 /\ caught_up
    BY <1>17 DEF SendPoolsTouched, UpdaterInv
  <2>2. /\ Len(published') = Len(published) + 1 /\ Newest' = Newest
    BY <1>17 DEF SendPoolsTouched, HistoryTypeOK, Newest, Feed!Newest
  <2>3. UpdaterInv'
    BY <1>17, <2>1, <2>2 DEF SendPoolsTouched, UpdaterInv, HistoryTypeOK
  <2>4. WrittenInv'
    BY <1>17, <2>1 DEF SendPoolsTouched, WrittenInv, NeverReprocessed
  <2>5. CursorInv' /\ StartInv'
    BY <1>17 DEF SendPoolsTouched, CursorInv, StartInv, SyncTypeOK
  <2> QED BY <1>17, <2>3, <2>4, <2>5, <1>a DEF SendPoolsTouched, SyncInv
<1>18. CASE UpdaterLoopEnds
  BY <1>18, <1>a, <1>b DEF UpdaterLoopEnds, SyncInv, StartInv, UpdaterInv, CursorInv
<1>19. CASE UpdaterPanics
  BY <1>19, <1>a, <1>b DEF UpdaterPanics, SyncInv, StartInv, UpdaterInv, CursorInv
<1>20. CASE UpdateGas
  <2>1. cursor'["updater"] = cursor["updater"]
    BY <1>20 DEF UpdateGas, Consume, ChannelTypeOK, Receivers
  <2> QED BY <1>20, <2>1, <1>a, <1>b, <1>c, <1>d, <1>e DEF UpdateGas, SyncInv, NodeTypeOK
<1>21. CASE GasLoopEnds
  BY <1>21, <1>a, <1>b, <1>c, <1>d, <1>e DEF GasLoopEnds, SyncInv, NodeTypeOK
<1>22. CASE UNCHANGED vars
  BY <1>22, <1>a, <1>b, <1>c, <1>d, <1>e DEF vars, SyncInv, NodeTypeOK
<1> QED
  BY <1>1, <1>2, <1>3, <1>4, <1>5, <1>6, <1>7, <1>8, <1>9, <1>10, <1>11, <1>12, <1>13,
     <1>14, <1>15, <1>16, <1>17, <1>18, <1>19, <1>20, <1>21, <1>22,
     <1>23
     DEF Next, Node, Stream, Main, Updater, Gas, Quiet

\* The inductive invariant holds in every reachable state.
THEOREM Invariance == Spec => []IInv
<1>1. IInv /\ [Next]_vars => IInv'
  BY TypeStep, SyncStep DEF IInv
<1> QED BY <1>1, InitEstablishes, PTL DEF Spec

\* The variables keep their types (BlockSync, whole module).
THEOREM TypeCorrect == Spec => []TypeOK
<1>1. IInv => TypeOK
  BY DEF IInv
<1> QED BY <1>1, Invariance, PTL

\* The updater's locals, cursor and history fit together in every state.
THEOREM SyncInvariant == Spec => []SyncInv
<1>1. IInv => SyncInv
  BY DEF IInv
<1> QED BY <1>1, Invariance, PTL

\* No block is written twice or out of order, across the hand-over from the
\* catch-up to the stream and whatever a reorg announces again.
THEOREM BlocksInOrder == Spec => []NeverReprocessed
<1>1. IInv => NeverReprocessed
  BY DEF IInv, SyncInv, WrittenInv
<1> QED BY <1>1, Invariance, PTL

\* caught_up is stored only when every block up to the head the node answered last
\* is written, wherever the head has moved since.
THEOREM CatchUpReachesHead == Spec => CaughtUpToHead
<1> DEFINE Reached == \A b \in (SyncedAt + 1)..current_block :
                         \E i \in DOMAIN applied : applied[i] = b
<1>1. IInv /\ [Next]_vars => [caught_up' /\ ~caught_up => Reached]_vars
  <2> SUFFICES ASSUME IInv, Next, caught_up', ~caught_up PROVE Reached
    OBVIOUS
  <2>1. GoLive
    <3> USE DEF syncVars
    <3>1. ~(MineBlock \/ \E b \in Blocks : Reorg(b))
      BY DEF MineBlock, Reorg
    <3>2. ~(Stream \/ StreamEnds \/ Main \/ Gas)
      BY DEF Stream, Subscribe, SendNewBlock, StreamEnds, Main, SpawnStream, SpawnGas,
         SpawnUpdater, LeaveSpin, Gas, UpdateGas, GasLoopEnds
    <3>3. Updater => GoLive
      BY DEF Updater, GetBlockNumber, StartRound, CatchUpBlock, CatchUpRoundDone, SkipBlock,
         TakeBlock, StreamUpdate, SendPoolsTouched, UpdaterLoopEnds
    <3>4. ~(UpdaterPanics \/ Quiet)
      BY DEF UpdaterPanics, Quiet, vars
    <3> QED BY <3>1, <3>2, <3>3, <3>4 DEF Next, Node
  <2>2. /\ last_synced_block = SyncedAt + Len(applied) /\ last_synced_block >= current_block
        /\ \A i \in DOMAIN applied : applied[i] = SyncedAt + i
    <3>1. last_synced_block \in Nat /\ current_block \in Nat
      BY BlockSyncAssumption DEF IInv, TypeOK, SyncTypeOK
    <3> QED BY <2>1, <3>1 DEF GoLive, IInv, SyncInv, UpdaterInv, WrittenInv
  <2>3. /\ SyncedAt \in Nat /\ current_block \in Nat
        /\ Len(applied) \in Nat /\ DOMAIN applied = 1..Len(applied)
    BY BlockSyncAssumption DEF IInv, TypeOK, HistoryTypeOK, SyncTypeOK
  <2>4. ASSUME NEW b \in (SyncedAt + 1)..current_block
        PROVE  \E i \in DOMAIN applied : applied[i] = b
    <3>1. b - SyncedAt \in DOMAIN applied /\ SyncedAt + (b - SyncedAt) = b
      BY <2>2, <2>3
    <3> QED BY <2>2, <3>1
  <2> QED BY <2>4
<1> QED BY <1>1, Invariance, PTL DEF Spec, CaughtUpToHead

\* The updater implements BlockFeed: consecutive blocks, each announced before
\* the next is written, a gap only in front of the first streamed block.
THEOREM Refinement == Spec => FeedRefined
<1>1. Init => Feed!FeedInit
  BY DEF Init, Feed!FeedInit
<1>2. IInv /\ [Next]_vars => [Feed!FeedNext]_(Feed!feedVars)
  <2> SUFFICES ASSUME IInv, [Next]_vars
               PROVE  Feed!FeedNext \/ UNCHANGED Feed!feedVars
    OBVIOUS
  <2> USE DEF syncVars, historyVars, Feed!feedVars
  <2>1. CASE GoLive
    <3>1. Feed!GoLive
      BY <2>1 DEF GoLive, Feed!GoLive, IInv, SyncInv, UpdaterInv
    <3> QED BY <3>1 DEF Feed!FeedNext
  <2>2. CASE CatchUpBlock
    <3>1. /\ block_number = SyncedAt + Len(applied) + 1 /\ ~caught_up
          /\ \A i \in DOMAIN applied : applied[i] = SyncedAt + i
          /\ applied \in Seq(Blocks)
      BY <2>2 DEF CatchUpBlock, IInv, SyncInv, UpdaterInv, WrittenInv, TypeOK, HistoryTypeOK
    <3>2. Feed!Newest = SyncedAt + Len(applied)
      BY <3>1, BlockSyncAssumption DEF Feed!Newest
    <3>3. block_number \in Blocks
      BY <2>2, <3>1, BlockSyncAssumption
         DEF CatchUpBlock, Blocks, IInv, SyncInv, UpdaterInv, TypeOK, SyncTypeOK
    <3>4. Feed!CatchUp(block_number)
      BY <2>2, <3>1, <3>2 DEF CatchUpBlock, UpdateState, Feed!CatchUp
    <3> QED BY <3>3, <3>4 DEF Feed!FeedNext
  <2>3. CASE StreamUpdate
    <3>1. /\ caught_up /\ Len(applied) = handover + Len(published)
          /\ block_number > Feed!Newest
          /\ Len(applied) > handover => block_number = Feed!Newest + 1
      BY <2>3 DEF StreamUpdate, IInv, SyncInv, UpdaterInv, Newest, TypeOK, SyncTypeOK
    <3>2. block_number \in Blocks
      BY <2>3, BlockSyncAssumption DEF StreamUpdate, Blocks, HeadBlock, NodeTypeOK,
         IInv, SyncInv, UpdaterInv, TypeOK, SyncTypeOK
    <3>3. Feed!Apply(block_number)
      BY <2>3, <3>1 DEF StreamUpdate, UpdateState, Feed!Apply, Feed!Settled
    <3> QED BY <3>2, <3>3 DEF Feed!FeedNext
  <2>4. CASE SendPoolsTouched
    <3>1. /\ caught_up /\ block_number = Feed!Newest
          /\ Len(applied) = handover + Len(published) + 1
          /\ handover \in Nat /\ Len(published) \in Nat
      BY <2>4 DEF SendPoolsTouched, IInv, SyncInv, UpdaterInv, Newest, TypeOK, HistoryTypeOK
    <3>2. Feed!Publish
      BY <2>4, <3>1 DEF SendPoolsTouched, Feed!Publish, Feed!Settled
    <3> QED BY <3>2 DEF Feed!FeedNext
  <2>5. CASE Node \/ Stream \/ StreamEnds \/ Main \/ Gas
    BY <2>5 DEF Node, MineBlock, Reorg, Stream, Subscribe, SendNewBlock, StreamEnds, Main,
       SpawnStream, SpawnGas, SpawnUpdater, LeaveSpin, Gas, UpdateGas, GasLoopEnds
  <2>6. CASE GetBlockNumber \/ StartRound \/ CatchUpRoundDone \/ SkipBlock \/ TakeBlock \/ UpdaterLoopEnds
              \/ UpdaterPanics
    BY <2>6 DEF GetBlockNumber, StartRound, CatchUpRoundDone, SkipBlock, TakeBlock, UpdaterLoopEnds, UpdaterPanics
  <2>7. CASE UNCHANGED vars
    BY <2>7 DEF vars
  <2> QED BY <2>1, <2>2, <2>3, <2>4, <2>5, <2>6, <2>7 DEF Next, Updater, Quiet
<1> QED BY <1>1, <1>2, Invariance, PTL DEF Spec, FeedRefined, Feed!FeedSpec

\* The catch-up is the race of module CatchUp: what is left of a round and how far
\* the head is ahead move as that module says, whatever the stream and the node do.
THEOREM RaceRefinement == Spec => RaceRefined
<1> USE BlockSyncAssumption
<1>1. Init => Race!RaceInit
  <2> SUFFICES ASSUME Init PROVE Race!RaceInit
    OBVIOUS
  <2>1. Len(chain) = SyncedAt
    <3>1. chain = [n \in 1..SyncedAt |-> 1] /\ chain \in Seq({1})
      BY DEF Init
    <3> QED BY <3>1
  <2> QED BY <2>1 DEF Init, Race!RaceInit, HeadBlock
<1>2. IInv /\ [Next]_vars => [Race!RaceNext]_(Race!raceVars)
  <2> SUFFICES ASSUME IInv, [Next]_vars
               PROVE  Race!RaceNext \/ UNCHANGED Race!raceVars
    OBVIOUS
  <2> USE DEF nodeVars, streamVars, syncVars, gasVars, historyVars, Race!raceVars, HeadBlock
  <2>i. /\ StartInv /\ WrittenInv /\ UpdaterInv
        /\ NodeTypeOK /\ SyncTypeOK /\ TaskTypeOK /\ HistoryTypeOK
        /\ Len(applied) \in Nat /\ Len(chain) \in Nat
    BY DEF IInv, SyncInv, TypeOK, HistoryTypeOK, NodeTypeOK
  <2>1. CASE MineBlock
    <3>1. Len(chain') = Len(chain) + 1
      BY <2>1, <2>i DEF MineBlock, NodeTypeOK
    <3> DEFINE w == IF caught_up THEN handover ELSE Len(applied)
    <3>2. w \in Nat /\ w' = w
      BY <2>1, <2>i DEF MineBlock, HistoryTypeOK
    <3>3. UNCHANGED <<mainPc, updaterPc, caught_up, current_block, last_synced_block, block_number>>
      BY <2>1 DEF MineBlock
    <3>4. Len(chain) < MaxBlock
      BY <2>1 DEF MineBlock
    <3> HIDE DEF w
    <3>5. /\ Len(chain) - SyncedAt - w < MaxBlock
          /\ Len(chain') - SyncedAt - w' = Len(chain) - SyncedAt - w + 1
      BY <2>i, <3>1, <3>2, <3>4
    <3>6. Race!RaceMineBlock
      BY <3>3, <3>5 DEF Race!RaceMineBlock, w
    <3> QED BY <3>6 DEF Race!RaceNext
  <2>2. CASE \E b \in Blocks : Reorg(b)
    <3>1. Len(chain') = Len(chain)
      BY <2>2, <2>i DEF Reorg, NodeTypeOK
    <3> QED BY <2>2, <3>1 DEF Reorg
  <2>3. CASE SpawnUpdater
    BY <2>3, <2>i DEF SpawnUpdater, Race!RaceSpawnUpdater, Race!RaceMain, Race!RaceNext, StartInv, UpdaterInv
  <2>4. CASE LeaveSpin
    BY <2>4 DEF LeaveSpin, Race!RaceLeaveSpin, Race!RaceMain, Race!RaceNext
  <2>5. CASE GetBlockNumber
    BY <2>5, <2>i DEF GetBlockNumber, Race!RaceGetBlockNumber, Race!RaceNext, UpdaterInv, SyncTypeOK, NodeTypeOK
  <2>6. CASE StartRound
    BY <2>6, <2>i DEF StartRound, Race!RaceStartRound, Race!RaceBehind, Race!RaceLoop, Race!RaceNext,
       UpdaterInv, SyncTypeOK
  <2>7. CASE GoLive
    BY <2>7, <2>i DEF GoLive, Race!RaceGoLive, Race!RaceBehind, Race!RaceSignalCaughtUp, Race!RaceLoop,
       Race!RaceNext, UpdaterInv, SyncTypeOK
  <2>8. CASE CatchUpBlock
    <3>1. Len(applied') = Len(applied) + 1
      BY <2>8, <2>i DEF CatchUpBlock, UpdateState, HistoryTypeOK
    <3>2. /\ ~caught_up /\ updaterPc = "catchup" /\ block_number <= current_block
          /\ block_number' = block_number + 1
          /\ UNCHANGED <<chain, mainPc, updaterPc, caught_up, current_block>>
      BY <2>8, <2>i DEF CatchUpBlock, UpdaterInv
    <3>3. current_block \in Nat /\ block_number \in Nat
      BY <2>i DEF SyncTypeOK
    <3> DEFINE w == IF caught_up THEN handover ELSE Len(applied)
               t == CASE updaterPc = "test"    -> current_block - last_synced_block
                      [] updaterPc = "catchup" -> current_block + 1 - block_number
                      [] OTHER                 -> 0
    <3>4. w = Len(applied) /\ w' = Len(applied')
      BY <3>2
    <3>5. t = current_block + 1 - block_number
      BY <3>2
    <3>6. t' = current_block + 1 - (block_number + 1)
      BY <3>2
    <3> HIDE DEF w, t
    <3>7. t > 0 /\ t' = t - 1
      BY <3>2, <3>3, <3>5, <3>6
    <3>8. Len(chain') - SyncedAt - w' = Len(chain) - SyncedAt - w - 1
      BY <2>i, <3>1, <3>2, <3>4
    <3>9. Race!RaceCatchUpBlock
      BY <3>2, <3>7, <3>8 DEF Race!RaceCatchUpBlock, Race!RaceInRange, w, t
    <3> QED BY <3>9 DEF Race!RaceLoop, Race!RaceNext
  <2>9. CASE CatchUpRoundDone
    BY <2>9, <2>i DEF CatchUpRoundDone, Race!RaceRoundDone, Race!RaceInRange, Race!RaceLoop, Race!RaceNext,
       UpdaterInv, SyncTypeOK
  <2>10. CASE UpdaterPanics
    BY <2>10, <2>i DEF UpdaterPanics, Race!RacePanics, Race!RaceInRange, Race!RaceNext, UpdaterInv, SyncTypeOK
  <2>11. CASE SpawnStream \/ SpawnGas \/ Stream \/ StreamEnds \/ Gas
    BY <2>11 DEF SpawnStream, SpawnGas, Stream, Subscribe, SendNewBlock, StreamEnds, Gas,
       UpdateGas, GasLoopEnds
  <2>12. CASE SkipBlock \/ TakeBlock \/ UpdaterLoopEnds
    BY <2>12, <2>i DEF SkipBlock, TakeBlock, UpdaterLoopEnds, UpdaterInv
  <2>13. CASE StreamUpdate \/ SendPoolsTouched
    BY <2>13, <2>i DEF StreamUpdate, SendPoolsTouched, UpdaterInv
  <2>14. CASE UNCHANGED vars
    BY <2>14 DEF vars
  <2> QED BY <2>1, <2>2, <2>3, <2>4, <2>5, <2>6, <2>7, <2>8, <2>9, <2>10, <2>11, <2>12, <2>13,
             <2>14 DEF Next, Node, Main, Updater, Quiet
<1> QED BY <1>1, <1>2, Invariance, PTL DEF Spec, RaceRefined, Race!RaceSpec

=============================================================================
