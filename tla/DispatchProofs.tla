---------------------------- MODULE DispatchProofs ----------------------------
(***************************************************************************)
(* Proofs about Dispatch for every set of paths, blocks, quotes and        *)
(* amounts: types, the order of nonces and blocks at the sequencer, and    *)
(* that everything sent was quoted.                                        *)
(*                                                                         *)
(* The blocks of the paths in flight form a line, from the transactions    *)
(* accepted back to the paths the simulator has not taken: each stage lies *)
(* before the stages behind it, and all of them in what the searcher has   *)
(* been told of.  A worker moves the first block of a stage to the end of  *)
(* the next or drops it.                                                   *)
(***************************************************************************)
EXTENDS Dispatch, BlockFeedProofs

USE DEF RestOfArbs, Better, ChosenInput, UnwrapFails

Blocks(s)    == {s[i].block : i \in DOMAIN s}
Ascending(s) == \A i, j \in DOMAIN s : i < j => s[i].block < s[j].block
Before(S, T) == \A x \in S, y \in T : x < y

AcceptedBlocks == {accepted[i].valid.block : i \in DOMAIN accepted}
TxBlocks       == IF tx = Nothing THEN {} ELSE {tx.valid.block}
JobBlocks      == IF job = Nothing THEN {} ELSE {job.block}
ToldBlocks     == {published[k] : k \in 1..received}

LineInv ==
    /\ AcceptedBlocks \cup TxBlocks \cup Blocks(valids) \cup JobBlocks \cup Blocks(arbs)
           \subseteq ToldBlocks
    /\ Before(AcceptedBlocks, TxBlocks \cup Blocks(valids) \cup JobBlocks \cup Blocks(arbs))
    /\ Before(TxBlocks, Blocks(valids) \cup JobBlocks \cup Blocks(arbs))
    /\ Before(Blocks(valids), JobBlocks \cup Blocks(arbs))
    /\ Before(JobBlocks, Blocks(arbs))
    /\ \A i, j \in DOMAIN accepted : i < j => accepted[i].valid.block < accepted[j].valid.block
    /\ Ascending(valids) /\ Ascending(arbs)

\* A transaction in hand has the next nonce, and only a running sender has one.
NonceInv ==
    /\ \A i \in DOMAIN accepted : accepted[i].nonce = i - 1
    /\ tx # Nothing => Running("sender") /\ tx.nonce = Len(accepted) /\ nonce = Len(accepted) + 1
    /\ tx = Nothing /\ ~Ended("sender") => nonce = Len(accepted)

\* The best input so far was quoted and beats the first one.
BestQuoted ==
    /\ \A q \in quotes : q.ver >= job.block
    /\ \E q, first \in quotes :
          /\ q.in = best_input /\ q.out = best_output
          /\ first.in = AMOUNT /\ first.out <= CAP /\ first.out <= best_output
          /\ best_input # AMOUNT => best_output > best_input /\ best_output > first.out

QuoteInv ==
    /\ simPc = "recv" <=> job = Nothing
    /\ simPc \in {"optimize", "send"} => BestQuoted
    /\ \A i \in DOMAIN valids : SentAsQuoted(valids[i])
    /\ tx # Nothing => SentAsQuoted(tx.valid)
    /\ \A i \in DOMAIN accepted : SentAsQuoted(accepted[i].valid)

DispatchInv == OrderInv /\ LineInv /\ NonceInv /\ QuoteInv

IInv == TypeOK /\ DispatchInv

-----------------------------------------------------------------------------

\* The inputs: AMOUNT, and one step further until the last.
LEMMA InputFacts ==
    /\ AMOUNT \in Inputs /\ Inputs \subseteq Nat
    /\ \A c \in Inputs : c < AMOUNT + MAXSTEPS * STEP => c + STEP \in Inputs /\ c + STEP # AMOUNT
<1> USE DispatchAssumption
<1>1. \A i \in Nat : i * STEP \in Nat
  OBVIOUS
<1>2. AMOUNT \in Inputs
  <2>1. 0 \in 0..MAXSTEPS /\ AMOUNT + 0 * STEP = AMOUNT
    OBVIOUS
  <2> QED BY <2>1 DEF Inputs
<1>3. Inputs \subseteq Nat
  BY <1>1 DEF Inputs
<1>4. ASSUME NEW c \in Inputs, c < AMOUNT + MAXSTEPS * STEP
      PROVE  c + STEP \in Inputs /\ c + STEP # AMOUNT
  <2>1. PICK i \in 0..MAXSTEPS : c = AMOUNT + i * STEP
    BY DEF Inputs
  <2>2. i # MAXSTEPS
    BY <1>4, <2>1
  <2>3. i + 1 \in 0..MAXSTEPS
    BY <2>2
  <2>4. (i + 1) * STEP = i * STEP + STEP
    OBVIOUS
  <2>5. i * STEP \in Nat /\ STEP \in Nat \ {0} /\ AMOUNT \in Nat
    BY <1>1
  <2>6. c + STEP = AMOUNT + (i + 1) * STEP /\ c + STEP # AMOUNT
    BY <2>1, <2>4, <2>5
  <2> QED BY <2>3, <2>6 DEF Inputs
<1> QED BY <1>2, <1>3, <1>4

\* The initial state satisfies the inductive invariant.
LEMMA InitEstablishes == Init => IInv
<1> SUFFICES ASSUME Init PROVE IInv
  OBVIOUS
<1> USE DispatchAssumption, InputFacts
<1>1. FeedTypeOK /\ OrderInv
  BY FeedStart DEF Init
<1>2. sim \in BOOLEAN /\ poisoned \in BOOLEAN
  BY Zenon DEF Init
<1>3. TypeOK
  BY <1>1, <1>2 DEF Init, TypeOK, Workers, FeedInit
<1>4. /\ DOMAIN accepted = {} /\ DOMAIN valids = {} /\ DOMAIN arbs = {}
      /\ tx = Nothing /\ job = Nothing /\ Len(accepted) = 0
  BY DEF Init
<1>5. LineInv
  BY <1>4 DEF LineInv, AcceptedBlocks, TxBlocks, JobBlocks, Blocks, Before, Ascending
<1>6. NonceInv
  BY <1>4 DEF Init, NonceInv
<1>7. QuoteInv
  BY <1>4 DEF Init, QuoteInv
<1> QED BY <1>1, <1>3, <1>5, <1>6, <1>7 DEF IInv, DispatchInv

\* A quote is of a kind with the amounts.
LEMMA QuoteKind ==
    ASSUME TypeOK, OrderInv, job # Nothing, NEW in \in Inputs
    PROVE  /\ quote_path(in) \in Nat \cup {Reverts} /\ Newest \in Versions
           /\ quote_path(in) # Reverts => Taken(in, quote_path(in)) \subseteq QuoteTaken
<1> USE DispatchAssumption
<1>1. job.path \in Paths
  BY DEF TypeOK, ArbPaths
<1>2. Newest \in Versions
  BY FeedFacts DEF TypeOK, Versions
<1>3. <<job.path, Newest, in>> \in Paths \X Versions \X Inputs
  BY <1>1, <1>2
<1>4. quote_path(in) \in Nat \cup {Reverts}
  BY <1>3 DEF quote_path
<1>5. quote_path(in) # Reverts => Taken(in, quote_path(in)) \subseteq QuoteTaken
  BY <1>2, <1>4 DEF Taken, QuoteTaken
<1> QED BY <1>2, <1>4, <1>5

\* The feed keeps its own invariants, whatever the rest does.
LEMMA FeedPart ==
    ASSUME IInv, [Next]_vars
    PROVE  FeedTypeOK' /\ OrderInv'
<1>1. FeedTypeOK /\ OrderInv
  BY DEF IInv, TypeOK, DispatchInv
<1>2. [FeedNext]_feedVars
  <2>1. CASE UNCHANGED vars
    BY <2>1 DEF vars
  <2>2. CASE Updater
    BY <2>2 DEF Updater, StoreCaughtUp, SendPoolsTouched, UpdaterEnds, WriteBlock, FeedNext
  <2>3. CASE Main \/ Search
    BY <2>3 DEF Main, SpawnSearch, SpawnSender, Search, SendNone, SearcherEnds, SendArbPath
  <2>4. CASE Simulator
    BY <2>4 DEF Simulator, ReceiveArbPath, SimulatorEnds, QuotePanics, QuoteReverts, QuoteSucceeds,
       OptimizeRound, OptimizeDone, SendValidPath
  <2>5. CASE Sender
    BY <2>5 DEF Sender, ReceiveValidPath, PostAccepted, PostFails, SenderEnds
  <2> QED BY <2>1, <2>2, <2>3, <2>4, <2>5 DEF Next
<1> QED BY <1>1, <1>2, FeedStep, DispatchAssumption

\* The events taken are events sent.
LEMMA ReceivedPart ==
    ASSUME IInv, [Next]_vars
    PROVE  received' \in 0..Len(published') /\ received <= received'
<1>1. received \in 0..Len(published) /\ published \in Seq(FeedBlocks) /\ Newest \in FeedBlocks \cup {SyncedAt}
  BY FeedFacts, DispatchAssumption DEF IInv, TypeOK, DispatchInv, FeedTypeOK
<1>2. published' = published \/ published' = Append(published, Newest)
  BY DEF Next, vars, feedVars, Updater, StoreCaughtUp, SendPoolsTouched, UpdaterEnds, WriteBlock,
     CatchUp, Apply, GoLive, Publish, Main, SpawnSearch, SpawnSender, Search, SendNone, SearcherEnds,
     SendArbPath, Simulator, ReceiveArbPath, SimulatorEnds, QuotePanics, QuoteReverts, QuoteSucceeds,
     OptimizeRound, OptimizeDone, SendValidPath, Sender, ReceiveValidPath, PostAccepted, PostFails,
     SenderEnds
<1>3. Len(published) \in Nat /\ Len(published') >= Len(published) /\ Len(published') \in Nat
  BY <1>1, <1>2
<1>4. \/ UNCHANGED received
      \/ received' = received + 1 /\ received < Len(published)
  BY DEF Next, vars, Updater, StoreCaughtUp, SendPoolsTouched, UpdaterEnds, WriteBlock,
     Main, SpawnSearch, SpawnSender, Search, SendNone, SearcherEnds, TakeEvent,
     SendArbPath, Simulator, ReceiveArbPath, SimulatorEnds, QuotePanics, QuoteReverts, QuoteSucceeds,
     OptimizeRound, OptimizeDone, SendValidPath, Sender, ReceiveValidPath, PostAccepted, PostFails,
     SenderEnds
<1> QED BY <1>1, <1>3, <1>4

\* Every step keeps the variables in their types.
LEMMA TypeStep == IInv /\ [Next]_vars => TypeOK'
<1> SUFFICES ASSUME IInv, [Next]_vars PROVE TypeOK'
  OBVIOUS
<1> USE DispatchAssumption, NothingAssumption, InputFacts, FeedPart, ReceivedPart
     DEF simVars, sendVars, Running, Ended, End, SendTo
<1>t. TypeOK /\ OrderInv /\ NonceInv /\ QuoteInv
  BY DEF IInv, DispatchInv
\* all that is left of TypeOK' beside the feed and the events taken
<1> DEFINE WorkerTypes == status \in [Workers -> {"waiting", "running", "ended"}]
                          /\ poisoned \in BOOLEAN /\ sim \in BOOLEAN
           QueueTypes == arbs \in Seq(ArbPaths) /\ valids \in Seq(ValidPaths)
           SimTypes == /\ blacklist \subseteq Paths
                       /\ simPc \in {"recv", "quote", "optimize", "send"}
                       /\ job \in ArbPaths \cup {Nothing}
                       /\ {curr_input, best_input} \subseteq Inputs /\ best_output \in Nat
                       /\ quotes \subseteq QuoteTaken
           SendTypes == nonce \in Nat /\ tx \in Transactions \cup {Nothing}
                        /\ accepted \in Seq(Transactions)
<1>d. WorkerTypes /\ QueueTypes /\ SimTypes /\ SendTypes
  BY <1>t DEF TypeOK
<1> SUFFICES WorkerTypes' /\ QueueTypes' /\ SimTypes' /\ SendTypes'
  BY DEF TypeOK
<1>1. CASE Updater \/ Main
  BY <1>d, <1>1 DEF Updater, StoreCaughtUp, SendPoolsTouched, UpdaterEnds, WriteBlock, Main,
     SpawnSearch, SpawnSender, Workers
<1>2. ASSUME NEW pa \in Paths, SendArbPath(pa)
      PROVE  WorkerTypes' /\ QueueTypes' /\ SimTypes' /\ SendTypes'
  <2>1. published[received'] \in FeedBlocks
    BY <1>2, <1>t DEF SendArbPath, TakeEvent, TypeOK, FeedTypeOK
  <2>2. [path |-> pa, block |-> published[received']] \in ArbPaths
    BY <2>1 DEF ArbPaths
  <2> QED BY <1>2, <2>2, <1>d DEF SendArbPath
<1>3. CASE SendNone \/ SearcherEnds
  BY <1>d, <1>3 DEF SendNone, SearcherEnds, Workers
<1>4. CASE ReceiveArbPath
  <2>1. Head(arbs) \in ArbPaths /\ Tail(arbs) \in Seq(ArbPaths)
    BY <1>4, <1>d DEF ReceiveArbPath
  <2> QED BY <1>4, <2>1, <1>d DEF ReceiveArbPath
<1>5. CASE SimulatorEnds \/ QuotePanics
  BY <1>d, <1>5 DEF SimulatorEnds, QuotePanics, Workers
<1>6. CASE QuoteReverts
  <2>1. job \in ArbPaths
    BY <1>6, <1>t, <1>d DEF QuoteReverts, QuoteInv
  <2>2. job.path \in Paths
    BY <2>1 DEF ArbPaths
  <2> QED BY <1>6, <2>2, <1>d DEF QuoteReverts
<1>7. CASE QuoteSucceeds
  <2> DEFINE out == quote_path(AMOUNT)
  <2>1. job # Nothing /\ out # Reverts
    BY <1>7, <1>t DEF QuoteSucceeds, QuoteInv
  <2>2. out \in Nat /\ Taken(AMOUNT, out) \subseteq QuoteTaken
    BY <2>1, <1>t, QuoteKind
  <2> HIDE DEF out
  <2> QED BY <1>7, <2>2, <1>d DEF QuoteSucceeds, out
<1>8. CASE OptimizeRound
  <2> DEFINE input == curr_input + STEP
             out   == quote_path(input)
  <2>1. job # Nothing /\ curr_input < AMOUNT + MAXSTEPS * STEP
    BY <1>8, <1>t DEF OptimizeRound, QuoteInv
  <2>2. input \in Inputs
    BY <2>1, <1>d
  <2>3. out \in Nat \cup {Reverts} /\ (out # Reverts => Taken(input, out) \subseteq QuoteTaken)
    BY <2>1, <2>2, <1>t, QuoteKind
  <2>4. quotes' \subseteq QuoteTaken /\ curr_input' \in Inputs
    BY <1>8, <2>2, <2>3, <1>d DEF OptimizeRound
  <2>5. best_input' \in Inputs /\ best_output' \in Nat
    BY <1>8, <2>2, <2>3, <1>d DEF OptimizeRound
  <2>6. simPc' \in {"optimize", "send"} /\ job' = job /\ blacklist' = blacklist
    BY <1>8 DEF OptimizeRound
  <2> QED BY <1>8, <2>4, <2>5, <2>6, <1>d DEF OptimizeRound
<1>9. CASE OptimizeDone
  BY <1>9, <1>d DEF OptimizeDone
<1>10. CASE SendValidPath
  <2>1. job \in ArbPaths
    BY <1>10, <1>t, <1>d DEF SendValidPath, QuoteInv
  <2>2. [path |-> job.path, block |-> job.block, amountIn |-> best_input, quotes |-> quotes]
            \in ValidPaths
    BY <2>1, <1>d DEF ArbPaths, ValidPaths
  <2> QED BY <1>10, <2>2, <1>d DEF SendValidPath
<1>11. CASE ReceiveValidPath
  <2>1. Head(valids) \in ValidPaths /\ Tail(valids) \in Seq(ValidPaths)
    BY <1>11, <1>d DEF ReceiveValidPath
  <2>2. [valid |-> Head(valids), nonce |-> nonce] \in Transactions
    BY <2>1, <1>d DEF Transactions
  <2> QED BY <1>11, <2>1, <2>2, <1>d DEF ReceiveValidPath
<1>12. CASE PostAccepted \/ PostFails \/ SenderEnds
  <2>1. tx # Nothing => Append(accepted, tx) \in Seq(Transactions)
    BY <1>d
  <2> QED BY <1>12, <2>1, <1>d DEF PostAccepted, PostFails, SenderEnds, Workers
<1>13. CASE UNCHANGED vars
  BY <1>13, <1>d DEF vars
<1> QED BY <1>1, <1>2, <1>3, <1>4, <1>5, <1>6, <1>7, <1>8, <1>9, <1>10, <1>11, <1>12, <1>13
        DEF Next, Search, Simulator, Sender

-----------------------------------------------------------------------------

\* Nonces: whoever loses a transaction takes no other.
LEMMA NonceStep == IInv /\ [Next]_vars => NonceInv'
<1> SUFFICES ASSUME IInv, [Next]_vars PROVE NonceInv'
  OBVIOUS
<1> USE NothingAssumption DEF sendVars, Running, Ended, End
<1>t. /\ NonceInv /\ accepted \in Seq(Transactions) /\ Len(accepted) \in Nat
      /\ status \in [Workers -> {"waiting", "running", "ended"}]
      /\ "sender" \in Workers
      /\ (tx # Nothing => tx \in Transactions)
  BY DEF IInv, DispatchInv, TypeOK, Workers
<1>1. ASSUME UNCHANGED sendVars, status'["sender"] = status["sender"] PROVE NonceInv'
  BY <1>1, <1>t DEF NonceInv
<1>2. CASE Updater \/ Search \/ Simulator \/ UNCHANGED vars
  <2>1. UNCHANGED sendVars /\ status'["sender"] = status["sender"]
    BY <1>2, <1>t DEF Updater, StoreCaughtUp, SendPoolsTouched, UpdaterEnds, WriteBlock,
       Search, SendNone, SearcherEnds, SendArbPath, Simulator, ReceiveArbPath,
       SimulatorEnds, QuotePanics, QuoteReverts, QuoteSucceeds, OptimizeRound, OptimizeDone,
       SendValidPath, vars
  <2> QED BY <2>1, <1>1
<1>3. CASE Main
  <2>1. UNCHANGED sendVars
    BY <1>3 DEF Main, SpawnSearch, SpawnSender
  <2>2. \/ status'["sender"] = status["sender"]
        \/ status["sender"] = "waiting" /\ status'["sender"] = "running"
    <3>1. CASE SpawnSearch
      <4>1. status' = [status EXCEPT !["simulator"] = "running", !["searcher"] = "running"]
        BY <3>1 DEF SpawnSearch
      <4>2. status \in [Workers -> {"waiting", "running", "ended"}] /\ "sender" \in Workers
        BY <1>t
      <4> QED BY ONLY <4>1, <4>2
    <3>2. CASE SpawnSender
      BY <3>2, <1>t DEF SpawnSender
    <3> QED BY <1>3, <3>1, <3>2 DEF Main
  <2> QED BY <2>1, <2>2, <1>t DEF NonceInv
<1>4. CASE ReceiveValidPath
  <2>1. /\ status["sender"] = "running" /\ UNCHANGED <<status, accepted>> /\ tx = Nothing
        /\ tx' = [valid |-> Head(valids), nonce |-> nonce] /\ nonce' = nonce + 1
    BY <1>4 DEF ReceiveValidPath
  <2>2. nonce = Len(accepted) /\ tx'.nonce = nonce
    BY <2>1, <1>t DEF NonceInv
  <2>3. tx' # Nothing
    <3>1. valids # <<>> /\ valids \in Seq(ValidPaths) /\ nonce \in Nat
      BY <1>4 DEF ReceiveValidPath, IInv, TypeOK
    <3>2. tx' \in Transactions
      BY <2>1, <3>1 DEF Transactions
    <3> QED BY <3>2
  <2> QED BY <2>1, <2>2, <2>3, <1>t DEF NonceInv
\* a transaction accepted has the next nonce
<1>5. ASSUME tx # Nothing, accepted' = Append(accepted, tx)
      PROVE  /\ Len(accepted') = Len(accepted) + 1
             /\ \A i \in DOMAIN accepted' : accepted'[i].nonce = i - 1
  <2>1. /\ Len(accepted') = Len(accepted) + 1 /\ DOMAIN accepted' = 1..(Len(accepted) + 1)
        /\ accepted'[Len(accepted) + 1] = tx
        /\ \A i \in 1..Len(accepted) : accepted'[i] = accepted[i]
    BY <1>5, <1>t
  <2>2. tx.nonce = Len(accepted) /\ \A i \in 1..Len(accepted) : accepted[i].nonce = i - 1
    BY <1>5, <1>t DEF NonceInv
  <2>3. \A i \in 1..(Len(accepted) + 1) : i \in 1..Len(accepted) \/ i = Len(accepted) + 1
    BY <1>t
  <2> QED BY <2>1, <2>2, <2>3, <1>t
<1>6. CASE PostAccepted
  <2>1. /\ tx # Nothing /\ accepted' = Append(accepted, tx) /\ tx' = Nothing
        /\ UNCHANGED <<status, nonce>>
    BY <1>6 DEF PostAccepted
  <2>2. nonce = Len(accepted) + 1
    BY <2>1, <1>t DEF NonceInv
  <2> QED BY <2>1, <2>2, <1>5 DEF NonceInv
<1>7. CASE PostFails
  <2>1. /\ tx # Nothing /\ tx' = Nothing /\ status'["sender"] = "ended"
        /\ accepted' = accepted \/ accepted' = Append(accepted, tx)
    BY <1>7, <1>t DEF PostFails
  <2>2. \A i \in DOMAIN accepted' : accepted'[i].nonce = i - 1
    BY <2>1, <1>5, <1>t DEF NonceInv
  <2> QED BY <2>1, <2>2 DEF NonceInv
<1>8. CASE SenderEnds
  <2>1. UNCHANGED sendVars /\ tx = Nothing /\ status'["sender"] = "ended"
    BY <1>8, <1>t DEF SenderEnds
  <2> QED BY <2>1, <1>t DEF NonceInv
<1> QED BY <1>2, <1>3, <1>4, <1>6, <1>7, <1>8 DEF Next, Sender

-----------------------------------------------------------------------------
(* The line of blocks. *)

\* A message goes to the end of a queue.
LEMMA AppendBlocks ==
    ASSUME NEW S, NEW s \in Seq(S), NEW m \in S
    PROVE  /\ Blocks(Append(s, m)) = Blocks(s) \cup {m.block}
           /\ Ascending(s) /\ Before(Blocks(s), {m.block}) => Ascending(Append(s, m))
<1> DEFINE n == Len(s)
           t == Append(s, m)
<1>1. /\ n \in Nat /\ DOMAIN s = 1..n /\ DOMAIN t = 1..(n + 1)
      /\ t[n + 1] = m /\ \A i \in 1..n : t[i] = s[i]
  OBVIOUS
<1> HIDE DEF n, t
<1>2. \A i \in 1..(n + 1) : i \in 1..n \/ i = n + 1
  BY <1>1
<1>3. n + 1 \in 1..(n + 1) /\ \A i \in 1..n : i \in 1..(n + 1)
  BY <1>1
<1>4. Blocks(t) = Blocks(s) \cup {m.block}
  BY <1>1, <1>2, <1>3 DEF Blocks
<1>5. ASSUME Ascending(s), Before(Blocks(s), {m.block}) PROVE Ascending(t)
  <2> SUFFICES ASSUME NEW i \in 1..(n + 1), NEW j \in 1..(n + 1), i < j
               PROVE  t[i].block < t[j].block
    BY <1>1 DEF Ascending
  <2>1. i \in 1..n
    BY <1>1
  <2>2. CASE j \in 1..n
    BY <1>1, <1>5, <2>1, <2>2 DEF Ascending
  <2>3. CASE j = n + 1
    <3>1. s[i].block \in Blocks(s)
      BY <1>1, <2>1 DEF Blocks
    <3> QED BY <1>1, <1>5, <2>1, <2>3, <3>1 DEF Before
  <2> QED BY <1>2, <2>2, <2>3
<1> QED BY <1>4, <1>5 DEF t

\* A message is taken from the head of a queue.
LEMMA TailBlocks ==
    ASSUME NEW S, NEW s \in Seq(S), s # <<>>
    PROVE  /\ Blocks(s) = {Head(s).block} \cup Blocks(Tail(s))
           /\ Ascending(s) => Ascending(Tail(s)) /\ Before({Head(s).block}, Blocks(Tail(s)))
<1> DEFINE n == Len(s)
           t == Tail(s)
<1>1. /\ n \in Nat \ {0} /\ DOMAIN s = 1..n /\ DOMAIN t = 1..(n - 1)
      /\ Head(s) = s[1] /\ \A i \in 1..(n - 1) : t[i] = s[i + 1]
  OBVIOUS
<1> HIDE DEF n, t
<1>2. /\ 1 \in 1..n /\ \A i \in 1..(n - 1) : i + 1 \in 1..n /\ 1 < i + 1
      /\ \A i \in 1..n : i = 1 \/ (i - 1 \in 1..(n - 1) /\ (i - 1) + 1 = i)
      /\ \A i, j \in 1..(n - 1) : i < j => i + 1 < j + 1
  BY <1>1
<1>3. Blocks(s) = {Head(s).block} \cup Blocks(t)
  <2>1. ASSUME NEW x \in Blocks(s) PROVE x \in {Head(s).block} \cup Blocks(t)
    <3>1. PICK i \in 1..n : x = s[i].block
      BY <1>1 DEF Blocks
    <3>2. CASE i = 1
      BY <1>1, <3>1, <3>2
    <3>3. CASE i - 1 \in 1..(n - 1) /\ (i - 1) + 1 = i
      <4>1. t[i - 1] = s[i]
        BY <1>1, <3>3
      <4> QED BY <1>1, <3>1, <3>3, <4>1 DEF Blocks
    <3> QED BY <1>2, <3>2, <3>3
  <2>2. ASSUME NEW x \in Blocks(t) PROVE x \in Blocks(s)
    <3>1. PICK i \in 1..(n - 1) : x = t[i].block
      BY <1>1 DEF Blocks
    <3>2. i + 1 \in DOMAIN s /\ x = s[i + 1].block
      BY <1>1, <1>2, <3>1
    <3> QED BY <3>2 DEF Blocks
  <2>3. Head(s).block \in Blocks(s)
    BY <1>1, <1>2 DEF Blocks
  <2> QED BY <2>1, <2>2, <2>3
<1>4. ASSUME Ascending(s) PROVE Ascending(t) /\ Before({Head(s).block}, Blocks(t))
  <2>1. Ascending(t)
    <3> SUFFICES ASSUME NEW i \in 1..(n - 1), NEW j \in 1..(n - 1), i < j
                 PROVE  t[i].block < t[j].block
      BY <1>1 DEF Ascending
    <3>1. i + 1 \in DOMAIN s /\ j + 1 \in DOMAIN s /\ i + 1 < j + 1
      BY <1>1, <1>2
    <3>2. s[i + 1].block < s[j + 1].block
      BY <1>4, <3>1 DEF Ascending
    <3> QED BY <1>1, <3>2
  <2>2. ASSUME NEW i \in 1..(n - 1) PROVE Head(s).block < t[i].block
    <3>1. 1 \in DOMAIN s /\ i + 1 \in DOMAIN s /\ 1 < i + 1
      BY <1>1, <1>2
    <3> QED BY <1>1, <1>4, <3>1 DEF Ascending
  <2>3. Before({Head(s).block}, Blocks(t))
    BY <1>1, <2>2 DEF Before, Blocks
  <2> QED BY <2>1, <2>3
<1> QED BY <1>3, <1>4 DEF t

\* A transaction reaches the sequencer.
LEMMA AcceptBlocks ==
    ASSUME NEW S, accepted \in Seq(S), NEW m \in S, accepted' = Append(accepted, m)
    PROVE  /\ AcceptedBlocks' = AcceptedBlocks \cup {m.valid.block}
           /\ /\ \A i, j \in DOMAIN accepted :
                    i < j => accepted[i].valid.block < accepted[j].valid.block
              /\ Before(AcceptedBlocks, {m.valid.block})
              => \A i, j \in DOMAIN accepted' :
                    i < j => accepted'[i].valid.block < accepted'[j].valid.block
<1> DEFINE n == Len(accepted)
<1>1. /\ n \in Nat /\ DOMAIN accepted = 1..n /\ DOMAIN accepted' = 1..(n + 1)
      /\ accepted'[n + 1] = m /\ \A i \in 1..n : accepted'[i] = accepted[i]
  OBVIOUS
<1> HIDE DEF n
<1>2. \A i \in 1..(n + 1) : i \in 1..n \/ i = n + 1
  BY <1>1
<1>3. n + 1 \in 1..(n + 1) /\ \A i \in 1..n : i \in 1..(n + 1)
  BY <1>1
<1>4. AcceptedBlocks' = AcceptedBlocks \cup {m.valid.block}
  BY <1>1, <1>2, <1>3 DEF AcceptedBlocks
<1>5. ASSUME \A i, j \in DOMAIN accepted :
                 i < j => accepted[i].valid.block < accepted[j].valid.block,
             Before(AcceptedBlocks, {m.valid.block}),
             NEW i \in 1..(n + 1), NEW j \in 1..(n + 1), i < j
      PROVE  accepted'[i].valid.block < accepted'[j].valid.block
  <2>1. i \in 1..n
    BY <1>1, <1>5
  <2>2. CASE j \in 1..n
    BY <1>1, <1>5, <2>1, <2>2
  <2>3. CASE j = n + 1
    <3>1. accepted[i].valid.block \in AcceptedBlocks
      BY <1>1, <2>1 DEF AcceptedBlocks
    <3> QED BY <1>1, <1>5, <2>1, <2>3, <3>1 DEF Before
  <2> QED BY <1>2, <2>2, <2>3
<1> QED BY <1>1, <1>4, <1>5

\* What the searcher has been told of only grows.
LEMMA ToldGrows ==
    ASSUME IInv, [Next]_vars
    PROVE  ToldBlocks \subseteq ToldBlocks'
<1>1. /\ received \in 0..Len(published) /\ Len(published) \in Nat /\ published \in Seq(FeedBlocks)
      /\ Newest \in FeedBlocks \cup {SyncedAt}
  BY FeedFacts, DispatchAssumption DEF IInv, TypeOK, DispatchInv, FeedTypeOK
<1>2. published' = published \/ published' = Append(published, Newest)
  BY DEF Next, vars, feedVars, Updater, StoreCaughtUp, SendPoolsTouched, UpdaterEnds, WriteBlock,
     CatchUp, Apply, GoLive, Publish, Main, SpawnSearch, SpawnSender, Search, SendNone, SearcherEnds,
     SendArbPath, Simulator, ReceiveArbPath, SimulatorEnds, QuotePanics, QuoteReverts, QuoteSucceeds,
     OptimizeRound, OptimizeDone, SendValidPath, Sender, ReceiveValidPath, PostAccepted, PostFails,
     SenderEnds
<1>3. \A k \in 1..Len(published) : published'[k] = published[k]
  BY <1>1, <1>2
<1>4. received \in Nat /\ received' \in Nat /\ received <= received'
  BY <1>1, ReceivedPart
<1>5. \A k \in 1..received : k \in 1..received' /\ k \in 1..Len(published)
  BY <1>1, <1>4
<1> QED BY <1>3, <1>5 DEF ToldBlocks

\* A path goes in behind everything in flight.
LEMMA LineEntry ==
    ASSUME IInv, [Next]_vars, NEW pa \in Paths, SendArbPath(pa)
    PROVE  LineInv'
<1> DEFINE b == published[received + 1]
           m == [path |-> pa, block |-> b]
<1>t. /\ received \in Nat /\ Len(published) \in Nat /\ published \in Seq(FeedBlocks)
      /\ arbs \in Seq(ArbPaths)
      /\ LineInv /\ received < Len(published)
      /\ received' = received + 1 /\ published' = published
      /\ arbs' = arbs \/ arbs' = Append(arbs, m)
      /\ UNCHANGED <<accepted, tx, valids, job>>
  BY DEF IInv, TypeOK, DispatchInv, FeedTypeOK, SendArbPath, TakeEvent, SendTo, simVars, sendVars,
     feedVars
<1>1. received + 1 \in 1..Len(published)
      /\ \A k \in 1..received : k \in 1..Len(published) /\ k < received + 1
  BY <1>t
<1>2. \A k \in 1..received : published[k] < b
  BY <1>1, FeedFacts, DispatchAssumption DEF IInv, TypeOK, DispatchInv
<1>3. b \in ToldBlocks' /\ ToldBlocks \subseteq ToldBlocks' /\ \A x \in ToldBlocks : x < b
  <2>1. received + 1 \in 1..received'
    BY <1>t
  <2>2. b \in ToldBlocks'
    BY <1>t, <2>1 DEF ToldBlocks
  <2>3. \A x \in ToldBlocks : x < b
    BY <1>2 DEF ToldBlocks
  <2> QED BY <2>2, <2>3, ToldGrows
<1>4. m \in ArbPaths /\ m.block = b
  BY <1>1, <1>t DEF ArbPaths
<1> HIDE DEF b, m
<1>5. /\ UNCHANGED <<AcceptedBlocks, TxBlocks, JobBlocks>> /\ Blocks(valids') = Blocks(valids)
      /\ Ascending(valids')
      /\ \A i, j \in DOMAIN accepted' : i < j => accepted'[i].valid.block < accepted'[j].valid.block
  BY <1>t DEF AcceptedBlocks, TxBlocks, JobBlocks, LineInv
<1>6. Before(Blocks(arbs), {b})
  BY <1>3, <1>t DEF LineInv, Before
<1>7. Blocks(arbs') \subseteq Blocks(arbs) \cup {b} /\ Ascending(arbs')
  <2>1. CASE arbs' = arbs
    BY <2>1, <1>t DEF LineInv
  <2>2. CASE arbs' = Append(arbs, m)
    BY <2>2, <1>t, <1>4, <1>6, AppendBlocks DEF LineInv
  <2> QED BY <2>1, <2>2, <1>t
<1> QED BY <1>3, <1>5, <1>7, <1>t DEF LineInv, Before

\* Every step keeps the line.
LEMMA LineStep == IInv /\ [Next]_vars => LineInv'
<1> SUFFICES ASSUME IInv, [Next]_vars PROVE LineInv'
  OBVIOUS
<1> USE NothingAssumption DEF SendTo, simVars, sendVars
<1>t. /\ LineInv /\ ToldBlocks \subseteq ToldBlocks'
      /\ arbs \in Seq(ArbPaths) /\ valids \in Seq(ValidPaths) /\ accepted \in Seq(Transactions)
      /\ (job # Nothing => job \in ArbPaths) /\ (tx # Nothing => tx \in Transactions)
      /\ (simPc = "recv" <=> job = Nothing)
  BY ToldGrows DEF IInv, TypeOK, DispatchInv, QuoteInv
<1>1. ASSUME UNCHANGED <<accepted, tx, valids, arbs>>, job' \in {job, Nothing} PROVE LineInv'
  <2>1. JobBlocks' \subseteq JobBlocks /\ UNCHANGED <<AcceptedBlocks, TxBlocks>>
    BY <1>1 DEF JobBlocks, AcceptedBlocks, TxBlocks
  <2> QED BY <1>1, <2>1, <1>t DEF LineInv, Before
<1>2. CASE Updater \/ Main \/ SendNone \/ SearcherEnds \/ UNCHANGED vars
  <2>1. UNCHANGED <<accepted, tx, valids, arbs, job>>
    BY <1>2 DEF Updater, StoreCaughtUp, SendPoolsTouched, UpdaterEnds, WriteBlock, Main, SpawnSearch,
       SpawnSender, SendNone, SearcherEnds, vars
  <2> QED BY <2>1, <1>1
<1>3. CASE SimulatorEnds \/ QuotePanics \/ QuoteReverts \/ QuoteSucceeds \/ OptimizeRound
           \/ OptimizeDone \/ SenderEnds
  <2>1. UNCHANGED <<accepted, tx, valids, arbs>> /\ job' \in {job, Nothing}
    BY <1>3 DEF SimulatorEnds, QuotePanics, QuoteReverts, QuoteSucceeds, OptimizeRound, OptimizeDone,
       SenderEnds
  <2> QED BY <2>1, <1>1
<1>4. CASE ReceiveArbPath
  <2>1. /\ arbs # <<>> /\ arbs' = Tail(arbs) /\ job = Nothing /\ job' \in {job, Head(arbs)}
        /\ UNCHANGED <<accepted, tx, valids>>
    BY <1>4, <1>t DEF ReceiveArbPath
  <2>2. /\ Blocks(arbs) = {Head(arbs).block} \cup Blocks(arbs') /\ Ascending(arbs')
        /\ Before({Head(arbs).block}, Blocks(arbs'))
    BY <2>1, <1>t, TailBlocks DEF LineInv
  <2>3. JobBlocks' \subseteq {Head(arbs).block} /\ UNCHANGED <<AcceptedBlocks, TxBlocks>>
    BY <2>1 DEF JobBlocks, AcceptedBlocks, TxBlocks
  <2> QED BY <2>1, <2>2, <2>3, <1>t DEF LineInv, Before
<1>5. CASE SendValidPath
  <2> DEFINE m == [path |-> job.path, block |-> job.block, amountIn |-> best_input, quotes |-> quotes]
  <2>1. /\ job # Nothing /\ job' = Nothing /\ valids' \in {valids, Append(valids, m)}
        /\ UNCHANGED <<accepted, tx, arbs>>
    BY <1>5, <1>t DEF SendValidPath
  <2>2. m \in ValidPaths /\ m.block = job.block
    BY <2>1, <1>t DEF ValidPaths, ArbPaths, IInv, TypeOK
  <2> HIDE DEF m
  <2>3. JobBlocks = {job.block} /\ JobBlocks' = {} /\ UNCHANGED <<AcceptedBlocks, TxBlocks>>
    BY <2>1 DEF JobBlocks, AcceptedBlocks, TxBlocks
  <2>4. Before(Blocks(valids), {job.block}) /\ Ascending(valids)
    BY <2>3, <1>t DEF LineInv, Before
  <2>5. Blocks(valids') \subseteq Blocks(valids) \cup {job.block} /\ Ascending(valids')
    <3>1. CASE valids' = Append(valids, m)
      BY <3>1, <2>2, <2>4, <1>t, AppendBlocks
    <3> QED BY <2>1, <2>4, <3>1
  <2> QED BY <2>1, <2>3, <2>5, <1>t DEF LineInv, Before
<1>6. CASE ReceiveValidPath
  <2>1. /\ valids # <<>> /\ valids' = Tail(valids) /\ tx = Nothing
        /\ tx' = [valid |-> Head(valids), nonce |-> nonce]
        /\ UNCHANGED <<accepted, job, arbs>>
    BY <1>6 DEF ReceiveValidPath
  <2>2. /\ Blocks(valids) = {Head(valids).block} \cup Blocks(valids') /\ Ascending(valids')
        /\ Before({Head(valids).block}, Blocks(valids'))
    BY <2>1, <1>t, TailBlocks DEF LineInv
  <2>3. TxBlocks' \subseteq {Head(valids).block} /\ UNCHANGED <<AcceptedBlocks, JobBlocks>>
    BY <2>1 DEF JobBlocks, AcceptedBlocks, TxBlocks
  <2> QED BY <2>1, <2>2, <2>3, <1>t DEF LineInv, Before
<1>7. CASE PostAccepted \/ PostFails
  <2>1. /\ tx # Nothing /\ tx' = Nothing /\ accepted' \in {accepted, Append(accepted, tx)}
        /\ UNCHANGED <<valids, job, arbs>>
    BY <1>7 DEF PostAccepted, PostFails
  <2>2. TxBlocks = {tx.valid.block} /\ TxBlocks' = {} /\ UNCHANGED JobBlocks
    BY <2>1 DEF TxBlocks, JobBlocks
  <2>3. Before(AcceptedBlocks, {tx.valid.block})
    BY <2>2, <1>t DEF LineInv, Before
  <2>4. /\ AcceptedBlocks' \subseteq AcceptedBlocks \cup {tx.valid.block}
        /\ \A i, j \in DOMAIN accepted' :
              i < j => accepted'[i].valid.block < accepted'[j].valid.block
    <3>1. CASE accepted' = Append(accepted, tx)
      BY <3>1, <2>1, <2>3, <1>t, AcceptBlocks DEF LineInv
    <3>2. CASE accepted' = accepted
      BY <3>2, <1>t DEF LineInv, AcceptedBlocks
    <3> QED BY <2>1, <3>1, <3>2
  <2> QED BY <2>1, <2>2, <2>4, <1>t DEF LineInv, Before
<1> QED BY <1>2, <1>3, <1>4, <1>5, <1>6, <1>7, LineEntry DEF Next, Search, Simulator, Sender

-----------------------------------------------------------------------------
(* What is sent was quoted. *)

\* A path in hand was found in a block that has been written.
LEMMA JobWritten ==
    ASSUME IInv, job # Nothing
    PROVE  job.block \in Nat /\ Newest \in Nat /\ Newest >= job.block
<1> USE DispatchAssumption
<1>1. job.block \in ToldBlocks
  BY DEF IInv, DispatchInv, LineInv, JobBlocks
<1>2. PICK k \in 1..received : job.block = published[k]
  BY <1>1 DEF ToldBlocks
<1>3. k \in 1..Len(published)
  BY DEF IInv, TypeOK, FeedTypeOK
<1>4. published[k] \in Nat /\ published[k] <= Newest /\ Newest \in FeedBlocks \cup {SyncedAt}
  BY <1>3, FeedFacts DEF IInv, TypeOK, DispatchInv
<1> QED BY <1>2, <1>4

\* The first quote is the best so far.
LEMMA FirstQuote ==
    ASSUME IInv, QuoteSucceeds
    PROVE  /\ simPc' \in {"recv", "optimize"} /\ (simPc' = "recv" <=> job' = Nothing)
           /\ simPc' = "optimize" => BestQuoted'
<1> DEFINE out == quote_path(AMOUNT)
<1>1. job # Nothing /\ out # Reverts
  BY DEF IInv, DispatchInv, QuoteInv, QuoteSucceeds
<1>2. out \in Nat /\ AMOUNT \in Nat
  BY <1>1, QuoteKind, InputFacts, DispatchAssumption DEF IInv, DispatchInv
<1>3. \/ simPc' = "recv" /\ job' = Nothing
      \/ /\ simPc' = "optimize" /\ job' = job /\ ~(out > CAP)
         /\ best_input' = AMOUNT /\ best_output' = out /\ quotes' = Taken(AMOUNT, out)
  BY DEF QuoteSucceeds
<1>4. Newest >= job.block
  BY <1>1, JobWritten
<1> HIDE DEF out
<1>5. out <= out /\ (~(out > CAP) => out <= CAP)
  BY <1>2, DispatchAssumption
<1>6. ASSUME simPc' = "optimize" PROVE BestQuoted'
  <2> DEFINE r == [in |-> AMOUNT, out |-> out, ver |-> Newest]
  <2>1. r.in = AMOUNT /\ r.out = out /\ r.ver = Newest /\ quotes' = {r}
    BY <1>3, <1>6 DEF Taken
  <2> HIDE DEF r
  <2>2. \A q \in quotes' : q.ver >= job'.block
    BY <1>3, <1>4, <1>6, <2>1
  <2>3. /\ r.in = best_input' /\ r.out = best_output'
        /\ r.out <= CAP /\ r.out <= best_output' /\ best_input' = AMOUNT
    BY <1>3, <1>5, <1>6, <2>1
  <2> QED BY <2>1, <2>2, <2>3, Zenon DEF BestQuoted
<1> QED BY <1>1, <1>3, <1>6

\* A further round adds a quote, and a new best one only where it beats the old.
LEMMA NextQuote ==
    ASSUME IInv, OptimizeRound
    PROVE  /\ simPc' \in {"optimize", "send"} /\ job' = job /\ job # Nothing
           /\ BestQuoted'
<1> DEFINE input == curr_input + STEP
           out   == quote_path(input)
<1>1. job # Nothing /\ BestQuoted /\ curr_input \in Inputs /\ curr_input < AMOUNT + MAXSTEPS * STEP
  BY DEF IInv, TypeOK, DispatchInv, QuoteInv, OptimizeRound
<1>2. input \in Inputs /\ input # AMOUNT /\ input \in Nat
  BY <1>1, InputFacts
<1>3. /\ simPc' \in {"optimize", "send"} /\ job' = job
      /\ quotes' = IF out = Reverts THEN quotes ELSE quotes \cup Taken(input, out)
      /\ \/ Better(out, input) /\ best_input' = input /\ best_output' = out
         \/ best_input' = best_input /\ best_output' = best_output
  BY DEF OptimizeRound
<1>4. Newest >= job.block
  BY <1>1, JobWritten
<1>5. out \in Nat \cup {Reverts} /\ best_output \in Nat /\ CAP \in Nat
      /\ \A q \in quotes : q.out \in Nat
  BY <1>1, <1>2, QuoteKind, DispatchAssumption DEF IInv, TypeOK, DispatchInv, QuoteTaken
<1> HIDE DEF input, out
<1>6. quotes \subseteq quotes' /\ \A q \in quotes' : q \in quotes \/ q.ver = Newest
  BY <1>3 DEF Taken
<1>7. \A q \in quotes' : q.ver >= job'.block
  BY <1>1, <1>3, <1>4, <1>6 DEF BestQuoted
<1>8. PICK q \in quotes, first \in quotes :
          /\ q.in = best_input /\ q.out = best_output
          /\ first.in = AMOUNT /\ first.out <= CAP /\ first.out <= best_output
          /\ best_input # AMOUNT => best_output > best_input /\ best_output > first.out
  BY <1>1 DEF BestQuoted
<1>9. ASSUME best_input' = best_input, best_output' = best_output PROVE BestQuoted'
  <2>1. q \in quotes' /\ first \in quotes'
    BY <1>6
  <2>2. /\ q.in = best_input' /\ q.out = best_output' /\ first.in = AMOUNT /\ first.out <= CAP
        /\ first.out <= best_output'
        /\ best_input' # AMOUNT => best_output' > best_input' /\ best_output' > first.out
    BY <1>8, <1>9
  <2> QED BY <1>7, <2>1, <2>2, Zenon DEF BestQuoted
<1>10. ASSUME Better(out, input), best_input' = input, best_output' = out PROVE BestQuoted'
  <2> DEFINE r == [in |-> input, out |-> out, ver |-> Newest]
  <2>1. r \in quotes' /\ r.in = input /\ r.out = out
    BY <1>3, <1>10 DEF Taken
  <2>2. out \in Nat /\ out > input /\ out > best_output /\ first.out \in Nat
    BY <1>5, <1>8, <1>10
  <2>3. out > first.out /\ first.out <= out
    BY <1>5, <1>8, <2>2
  <2> HIDE DEF r
  <2>4. /\ r.in = best_input' /\ r.out = best_output' /\ first.in = AMOUNT /\ first.out <= CAP
        /\ first.out <= best_output' /\ best_output' > best_input' /\ best_output' > first.out
    BY <1>8, <1>10, <2>1, <2>2, <2>3
  <2>5. r \in quotes' /\ first \in quotes'
    BY <1>6, <2>1
  <2> QED BY <1>7, <2>4, <2>5, Zenon DEF BestQuoted
<1> QED BY <1>1, <1>3, <1>7, <1>9, <1>10

\* Every step sends only what was quoted.
LEMMA QuoteStep == IInv /\ [Next]_vars => QuoteInv'
<1> SUFFICES ASSUME IInv, [Next]_vars PROVE QuoteInv'
  OBVIOUS
<1> USE NothingAssumption DEF SendTo, simVars, sendVars
<1> DEFINE JobQuoted == /\ simPc = "recv" <=> job = Nothing
                        /\ simPc \in {"optimize", "send"} => BestQuoted
           SentQuoted == /\ \A i \in DOMAIN valids : SentAsQuoted(valids[i])
                         /\ tx # Nothing => SentAsQuoted(tx.valid)
                         /\ \A i \in DOMAIN accepted : SentAsQuoted(accepted[i].valid)
<1>t. /\ JobQuoted /\ SentQuoted
      /\ arbs \in Seq(ArbPaths) /\ valids \in Seq(ValidPaths) /\ accepted \in Seq(Transactions)
      /\ job \in ArbPaths \cup {Nothing}
  BY DEF IInv, TypeOK, DispatchInv, QuoteInv
<1> SUFFICES JobQuoted' /\ SentQuoted'
  BY DEF QuoteInv
<1>1. ASSUME UNCHANGED <<simPc, job, best_input, best_output, quotes>> PROVE JobQuoted'
  BY <1>1, <1>t DEF BestQuoted
<1>2. ASSUME UNCHANGED <<valids, tx, accepted>> PROVE SentQuoted'
  BY <1>2, <1>t
<1> HIDE DEF JobQuoted, SentQuoted
<1>3. CASE Updater \/ Main \/ Search \/ SimulatorEnds \/ QuotePanics \/ SenderEnds \/ UNCHANGED vars
  <2>1. UNCHANGED <<simPc, job, best_input, best_output, quotes>> /\ UNCHANGED <<valids, tx, accepted>>
    BY <1>3 DEF Updater, StoreCaughtUp, SendPoolsTouched, UpdaterEnds, WriteBlock, Main, SpawnSearch,
       SpawnSender, Search, SendArbPath, SendNone, SearcherEnds, SimulatorEnds, QuotePanics, SenderEnds,
       vars
  <2> QED BY <2>1, <1>1, <1>2
<1>4. CASE ReceiveArbPath
  <2>1. /\ UNCHANGED <<valids, tx, accepted, quotes, best_input, best_output>>
        /\ arbs # <<>> /\ simPc = "recv"
        /\ \/ UNCHANGED <<simPc, job>>
           \/ simPc' = "quote" /\ job' = Head(arbs)
    BY <1>4 DEF ReceiveArbPath
  <2>2. Head(arbs) \in ArbPaths
    BY <2>1, <1>t
  <2>3. JobQuoted'
    <3>1. CASE UNCHANGED <<simPc, job>>
      BY <3>1, <2>1, <1>1
    <3>2. CASE simPc' = "quote" /\ job' = Head(arbs)
      BY <3>2, <2>2 DEF JobQuoted
    <3> QED BY <2>1, <3>1, <3>2
  <2> QED BY <2>1, <2>3, <1>2
<1>5. CASE QuoteReverts
  BY <1>5, <1>2 DEF QuoteReverts, JobQuoted
<1>6. CASE QuoteSucceeds
  <2>1. UNCHANGED <<valids, tx, accepted>>
    BY <1>6 DEF QuoteSucceeds
  <2>2. JobQuoted'
    BY <1>6, FirstQuote DEF JobQuoted
  <2> QED BY <2>1, <2>2, <1>2
<1>7. CASE OptimizeRound
  <2>1. UNCHANGED <<valids, tx, accepted>>
    BY <1>7 DEF OptimizeRound
  <2>2. JobQuoted'
    BY <1>7, NextQuote DEF JobQuoted
  <2> QED BY <2>1, <2>2, <1>2
<1>8. CASE OptimizeDone
  <2>1. /\ UNCHANGED <<valids, tx, accepted, job, quotes, best_input, best_output>>
        /\ simPc = "optimize" /\ simPc' = "send"
    BY <1>8 DEF OptimizeDone
  <2>2. JobQuoted'
    BY <2>1, <1>t DEF JobQuoted, BestQuoted
  <2> QED BY <2>1, <2>2, <1>2
<1>9. CASE SendValidPath
  <2> DEFINE m == [path |-> job.path, block |-> job.block, amountIn |-> best_input, quotes |-> quotes]
  <2>1. /\ simPc = "send" /\ simPc' = "recv" /\ job' = Nothing
        /\ valids' \in {valids, Append(valids, m)}
        /\ UNCHANGED <<tx, accepted>>
    BY <1>9 DEF SendValidPath
  <2>2. JobQuoted'
    BY <2>1 DEF JobQuoted
  <2>3. BestQuoted /\ job \in ArbPaths
    BY <2>1, <1>t DEF JobQuoted
  <2>4. SentAsQuoted(m)
    <3>1. m.block = job.block /\ m.amountIn = best_input /\ m.quotes = quotes
      OBVIOUS
    <3> HIDE DEF m
    <3> QED BY <2>3, <3>1 DEF BestQuoted, SentAsQuoted
  <2>5. m \in ValidPaths
    BY <2>3 DEF ValidPaths, ArbPaths, IInv, TypeOK
  <2> HIDE DEF m
  <2>6. \A i \in DOMAIN valids' : valids'[i] = m \/ (i \in DOMAIN valids /\ valids'[i] = valids[i])
    BY <2>1, <2>5, <1>t
  <2>7. SentQuoted'
    BY <2>1, <2>4, <2>6, <1>t DEF SentQuoted
  <2> QED BY <2>2, <2>7
<1>10. CASE ReceiveValidPath
  <2>1. /\ UNCHANGED <<simPc, job, best_input, best_output, quotes>>
        /\ valids # <<>> /\ valids' = Tail(valids)
        /\ tx' = [valid |-> Head(valids), nonce |-> nonce] /\ UNCHANGED accepted
    BY <1>10 DEF ReceiveValidPath
  <2>2. /\ 1 \in DOMAIN valids /\ tx'.valid = valids[1]
        /\ \A i \in DOMAIN valids' : i + 1 \in DOMAIN valids /\ valids'[i] = valids[i + 1]
    BY <2>1, <1>t
  <2>3. SentQuoted'
    BY <2>1, <2>2, <1>t DEF SentQuoted
  <2> QED BY <2>1, <2>3, <1>1
<1>11. CASE PostAccepted \/ PostFails
  <2>1. /\ UNCHANGED <<simPc, job, best_input, best_output, quotes>>
        /\ tx # Nothing /\ tx' = Nothing /\ accepted' \in {accepted, Append(accepted, tx)}
        /\ UNCHANGED valids
    BY <1>11 DEF PostAccepted, PostFails
  <2>2. \A i \in DOMAIN accepted' :
            accepted'[i] = tx \/ (i \in DOMAIN accepted /\ accepted'[i] = accepted[i])
    BY <2>1, <1>t DEF IInv, TypeOK
  <2>3. SentQuoted'
    BY <2>1, <2>2, <1>t DEF SentQuoted
  <2> QED BY <2>1, <2>3, <1>1
<1> QED BY <1>3, <1>4, <1>5, <1>6, <1>7, <1>8, <1>9, <1>10, <1>11 DEF Next, Simulator, Sender

-----------------------------------------------------------------------------

\* The inductive invariant holds for any blocks, paths, quotes and amounts, whatever the
\* workers' order and however each of them ends.
THEOREM Invariance == Spec => []IInv
<1>1. IInv /\ [Next]_vars => IInv'
  <2> SUFFICES ASSUME IInv, [Next]_vars PROVE IInv'
    OBVIOUS
  <2>1. TypeOK' /\ OrderInv'
    BY TypeStep, FeedPart
  <2>2. LineInv' /\ NonceInv' /\ QuoteInv'
    BY LineStep, NonceStep, QuoteStep
  <2> QED BY <2>1, <2>2 DEF IInv, DispatchInv
<1> QED BY InitEstablishes, <1>1, PTL DEF Spec

\* The variables of the workers and the messages in their channels keep their types.
THEOREM TypeCorrect == Spec => []TypeOK
<1>1. IInv => TypeOK
  BY DEF IInv
<1> QED BY Invariance, <1>1, PTL

\* tx_sender.rs: whatever answers the sequencer gives or loses, it has taken the nonces
\* one after the other, for transactions whose blocks ascend.
THEOREM NoncesOrdered == Spec => []NoncesInOrder
<1>1. IInv => NoncesInOrder
  BY DEF IInv, DispatchInv, NonceInv, LineInv, NoncesInOrder
<1> QED BY Invariance, <1>1, PTL

\* simulator.rs and quoter.rs: every path in the sender's channel or at the sequencer was
\* quoted with its input, in a state no older than the block it was found in.
THEOREM QuotedOnly == Spec => []OnlyQuoted
<1>1. IInv => OnlyQuoted
  BY DEF IInv, DispatchInv, QuoteInv, OnlyQuoted
<1> QED BY Invariance, <1>1, PTL

=============================================================================
