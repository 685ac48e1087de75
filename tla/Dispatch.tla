-------------------------------- MODULE Dispatch --------------------------------
(***************************************************************************)
(* From an event of the updater to a transaction at the sequencer: the     *)
(* workers that start_workers spawns once the catch-up is over, the two    *)
(* channels between them, the simulator with its blacklist and the input   *)
(* optimizer (simulator.rs, quoter.rs), the sender with its nonce          *)
(* (tx_sender.rs), and how each worker ends.  The updater is BlockFeed,    *)
(* which BlockSync implements; the searcher is reduced to the paths it may *)
(* send (Searcher has the rest).                                           *)
(*                                                                         *)
(* A quote holds the write lock and sees one block (StateDB), so that it   *)
(* is a constant function of path, block and input.  Amounts expected and  *)
(* fees are left out: nothing below depends on them.                       *)
(***************************************************************************)
EXTENDS BlockFeed

CONSTANTS
    Paths,     \* the cycles, each with a hash of its own
    AMOUNT,    \* the input every path is found and first quoted with
    STEP,      \* what optimize_input adds to the input each time
    MAXSTEPS,  \* how often at most
    CAP,       \* a first quote above it (1e18) is not believed
    Quote,     \* Quote[path, block, input]: the last amount, or Reverts
    Reverts,
    Nothing    \* no message in hand

Versions == FeedBlocks \cup {SyncedAt}
Inputs   == {AMOUNT + i * STEP : i \in 0..MAXSTEPS}

ASSUME DispatchAssumption ==
    /\ SyncedAt \in Nat /\ FeedBlocks \subseteq Nat
    /\ AMOUNT \in Nat /\ STEP \in Nat \ {0} /\ MAXSTEPS \in Nat /\ CAP \in Nat
    /\ Quote \in [Paths \X Versions \X Inputs -> Nat \cup {Reverts}]
    /\ Reverts \notin Nat

Workers == {"updater", "searcher", "simulator", "sender"}

VARIABLES
    status,     \* of each worker: "waiting", "running" or "ended"
    received,   \* how many PoolsTouched events the searcher has taken
    poisoned,   \* somebody panicked with the write lock in hand
    sim,        \* SIM: quote and compare only
    arbs,       \* channel of ArbPaths
    valids,     \* channel of ValidPaths
    blacklist,  \* blacklisted_paths
    simPc,      \* simulate_paths: "recv", "quote", "optimize" or "send"
    job,        \*   the ArbPath in hand
    curr_input, best_input, best_output,   \* optimize_input
    quotes,     \*   the successful quotes of the job (history)
    tx,         \* send_transactions: the transaction in hand
    nonce,
    accepted    \* the transactions the sequencer took, in order (history)

simVars == <<blacklist, simPc, job, curr_input, best_input, best_output, quotes>>
sendVars == <<tx, nonce, accepted>>
vars == <<feedVars, status, received, poisoned, sim, arbs, valids, simVars, sendVars>>

ArbPaths   == [path : Paths, block : FeedBlocks]
QuoteTaken == [in : Inputs, out : Nat, ver : Versions]
ValidPaths == [path : Paths, block : FeedBlocks, amountIn : Inputs, quotes : SUBSET QuoteTaken]
Transactions == [valid : ValidPaths, nonce : Nat]

ASSUME NothingAssumption == Nothing \notin ArbPaths /\ Nothing \notin Transactions

TypeOK ==
    /\ FeedTypeOK
    /\ status \in [Workers -> {"waiting", "running", "ended"}]
    /\ received \in 0..Len(published)
    /\ poisoned \in BOOLEAN /\ sim \in BOOLEAN
    /\ arbs \in Seq(ArbPaths)
    /\ valids \in Seq(ValidPaths)
    /\ blacklist \subseteq Paths
    /\ simPc \in {"recv", "quote", "optimize", "send"}
    /\ job \in ArbPaths \cup {Nothing}
    /\ {curr_input, best_input} \subseteq Inputs /\ best_output \in Nat
    /\ quotes \subseteq QuoteTaken
    /\ nonce \in Nat
    /\ tx \in Transactions \cup {Nothing}
    /\ accepted \in Seq(Transactions)

\* Whatever its environment says of SIM, the process starts with the updater.
Init ==
    /\ FeedInit
    /\ status = [w \in Workers |-> IF w = "updater" THEN "running" ELSE "waiting"]
    /\ received = 0
    /\ poisoned = FALSE
    /\ sim \in BOOLEAN
    /\ arbs = <<>> /\ valids = <<>>
    /\ blacklist = {}
    /\ simPc = "recv" /\ job = Nothing
    /\ curr_input = AMOUNT /\ best_input = AMOUNT /\ best_output = 0
    /\ quotes = {}
    /\ tx = Nothing /\ nonce = 0
    /\ accepted = <<>>

Running(w) == status[w] = "running"
Ended(w)   == status[w] = "ended"
End(w)     == status' = [status EXCEPT ![w] = "ended"]

\* A std mpsc channel: recv fails once it is empty and its only sender, which the
\* worker owns, is gone; the mutant keeps a clone of the sender somewhere.
MutantSenderCloned(queue, w) == FALSE
Closed(queue, w) == queue = <<>> /\ Ended(w)

\* Sending to a worker that is gone fails, which is logged and no more.
SendTo(queue, m, w) == IF Ended(w) THEN queue ELSE Append(queue, m)

-----------------------------------------------------------------------------
(* The updater.  It ends when its receiver lags or closes, or by a panic: on a
   poisoned lock at the next block.  An event for a searcher that is gone is lost,
   here the log published keeps it unread. *)

WriteBlock(b) ==
    /\ Running("updater")
    /\ ~poisoned
    /\ CatchUp(b) \/ Apply(b)
    /\ UNCHANGED <<status, received, poisoned, sim, arbs, valids, simVars, sendVars>>

StoreCaughtUp ==
    /\ Running("updater")
    /\ GoLive
    /\ UNCHANGED <<status, received, poisoned, sim, arbs, valids, simVars, sendVars>>

SendPoolsTouched ==
    /\ Running("updater")
    /\ Publish
    /\ UNCHANGED <<status, received, poisoned, sim, arbs, valids, simVars, sendVars>>

UpdaterEnds ==
    /\ Running("updater")
    /\ End("updater")
    /\ UNCHANGED <<feedVars, received, poisoned, sim, arbs, valids, simVars, sendVars>>

-----------------------------------------------------------------------------
(* start_workers after the spin loop. *)

SpawnSearch ==
    /\ live
    /\ status["simulator"] = "waiting"
    /\ status' = [status EXCEPT !["simulator"] = "running", !["searcher"] = "running"]
    /\ UNCHANGED <<feedVars, received, poisoned, sim, arbs, valids, simVars, sendVars>>

\* TransactionSender::new asks the node for the nonce first: it counts from there.
SpawnSender ==
    /\ Running("simulator") \/ Ended("simulator")
    /\ status["sender"] = "waiting"
    /\ status' = [status EXCEPT !["sender"] = "running"]
    /\ UNCHANGED <<feedVars, received, poisoned, sim, arbs, valids, simVars, sendVars>>

-----------------------------------------------------------------------------
(* The searcher: at most one path per event.  With the lock poisoned it panics on
   the first pool it rates, and sends nothing for an event without pools; it also panics
   on a slot that the node does not give it, wherever it calculates a V3 pool. *)

TakeEvent ==
    /\ Running("searcher")
    /\ received < Len(published)
    /\ received' = received + 1

SendArbPath(pa) ==
    /\ TakeEvent
    /\ ~poisoned
    /\ arbs' = SendTo(arbs, [path |-> pa, block |-> published[received']], "simulator")
    /\ UNCHANGED <<feedVars, status, poisoned, sim, valids, simVars, sendVars>>

SendNone ==
    /\ TakeEvent
    /\ UNCHANGED <<feedVars, status, poisoned, sim, arbs, valids, simVars, sendVars>>

SearcherEnds ==
    /\ \/ TakeEvent
       \/ /\ Running("searcher")
          /\ received = Len(published) /\ Ended("updater")
          /\ UNCHANGED received
    /\ End("searcher")
    /\ UNCHANGED <<feedVars, poisoned, sim, arbs, valids, simVars, sendVars>>

-----------------------------------------------------------------------------
(* simulate_paths. *)

\* The mutant forgets the paths that queued up behind one already taken.
MutantNewestOnly == <<>>
RestOfArbs == Tail(arbs)

ReceiveArbPath ==
    /\ Running("simulator")
    /\ simPc = "recv"
    /\ arbs # <<>>
    /\ arbs' = RestOfArbs
    /\ IF Head(arbs).path \in blacklist
       THEN UNCHANGED <<simPc, job>>
       ELSE simPc' = "quote" /\ job' = Head(arbs)
    /\ UNCHANGED <<feedVars, status, received, poisoned, sim, valids, blacklist,
                   curr_input, best_input, best_output, quotes, sendVars>>

SimulatorEnds ==
    /\ Running("simulator")
    /\ simPc = "recv"
    /\ Closed(arbs, "searcher")
    /\ End("simulator")
    /\ UNCHANGED <<feedVars, received, poisoned, sim, arbs, valids, simVars, sendVars>>

\* Quoted on the newest block written.
quote_path(input) == Quote[<<job.path, Newest, input>>]

\* The transaction fails in the database, at a slot that cannot be fetched: the
\* unwrap panics with the write lock in hand, as nobody else does.  A sim run also panics
\* where it calculates the path once more, with no more than the read lock.
QuotePanics ==
    /\ Running("simulator")
    /\ simPc \in {"quote", "optimize"}
    /\ poisoned' = TRUE \/ (sim /\ UNCHANGED poisoned)
    /\ End("simulator")
    /\ UNCHANGED <<feedVars, received, sim, arbs, valids, simVars, sendVars>>

QuoteReverts ==
    /\ Running("simulator")
    /\ simPc = "quote"
    /\ quote_path(AMOUNT) = Reverts
    /\ blacklist' = blacklist \cup {job.path}
    /\ simPc' = "recv" /\ job' = Nothing
    /\ UNCHANGED <<feedVars, status, received, poisoned, sim, arbs, valids,
                   curr_input, best_input, best_output, quotes, sendVars>>

Taken(input, out) == {[in |-> input, out |-> out, ver |-> Newest]}

QuoteSucceeds ==
    LET out == quote_path(AMOUNT)
    IN  /\ Running("simulator")
        /\ simPc = "quote"
        /\ out # Reverts
        /\ IF sim \/ out > CAP
           THEN /\ simPc' = "recv" /\ job' = Nothing
                /\ UNCHANGED <<curr_input, best_input, best_output, quotes>>
           ELSE /\ simPc' = "optimize" /\ UNCHANGED job
                /\ curr_input' = AMOUNT /\ best_input' = AMOUNT /\ best_output' = out
                /\ quotes' = Taken(AMOUNT, out)
        /\ UNCHANGED <<feedVars, status, received, poisoned, sim, arbs, valids, blacklist,
                       sendVars>>

\* One round of optimize_input, with a lock of its own.  The mutant forgets that
\* the input of a failed round is not to be used.
MutantAnyBetter(out, input) == TRUE
Better(out, input) == out # Reverts /\ out > input /\ out > best_output

OptimizeRound ==
    LET input == curr_input + STEP
        out   == quote_path(input)
    IN  /\ Running("simulator")
        /\ simPc = "optimize"
        /\ curr_input < AMOUNT + MAXSTEPS * STEP
        /\ curr_input' = input
        /\ quotes' = IF out = Reverts THEN quotes ELSE quotes \cup Taken(input, out)
        /\ IF Better(out, input)
           THEN best_input' = input /\ best_output' = out /\ UNCHANGED simPc
           ELSE simPc' = "send" /\ UNCHANGED <<best_input, best_output>>
        /\ UNCHANGED <<feedVars, status, received, poisoned, sim, arbs, valids, blacklist,
                       job, sendVars>>

OptimizeDone ==
    /\ Running("simulator")
    /\ simPc = "optimize"
    /\ curr_input = AMOUNT + MAXSTEPS * STEP
    /\ simPc' = "send"
    /\ UNCHANGED <<feedVars, status, received, poisoned, sim, arbs, valids, blacklist,
                   job, curr_input, best_input, best_output, quotes, sendVars>>

\* A mutant that sends the input tried last.
MutantLastInput == curr_input
ChosenInput == best_input

SendValidPath ==
    /\ Running("simulator")
    /\ simPc = "send"
    /\ valids' = SendTo(valids, [path |-> job.path, block |-> job.block,
                                 amountIn |-> ChosenInput, quotes |-> quotes], "sender")
    /\ simPc' = "recv" /\ job' = Nothing
    /\ curr_input' = AMOUNT /\ best_input' = AMOUNT /\ best_output' = 0 /\ quotes' = {}
    /\ UNCHANGED <<feedVars, status, received, poisoned, sim, arbs, blacklist, sendVars>>

-----------------------------------------------------------------------------
(* send_transactions. *)

\* The nonce is counted up before anything is sent.
ReceiveValidPath ==
    /\ Running("sender")
    /\ tx = Nothing
    /\ valids # <<>>
    /\ valids' = Tail(valids)
    /\ tx' = [valid |-> Head(valids), nonce |-> nonce]
    /\ nonce' = nonce + 1
    /\ UNCHANGED <<feedVars, status, received, poisoned, sim, arbs, simVars, accepted>>

\* The answer holds the hash of the transaction; a monitor is spawned that only logs.
PostAccepted ==
    /\ Running("sender")
    /\ tx # Nothing
    /\ accepted' = Append(accepted, tx)
    /\ tx' = Nothing
    /\ UNCHANGED <<feedVars, status, received, poisoned, sim, arbs, valids, simVars, nonce>>

\* An error answer, or no answer within the client's timeout, is unwrapped: the
\* task ends.  The mutant carries on with the next path.
MutantCarryOn == UNCHANGED status
UnwrapFails == End("sender")

\* The transaction may have arrived although the answer did not.
PostFails ==
    /\ Running("sender")
    /\ tx # Nothing
    /\ UnwrapFails
    /\ \/ UNCHANGED accepted
       \/ accepted' = Append(accepted, tx)
    /\ tx' = Nothing
    /\ UNCHANGED <<feedVars, received, poisoned, sim, arbs, valids, simVars, nonce>>

SenderEnds ==
    /\ Running("sender")
    /\ tx = Nothing
    /\ Closed(valids, "simulator")
    /\ End("sender")
    /\ UNCHANGED <<feedVars, received, poisoned, sim, arbs, valids, simVars, sendVars>>

-----------------------------------------------------------------------------
Updater == StoreCaughtUp \/ SendPoolsTouched \/ UpdaterEnds
        \/ \E b \in FeedBlocks : WriteBlock(b)
Main      == SpawnSearch \/ SpawnSender
Search    == SendNone \/ SearcherEnds \/ \E pa \in Paths : SendArbPath(pa)
Simulator == ReceiveArbPath \/ SimulatorEnds \/ QuotePanics \/ QuoteReverts \/ QuoteSucceeds
          \/ OptimizeRound \/ OptimizeDone \/ SendValidPath
Sender    == ReceiveValidPath \/ PostAccepted \/ PostFails \/ SenderEnds

Next == Updater \/ Main \/ Search \/ Simulator \/ Sender

Spec == Init /\ [][Next]_vars

\* The simulator is run again and again: it has no await, so that it keeps the thread it
\* runs on, and whether the sender ever has a turn beside it is left open.  Nothing is assumed
\* of the updater.
FairSpec == Spec /\ WF_vars(Simulator)

\* Main and the searcher are threads of their own; the sender is a task, and each request it
\* waits for is answered or times out.
OthersFair == WF_vars(Main) /\ WF_vars(Search) /\ WF_vars(Sender)

-----------------------------------------------------------------------------
(* Properties. *)

\* The nonce is counted up before the transaction is on its way, and still no
\* transaction waits behind a gap: whoever loses one sends no other.  Blocks ascend with
\* the nonces, so that no block has two transactions and no late one overtakes.
NoncesInOrder ==
    /\ \A i \in DOMAIN accepted : accepted[i].nonce = i - 1
    /\ \A i, j \in DOMAIN accepted : i < j => accepted[i].valid.block < accepted[j].valid.block

\* What is sent was quoted: the input in question, successfully, in a state no older
\* than the block of the path, like every quote it was compared with; an input other than
\* AMOUNT yields more than itself and more than AMOUNT did.
SentAsQuoted(m) ==
    /\ \A q \in m.quotes : q.ver >= m.block
    /\ \E q, first \in m.quotes :
          /\ q.in = m.amountIn /\ first.in = AMOUNT /\ first.out <= CAP
          /\ q.in # AMOUNT => q.out > q.in /\ q.out > first.out

OnlyQuoted ==
    /\ \A i \in DOMAIN valids : SentAsQuoted(valids[i])
    /\ \A i \in DOMAIN accepted : SentAsQuoted(accepted[i].valid)

\* When the updater is gone, for whatever reason, so are all workers in the end,
\* once their channels are empty: nobody trades on a database nobody updates.  It takes all
\* of them to have their turns.
ShutsDown == OthersFair => ((live /\ Ended("updater")) ~> (\A w \in Workers : Ended(w)))

\* In the simulator's channel or its hands; in the sender's channel.
Pending(a)  == job = a \/ \E i \in DOMAIN arbs : arbs[i] = a
PassedOn(a) == \E i \in DOMAIN valids : valids[i].path = a.path /\ valids[i].block = a.block

\* A reason to drop it: its hash is blacklisted, the run is a sim, or its quote in a block
\* written since is beyond belief.
Unwanted(a) ==
    \/ a.path \in blacklist
    \/ sim
    \/ \E v \in Versions :
          /\ a.block <= v /\ v <= Newest
          /\ Quote[<<a.path, v, AMOUNT>>] # Reverts /\ Quote[<<a.path, v, AMOUNT>>] > CAP

\* The simulator decides every path the searcher sent, while it lives: it passes the path on,
\* or drops it for a reason of the path's own, whether the sender has a turn, stalls or is
\* gone (then the path is lost in the channel, but the next one is not held up).
PathsDecided ==
    \A a \in ArbPaths :
        Pending(a) ~> \/ PassedOn(a)
                      \/ ~Pending(a) /\ (Unwanted(a) \/ Ended("sender"))
                      \/ Ended("simulator")

=============================================================================
