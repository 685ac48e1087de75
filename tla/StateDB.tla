------------------------------- MODULE StateDB -------------------------------
(***************************************************************************)
(* The shared database (state_db/blockstate_db.rs): how it is warmed up,   *)
(* populated with pools and kept current by block traces, while EVM quotes *)
(* fetch the slots they miss from the node's newest block.                 *)
(*                                                                         *)
(* An account's storage is abstracted to a few named slots.  The node is a *)
(* sequence of states, one per block; a block is a sequence of             *)
(* transactions, each writing one slot.  Blocks are numbered from 1, the   *)
(* block the pools were synced at.  The node may replace the last blocks.  *)
(*                                                                         *)
(* Changes of the chain do get lost on the way: the trace of a transaction *)
(* fails, a slot is cleared, a block is skipped, or one that was written   *)
(* is orphaned.  The history missed keeps the slots concerned, and what is *)
(* promised of the database is promised of the others.                     *)
(***************************************************************************)
EXTENDS Naturals, FiniteSets, FiniteSetsExt, Sequences

CONSTANTS
    Pools,          \* the working set, the accounts the database tracks
    Tokens,         \* the token0s of the pools, the other accounts a quote touches
    SyncedSlots,    \* the slots insert_v2 and insert_v3 write for a pool
    OtherSlots,     \* the slots of a pool they do not write
    TokenSlots,     \* the slots of a token
    BalanceSlot,    \* the token slot in which warm_up_database gives a balance
    Values,         \* the values of a slot; Zero is the cleared slot
    Zero,
    Granted,        \* the balance warm_up_database writes there
    AllowanceSlot,  \* the token slot in which approve notes what the quoter may take
    Approved,       \* what approve writes there
    Absent,         \* a slot the database does not hold
    InitialStates,  \* the states at the sync block
    MaxBlock,       \* bound: the highest block
    Batches,        \* bound: what a block can be, sequences of transactions
    MayMiss         \* what goes wrong: a subset of {"trace", "gap", "reorg"}

ASSUME StateDBAssumption ==
    /\ Pools \cap Tokens = {} /\ SyncedSlots \cap OtherSlots = {}
    /\ {BalanceSlot, AllowanceSlot} \subseteq TokenSlots /\ BalanceSlot # AllowanceSlot
    /\ Zero \in Values /\ Absent \notin Values \cup {Granted, Approved}
    /\ MaxBlock \in Nat \ {0}
    /\ MayMiss \subseteq {"trace", "gap", "reorg"}

PoolSlots == Pools \X (SyncedSlots \cup OtherSlots)
Slots     == PoolSlots \cup (Tokens \X TokenSlots)
Synced    == Pools \X SyncedSlots
Balances  == Tokens \X {BalanceSlot}
Approvals == Tokens \X {AllowanceSlot}
Grants    == Balances \cup Approvals
\* Nobody on the chain approves the quoter, whose account exists in the bot alone.
Txs       == (Slots \ Approvals) \X Values
States    == [Slots -> Values]

ASSUME InitialStatesAssumption == InitialStates \subseteq States /\ Batches \subseteq Seq(Txs)

VARIABLES
    chain,    \* the node: chain[n] is the state after block n
    blocks,   \* the node: blocks[n] is the transactions of block n
    phase,    \* "warmup", "populate", then "run"
    toGrant,  \* the calls for tokens warm_up_database has not made yet
    toInsert, \* the pools populate_db_with_pools has not inserted yet
    accounts, \* the database: the accounts it holds
    storage,  \*   the value of each slot they hold, Absent otherwise
    applied,  \* last_synced_block: the last block written
    lock,     \* who holds MarketState.db for writing: "free" or "quote"
    quote,    \* the slots the running quote has read, with the values it got
    obtained, \* history: the block whose value a pool slot held when it was inserted
    missed    \* history: the pool slots whose last change was lost on the way

nodeVars == <<chain, blocks>>
vars == <<nodeVars, phase, toGrant, toInsert, accounts, storage, applied, lock, quote,
          obtained, missed>>

HeadBlock == Len(chain)
Present(s) == storage[s] # Absent

TypeOK ==
    /\ chain \in Seq(States) /\ HeadBlock \in 1..MaxBlock
    /\ blocks \in Seq(Seq(Txs)) /\ Len(blocks) = HeadBlock
    /\ phase \in {"warmup", "populate", "run"}
    /\ toGrant \subseteq Grants /\ toInsert \subseteq Pools
    /\ accounts \subseteq Pools \cup Tokens
    /\ storage \in [Slots -> Values \cup {Granted, Approved, Absent}]
    /\ \A s \in Slots : Present(s) => s[1] \in accounts
    /\ applied \in 1..MaxBlock
    /\ lock \in {"free", "quote"}
    /\ DOMAIN quote \subseteq Slots
    /\ obtained \in [PoolSlots -> 0..HeadBlock]
    /\ missed \subseteq PoolSlots
    \* once started, no synced slot is missing: calculators never ask the node for one
    /\ phase = "run" => \A s \in Synced : Present(s)

Init ==
    /\ \E state \in InitialStates : chain = <<state>>
    /\ blocks = <<<<>>>>
    /\ phase = "warmup"
    /\ toGrant = Grants /\ toInsert = Pools
    /\ accounts = {}
    /\ storage = [s \in Slots |-> Absent]
    /\ applied = 1
    /\ lock = "free"
    /\ quote = <<>>
    /\ obtained = [s \in PoolSlots |-> 0]
    /\ missed = {}

-----------------------------------------------------------------------------
(* The node. *)

\* The places in txs where slot s is written.
WritesTo(txs, s) == {i \in DOMAIN txs : txs[i][1] = s}

\* Of several writes to a slot the last one stays: the values st with those at the places
\* in txs that writes[s] gives for each slot s.
Overwrite(st, txs, writes) ==
    [s \in Slots |-> IF writes[s] = {} THEN st[s] ELSE txs[Max(writes[s])][2]]

\* state st after the transactions txs, in order
Execute(st, txs) == Overwrite(st, txs, [s \in Slots |-> WritesTo(txs, s)])

\* A block whose number last_synced_block has passed will be skipped: what it changes
\* is missed.
MineBlock ==
    /\ HeadBlock < MaxBlock
    /\ \E txs \in Batches :
          LET state == Execute(chain[HeadBlock], txs)
          IN  /\ blocks' = Append(blocks, txs)
              /\ chain' = Append(chain, state)
              /\ missed' = missed \cup
                    {s \in PoolSlots : HeadBlock < applied /\ state[s] # chain[HeadBlock][s]}
    /\ UNCHANGED <<phase, toGrant, toInsert, accounts, storage, applied, lock, quote, obtained>>

\* The blocks from b on are dropped from the chain, others are mined after it.  What an
\* orphaned block had changed stays in the database, if it came so far.
Reorg(b) ==
    /\ "reorg" \in MayMiss
    /\ b \in 2..HeadBlock
    /\ chain' = SubSeq(chain, 1, b - 1)
    /\ blocks' = SubSeq(blocks, 1, b - 1)
    /\ missed' = missed \cup
          {s \in PoolSlots : \E n \in b..HeadBlock :
               (n <= applied \/ n <= obtained[s]) /\ chain[n][s] # chain[b - 1][s]}
    /\ obtained' = [s \in PoolSlots |-> IF obtained[s] >= b THEN b - 1 ELSE obtained[s]]
    /\ UNCHANGED <<phase, toGrant, toInsert, accounts, storage, applied, lock, quote>>

-----------------------------------------------------------------------------
(* Start-up: no other task has the database yet. *)

\* insert_account_info puts a fresh account in the place of the one there may be.
FreshAccount(a) == [s \in Slots |-> IF s[1] = a THEN Absent ELSE storage[s]]

\* Database::basic: an account the database has stays as it is.  A mutant of it
\* that inserts the account whenever it is asked.
MutantAnew(a) == FreshAccount(a)
WithAccount(a) == IF a \in accounts THEN storage ELSE FreshAccount(a)

\* The EVM asks for an account, then for its slots (Database::storage): one the
\* database lacks is fetched at the newest block and kept.
Load(s) ==
    LET account == WithAccount(s[1])
    IN  /\ accounts' = accounts \cup {s[1]}
        /\ IF account[s] # Absent
           THEN storage' = account /\ UNCHANGED <<obtained, missed>>
           ELSE /\ storage' = [account EXCEPT ![s] = chain[HeadBlock][s]]
                /\ obtained' = [r \in PoolSlots |-> IF r = s THEN HeadBlock ELSE obtained[r]]
                /\ missed' = missed \ {s}

\* insert_account_storage and the commit of a call: written over whatever is there.
Store(s, value) ==
    /\ accounts' = accounts \cup {s[1]}
    /\ storage' = [WithAccount(s[1]) EXCEPT ![s] = value]

\* An account that is called or looked at and has no slot read.
WarmUpBasic(a) ==
    /\ phase = "warmup"
    /\ a \notin accounts
    /\ accounts' = accounts \cup {a}
    /\ storage' = WithAccount(a)
    /\ UNCHANGED <<nodeVars, phase, toGrant, toInsert, applied, lock, quote, obtained, missed>>

\* approve is the token's code, which may read any account.  The trial swap is encoded
\* twice, no function of the quoter answers to it, and it reads nothing.
WarmUpFetch(s) ==
    /\ phase = "warmup"
    /\ ~Present(s)
    /\ Load(s)
    /\ UNCHANGED <<nodeVars, phase, toGrant, toInsert, applied, lock, quote>>

\* Both for every pool, again and again for the same token.
GrantBalance(t) ==
    /\ phase = "warmup"
    /\ Store(<<t, BalanceSlot>>, Granted)
    /\ toGrant' = toGrant \ {<<t, BalanceSlot>>}
    /\ UNCHANGED <<nodeVars, phase, toInsert, applied, lock, quote, obtained, missed>>

\* Of what transact_commit hands to commit, only the allowance differs from what
\* the database has: the other slots were only read.
CommitApproval(t) ==
    /\ phase = "warmup"
    /\ <<t, BalanceSlot>> \notin toGrant
    /\ Store(<<t, AllowanceSlot>>, Approved)
    /\ toGrant' = toGrant \ {<<t, AllowanceSlot>>}
    /\ UNCHANGED <<nodeVars, phase, toInsert, applied, lock, quote, obtained, missed>>

WarmUpDone ==
    /\ phase = "warmup"
    /\ toGrant = {}
    /\ phase' = "populate"
    /\ UNCHANGED <<nodeVars, toGrant, toInsert, accounts, storage, applied, lock, quote, obtained, missed>>

\* add_pool replaces the pool's account by a fresh one, insert_v2 or insert_v3
\* then writes the slots as they were when the pool was synced.  The mutants keep
\* the account the warm-up may have created, and replace it after the writes.
MutantWriteFirst(p) ==
    storage' = [s \in Slots |-> IF s[1] # p THEN storage[s] ELSE Absent]
MutantKeepAccount(p) ==
    storage' = [s \in Slots |-> IF s[1] # p \/ s \notin Synced \/ Present(s)
                                THEN storage[s] ELSE chain[1][s]]
InsertSlots(p) ==
    storage' = [s \in Slots |-> IF s[1] # p THEN storage[s]
                                ELSE IF s \in Synced THEN chain[1][s] ELSE Absent]

AddPool(p) ==
    /\ phase = "populate"
    /\ p \in toInsert
    /\ toInsert' = toInsert \ {p}
    /\ accounts' = accounts \cup {p}
    /\ InsertSlots(p)
    /\ obtained' = [s \in PoolSlots |-> IF s[1] # p THEN obtained[s]
                                    ELSE IF s \in Synced THEN 1 ELSE 0]
    /\ missed' = {s \in missed : s[1] # p}
    /\ UNCHANGED <<nodeVars, phase, toGrant, applied, lock, quote>>

StartUpdater ==
    /\ phase = "populate"
    /\ toInsert = {}
    /\ phase' = "run"
    /\ UNCHANGED <<nodeVars, toGrant, toInsert, accounts, storage, applied, lock, quote, obtained, missed>>

-----------------------------------------------------------------------------
(* update_state, for the next block. *)

\* The accounts update_state rewrites (l. 160).
tracking_pool(a) == a \in Pools

\* What the tracer reports for a transaction in diff mode: a slot the transaction
\* cleared stands in the "pre" half of the frame only, and tracing.rs keeps "post".
InPost(tx) == tx[2] # Zero

\* The transactions whose trace succeeds: the node answers each with a frame or an
\* error, and debug_trace_block passes over the errors without a word.
Traced(txs) == IF "trace" \in MayMiss THEN SUBSET DOMAIN txs ELSE {DOMAIN txs}

\* The account states of the transactions traced, written one after the other by
\* update_all_slots.  A mutant that keeps the first value it meets.
MutantFirstWins(txs, traced) ==
    LET writes(s) == {i \in WritesTo(txs, s) \cap traced : InPost(txs[i]) /\ tracking_pool(s[1])}
    IN  [s \in Slots |-> IF writes(s) = {} THEN storage[s] ELSE txs[Min(writes(s))][2]]
UpdateSlots(txs, traced) ==
    Overwrite(storage, txs,
              [s \in Slots |-> {i \in WritesTo(txs, s) \cap traced :
                  InPost(txs[i]) /\ tracking_pool(s[1]) /\ s[1] \in accounts}])

\* A slot the block leaves alone is missed if it was before, one it writes if the last
\* write is not among those reported.
MissedAfter(txs, traced) ==
    {s \in PoolSlots :
        IF WritesTo(txs, s) = {} THEN s \in missed
        ELSE LET last == Max(WritesTo(txs, s))
             IN  last \notin traced \/ ~InPost(txs[last])}

\* The write lock is held from the first update to the last.
MutantNoLock == TRUE
LockFree == lock = "free"

UpdateState ==
    /\ phase = "run"
    /\ applied < HeadBlock
    /\ LockFree
    /\ LET txs == blocks[applied + 1]
       IN  \E traced \in Traced(txs) :
              /\ storage' = UpdateSlots(txs, traced)
              /\ missed' = MissedAfter(txs, traced)
    /\ applied' = applied + 1
    /\ UNCHANGED <<nodeVars, phase, toGrant, toInsert, accounts, lock, quote, obtained>>

\* The next block announced is a later one: the updater goes on from there, and what
\* lies between is written by nobody.
LeaveGap ==
    /\ "gap" \in MayMiss
    /\ phase = "run"
    /\ applied < HeadBlock
    /\ missed' = MissedAfter(blocks[applied + 1], {})
    /\ applied' = applied + 1
    /\ UNCHANGED <<nodeVars, phase, toGrant, toInsert, accounts, storage, lock, quote, obtained>>

-----------------------------------------------------------------------------
(* quote_path: an EVM run under the write lock, not committed. *)

BeginQuote ==
    /\ phase = "run"
    /\ lock = "free"
    /\ lock' = "quote"
    /\ quote' = <<>>
    /\ UNCHANGED <<nodeVars, phase, toGrant, toInsert, accounts, storage, applied, obtained, missed>>

QuoteRead(s) ==
    /\ lock = "quote"
    /\ s \notin DOMAIN quote
    /\ Load(s)
    /\ quote' = [r \in DOMAIN quote \cup {s} |-> IF r = s THEN storage'[s] ELSE quote[r]]
    /\ UNCHANGED <<nodeVars, phase, toGrant, toInsert, applied, lock>>

EndQuote ==
    /\ lock = "quote"
    /\ lock' = "free"
    /\ quote' = <<>>
    /\ UNCHANGED <<nodeVars, phase, toGrant, toInsert, accounts, storage, applied, obtained, missed>>

-----------------------------------------------------------------------------
StartUp ==
    \/ \E s \in Slots : WarmUpFetch(s)
    \/ \E a \in Pools \cup Tokens : WarmUpBasic(a)
    \/ \E t \in Tokens : GrantBalance(t) \/ CommitApproval(t)
    \/ WarmUpDone
    \/ \E p \in Pools : AddPool(p)
    \/ StartUpdater
Quoting == BeginQuote \/ (\E s \in Slots : QuoteRead(s)) \/ EndQuote

Node    == MineBlock \/ \E b \in 2..MaxBlock : Reorg(b)
Updater == UpdateState \/ LeaveGap

Next == Node \/ StartUp \/ Updater \/ Quoting

Spec == Init /\ [][Next]_vars

-----------------------------------------------------------------------------
(* Properties. *)

\* The last block applied, or the head while a reorg is filling up again below it.
LastApplied == IF applied <= HeadBlock THEN applied ELSE HeadBlock

\* value is the chain's for slot s after the last block applied, or at a later block up
\* to the one at which s was fetched ahead.
Current(s, value) ==
    \E b \in LastApplied..HeadBlock :
        /\ b <= LastApplied \/ b <= obtained[s]
        /\ value = chain[b][s]

\* Every pool slot the database holds is current, however updates, fetches and reorgs
\* race, but for those a change of which was lost: a slot fetched at a block that is
\* not applied yet waits there for the updates to catch up, and a lost change does no
\* harm to other slots, and none once the slot is written again.
PoolSlotsCurrent ==
    phase = "run" =>
        \A s \in PoolSlots \ missed : Present(s) => Current(s, storage[s])

\* What a running quote has read is what the database holds, to its last read: nobody
\* writes meanwhile.  The slots the bot syncs are all of one block, the last applied; a
\* slot that was fetched, by this quote or an earlier one, may be ahead of them, up to
\* the block it was fetched at.
QuoteSeesOneBlock ==
    \A s \in DOMAIN quote :
        /\ quote[s] = storage[s]
        /\ s \in Synced \ missed => quote[s] = chain[LastApplied][s]
        /\ s \in PoolSlots \ missed => Current(s, quote[s])

\* The balance the simulated account was given and its approval of the quoter outlive
\* the rest of the start-up, accounts fetched later and updates, so that a quote never
\* fails for lack of them: nothing writes them a second time (market_state.rs:185).
GrantsKept ==
    phase \in {"populate", "run"} =>
        /\ \A s \in Balances : storage[s] = Granted
        /\ \A s \in Approvals : storage[s] = Approved

\* Every change of a synced slot reaches the database (market_state.rs:154).
AllChangesApplied ==
    phase = "run" => \A s \in Synced : storage[s] = chain[LastApplied][s]

=============================================================================
