---------------------------- MODULE DatabaseProofs ----------------------------
(***************************************************************************)
(* Proofs about the database of block states.                              *)
(*                                                                         *)
(* StateDB, for every set of pools, tokens, slots and values, and blocks   *)
(* of any length: types, what a slot holds, what a quote sees and that the *)
(* grants stay.  A slot of a pool is written by the block or left alone by *)
(* it, and the database does the same unless the change gets lost; what a  *)
(* quote fetched ahead of the updates waits for them to catch up.  A reorg *)
(* leaves what it did not change.  A fetch never takes anything away, as   *)
(* an account that the database lacks has no slots in it.                  *)
(*                                                                         *)
(* PoolLayout, for fields of any width and every pair, pool, tick and      *)
(* spacing: each reader finds the contract's value in the word, whether    *)
(* the insertion or a block wrote it.  A word is a number in mixed radix,  *)
(* so that a field is a remainder of a quotient.  A block leaves a word    *)
(* alone if the chain's did not change, and then the fields that the       *)
(* readers use did not change either.                                      *)
(***************************************************************************)
EXTENDS StateDB, PoolLayout, Sums, SequenceTheorems

-----------------------------------------------------------------------------
(* StateDB: the invariant. *)

ChainInv == \A b \in 1..HeadBlock - 1 : chain[b + 1] = Execute(chain[b], blocks[b + 1])

PhaseInv ==
    /\ phase # "run" => applied = 1 /\ lock = "free"
    /\ phase = "warmup" => toInsert = Pools
    /\ phase # "warmup" => toGrant = {}
    /\ lock = "free" => quote = <<>>

\* A pool that was inserted has its synced slots as of block 1, and no others.
InsertedInv ==
    phase = "populate" =>
        \A s \in PoolSlots : s[1] \notin toInsert =>
            storage[s] = IF s \in Synced THEN chain[1][s] ELSE Absent

\* A slot that was synced is not fetched again.
ObtainedInv ==
    \A s \in Synced : phase = "run" \/ (phase = "populate" /\ s[1] \notin toInsert) =>
        obtained[s] = 1

GrantInv ==
    \A s \in Grants \ toGrant : storage[s] = IF s \in Balances THEN Granted ELSE Approved

QuoteInv == \A s \in DOMAIN quote : Present(s) /\ quote[s] = storage[s]

IInv ==
    /\ TypeOK /\ ChainInv /\ PhaseInv /\ InsertedInv /\ ObtainedInv /\ GrantInv
    /\ PoolSlotsCurrent /\ QuoteInv

-----------------------------------------------------------------------------
(* StateDB: writes. *)

LEMMA LastWrite ==
    ASSUME NEW txs \in Seq(Txs), NEW W \in SUBSET DOMAIN txs, W # {}
    PROVE  /\ Max(W) \in W
           /\ \A j \in W : j <= Max(W)
<1>1. Len(txs) \in Nat /\ W \in SUBSET (0..Len(txs))
  OBVIOUS
<1> QED BY <1>1, MaxOf

LEMMA SlotFacts ==
    /\ \A s \in PoolSlots : s \in Slots /\ s[1] \in Pools /\ s[1] \notin Tokens
    /\ \A s \in Slots : s \in PoolSlots \/ (s[1] \in Tokens /\ s[1] \notin Pools)
    /\ \A s \in Grants : s \in Slots /\ s[1] \in Tokens /\ s[1] \notin Pools
    /\ Synced \subseteq PoolSlots
    /\ Balances \cap Approvals = {}
    /\ \A tx \in Txs : tx[1] \in Slots /\ tx[2] \in Values
    /\ Absent \notin Values /\ Absent # Granted /\ Absent # Approved
BY StateDBAssumption DEF PoolSlots, Slots, Synced, Balances, Approvals, Grants, Txs

LEMMA OverwriteType ==
    ASSUME NEW V, NEW st \in [Slots -> V], NEW txs \in Seq(Txs), NEW writes,
           \A s \in Slots : writes[s] \subseteq DOMAIN txs
    PROVE  Overwrite(st, txs, writes) \in [Slots -> V \cup Values]
<1> SUFFICES ASSUME NEW s \in Slots, writes[s] # {}
             PROVE  txs[Max(writes[s])][2] \in Values
  BY DEF Overwrite
<1>1. Max(writes[s]) \in DOMAIN txs
  BY LastWrite
<1> QED BY <1>1, SlotFacts

LEMMA WritesWithin ==
    ASSUME NEW txs \in Seq(Txs), NEW s
    PROVE  WritesTo(txs, s) \in SUBSET DOMAIN txs
BY DEF WritesTo

LEMMA ExecuteType ==
    ASSUME NEW st \in States, NEW txs \in Seq(Txs)
    PROVE  Execute(st, txs) \in States
<1> DEFINE writes == [s \in Slots |-> WritesTo(txs, s)]
<1>1. \A s \in Slots : writes[s] \subseteq DOMAIN txs
  BY WritesWithin
<1>2. Execute(st, txs) = Overwrite(st, txs, writes)
  BY DEF Execute
<1> HIDE DEF writes
<1>3. Overwrite(st, txs, writes) \in [Slots -> Values \cup Values]
  BY <1>1, OverwriteType DEF States
<1> QED BY <1>2, <1>3 DEF States

LEMMA ExecuteIn ==
    ASSUME NEW st, NEW txs, NEW s \in Slots
    PROVE  Execute(st, txs)[s] = IF WritesTo(txs, s) = {} THEN st[s]
                                 ELSE txs[Max(WritesTo(txs, s))][2]
BY DEF Execute, Overwrite

\* What an update writes to the slot of an account that is held follows the chain, unless the
\* slot is missed: the chain's value, or nothing where the block wrote nothing.
LEMMA UpdateFollows ==
    ASSUME NEW st, NEW txs \in Seq(Txs), NEW traced \in SUBSET DOMAIN txs,
           NEW s \in PoolSlots \ MissedAfter(txs, traced), s[1] \in accounts
    PROVE  \/ UpdateSlots(txs, traced)[s] = Execute(st, txs)[s]
           \/ /\ UpdateSlots(txs, traced)[s] = storage[s]
              /\ Execute(st, txs)[s] = st[s] /\ s \notin missed
<1> DEFINE all  == WritesTo(txs, s)
           post == {i \in all \cap traced : InPost(txs[i]) /\ tracking_pool(s[1])
                                               /\ s[1] \in accounts}
<1>1. /\ Execute(st, txs)[s] = IF all = {} THEN st[s] ELSE txs[Max(all)][2]
      /\ UpdateSlots(txs, traced)[s] = IF post = {} THEN storage[s] ELSE txs[Max(post)][2]
  BY SlotFacts, ExecuteIn DEF UpdateSlots, Overwrite
<1>2. CASE all = {}
  <2>1. post = {} /\ s \notin missed
    BY <1>2 DEF MissedAfter
  <2> QED BY <1>1, <1>2, <2>1
<1>3. CASE all # {}
  <2>1. all \in SUBSET DOMAIN txs
    BY WritesWithin
  <2>2. Max(all) \in traced /\ InPost(txs[Max(all)])
    BY <1>3 DEF MissedAfter
  <2> HIDE DEF all
  <2>3. Max(all) \in all /\ \A j \in all : j <= Max(all)
    BY <1>3, <2>1, LastWrite
  <2>4. Max(all) \in post /\ post \subseteq all
    BY <2>2, <2>3, SlotFacts DEF tracking_pool
  <2>5. post \in SUBSET DOMAIN txs /\ post # {}
    BY <2>1, <2>4
  <2> HIDE DEF post
  <2>6. Max(post) \in post /\ \A j \in post : j <= Max(post)
    BY <2>5, LastWrite
  <2>7. Max(post) = Max(all)
    <3>1. Max(all) <= Max(post) /\ Max(post) <= Max(all)
      BY <2>3, <2>4, <2>6
    <3>2. Max(all) \in Int /\ Max(post) \in Int
      BY <2>1, <2>3, <2>5, <2>6
    <3> QED BY <3>1, <3>2
  <2> QED BY <1>1, <1>3, <2>5, <2>7
<1> QED BY <1>2, <1>3

\* Over a gap only the slots keep up that the block left alone.
LEMMA GapFollows ==
    ASSUME NEW st, NEW txs, NEW s \in PoolSlots \ MissedAfter(txs, {})
    PROVE  Execute(st, txs)[s] = st[s] /\ s \notin missed
BY SlotFacts, ExecuteIn DEF MissedAfter

\* Of an account that is not a pool, an update writes nothing.
LEMMA UpdateKeeps ==
    ASSUME NEW txs, NEW traced, NEW s \in Slots, s[1] \notin Pools
    PROVE  UpdateSlots(txs, traced)[s] = storage[s]
BY DEF UpdateSlots, Overwrite, tracking_pool

\* An update writes only to accounts that are held, and no slot goes.
LEMMA UpdateHeld ==
    ASSUME TypeOK, NEW txs \in Seq(Txs), NEW traced
    PROVE  /\ UpdateSlots(txs, traced) \in [Slots -> Values \cup {Granted, Approved, Absent}]
           /\ \A s \in Slots : UpdateSlots(txs, traced)[s] # Absent => s[1] \in accounts
           /\ \A s \in Slots : Present(s) => UpdateSlots(txs, traced)[s] # Absent
<1> DEFINE after  == UpdateSlots(txs, traced)
           writes == [s \in Slots |-> {i \in WritesTo(txs, s) \cap traced : InPost(txs[i])
                                           /\ tracking_pool(s[1]) /\ s[1] \in accounts}]
<1>1. after = Overwrite(storage, txs, writes)
  BY DEF UpdateSlots
<1>2. \A s \in Slots : writes[s] \in SUBSET DOMAIN txs
  BY WritesWithin
<1>3. after \in [Slots -> Values \cup {Granted, Approved, Absent}]
  <2>1. Overwrite(storage, txs, writes)
            \in [Slots -> (Values \cup {Granted, Approved, Absent}) \cup Values]
    <3>1. storage \in [Slots -> Values \cup {Granted, Approved, Absent}]
      BY DEF TypeOK
    <3> HIDE DEF writes
    <3> QED BY <1>2, <3>1, OverwriteType
  <2> QED BY <1>1, <2>1
<1>4. ASSUME NEW s \in Slots
      PROVE  \/ after[s] = storage[s]
             \/ s[1] \in accounts /\ after[s] # Absent
  <2>1. CASE writes[s] = {}
    BY <1>1, <2>1 DEF Overwrite
  <2>2. CASE writes[s] # {}
    <3>1. s[1] \in accounts
      BY <2>2
    <3>2. after[s] = txs[Max(writes[s])][2]
      BY <1>1, <2>2 DEF Overwrite
    <3> HIDE DEF writes
    <3>3. Max(writes[s]) \in DOMAIN txs
      BY <1>2, <2>2, LastWrite
    <3> QED BY <3>1, <3>2, <3>3, SlotFacts
  <2> QED BY <2>1, <2>2
<1> HIDE DEF after
<1>5. after \in [Slots -> Values \cup {Granted, Approved, Absent}]
      /\ (\A s \in Slots : after[s] # Absent => s[1] \in accounts)
      /\ \A s \in Slots : Present(s) => after[s] # Absent
  BY <1>3, <1>4 DEF TypeOK, Present
<1> QED BY <1>5 DEF after

-----------------------------------------------------------------------------
(* Loads and stores. *)

LEMMA WithAccountKeeps ==
    ASSUME TypeOK, NEW a
    PROVE  WithAccount(a) = storage
BY DEF TypeOK, WithAccount, FreshAccount, Present

LEMMA LoadFacts ==
    ASSUME TypeOK, NEW s \in Slots, Load(s)
    PROVE  /\ accounts' = accounts \cup {s[1]}
           /\ Present(s) => UNCHANGED <<storage, obtained, missed>>
           /\ ~Present(s) =>
                /\ storage' = [storage EXCEPT ![s] = chain[HeadBlock][s]]
                /\ obtained' = [r \in PoolSlots |-> IF r = s THEN HeadBlock ELSE obtained[r]]
                /\ missed' = missed \ {s}
BY WithAccountKeeps DEF Load, Present

LEMMA StoreFacts ==
    ASSUME TypeOK, NEW s, NEW value, Store(s, value)
    PROVE  accounts' = accounts \cup {s[1]} /\ storage' = [storage EXCEPT ![s] = value]
BY WithAccountKeeps DEF Store

-----------------------------------------------------------------------------
(* Types. *)

LEMMA TypeInit == Init => TypeOK
BY StateDBAssumption, InitialStatesAssumption DEF Init, TypeOK, HeadBlock, Present, States

LEMMA Heads ==
    ASSUME TypeOK
    PROVE  /\ HeadBlock \in Nat \ {0} /\ applied \in Nat \ {0}
           /\ LastApplied \in 1..HeadBlock /\ LastApplied <= applied
           /\ \A b \in 1..HeadBlock : chain[b] \in States
           /\ \A s \in PoolSlots : obtained[s] \in 0..HeadBlock
BY StateDBAssumption DEF TypeOK, HeadBlock, LastApplied

-----------------------------------------------------------------------------
(* The steps, one lemma for each action. *)

LEMMA MineBlockStep ==
    ASSUME IInv, MineBlock
    PROVE  IInv'
<1> USE DEF IInv
<1>1. PICK txs \in Batches :
          /\ blocks' = Append(blocks, txs)
          /\ chain' = Append(chain, Execute(chain[HeadBlock], txs))
          /\ missed' = missed \cup {s \in PoolSlots : HeadBlock < applied
                           /\ Execute(chain[HeadBlock], txs)[s] # chain[HeadBlock][s]}
  BY DEF MineBlock
<1>2. txs \in Seq(Txs)
  BY InitialStatesAssumption
<1>3. HeadBlock \in Nat \ {0} /\ chain[HeadBlock] \in States /\ 1 \in 1..HeadBlock
  BY Heads
<1>4. Execute(chain[HeadBlock], txs) \in States
  BY <1>2, <1>3, ExecuteType
<1>5. /\ chain' \in Seq(States) /\ HeadBlock' = HeadBlock + 1
      /\ \A b \in 1..HeadBlock : chain'[b] = chain[b]
      /\ chain'[HeadBlock + 1] = Execute(chain[HeadBlock], txs)
  BY <1>1, <1>3, <1>4 DEF TypeOK, HeadBlock
<1>6. /\ blocks' \in Seq(Seq(Txs)) /\ Len(blocks') = HeadBlock'
      /\ \A b \in 1..HeadBlock : blocks'[b] = blocks[b]
      /\ blocks'[HeadBlock + 1] = txs
  BY <1>1, <1>2, <1>5 DEF TypeOK, HeadBlock
<1>7. UNCHANGED <<phase, toGrant, toInsert, accounts, storage, applied, lock, quote, obtained>>
  BY DEF MineBlock
<1>8. TypeOK'
  <2>1. HeadBlock' \in 1..MaxBlock
    BY <1>3, <1>5, StateDBAssumption DEF MineBlock
  <2>2. obtained' \in [PoolSlots -> 0..HeadBlock'] /\ missed' \subseteq PoolSlots
    BY <1>1, <1>3, <1>5, <1>7 DEF TypeOK
  <2> QED BY <1>5, <1>6, <1>7, <2>1, <2>2 DEF TypeOK, Present
<1>9. ChainInv'
  <2> SUFFICES ASSUME NEW b \in 1..HeadBlock
               PROVE  chain'[b + 1] = Execute(chain[b], blocks'[b + 1])
    <3>1. \A b \in 1..HeadBlock' - 1 : b \in 1..HeadBlock /\ chain'[b] = chain[b]
      BY <1>3, <1>5
    <3> QED BY <3>1 DEF ChainInv
  <2>1. CASE b = HeadBlock
    BY <1>5, <1>6, <2>1
  <2>2. CASE b # HeadBlock
    <3>1. b \in 1..HeadBlock - 1 /\ b + 1 \in 1..HeadBlock
      BY <1>3, <2>2
    <3>2. chain[b + 1] = Execute(chain[b], blocks[b + 1])
      BY <3>1 DEF ChainInv
    <3> QED BY <1>5, <1>6, <3>1, <3>2
  <2> QED BY <2>1, <2>2
<1>10. PhaseInv' /\ ObtainedInv' /\ GrantInv' /\ QuoteInv'
  BY <1>7 DEF PhaseInv, ObtainedInv, GrantInv, QuoteInv, Present
<1>11. InsertedInv'
  BY <1>3, <1>5, <1>7 DEF InsertedInv
<1>12. PoolSlotsCurrent'
  <2> SUFFICES ASSUME phase = "run", NEW s \in PoolSlots \ missed', Present(s)
               PROVE  \E b \in LastApplied'..HeadBlock + 1 :
                          /\ b <= LastApplied' \/ b <= obtained[s]
                          /\ storage[s] = chain'[b][s]
    BY <1>5, <1>7 DEF PoolSlotsCurrent, Present, Current
  <2>1. PICK b \in LastApplied..HeadBlock : /\ b <= LastApplied \/ b <= obtained[s]
                                            /\ storage[s] = chain[b][s]
    BY <1>1 DEF PoolSlotsCurrent, Current
  <2>2. b \in 1..HeadBlock
    BY <2>1, Heads
  <2>3. CASE applied <= HeadBlock
    <3>1. LastApplied' = LastApplied
      BY <1>3, <1>5, <1>7, <2>3, Heads DEF LastApplied
    <3> QED BY <1>3, <1>5, <2>1, <2>2, <3>1, Heads
  <2>4. CASE ~(applied <= HeadBlock)
    <3>1. LastApplied = HeadBlock /\ LastApplied' = HeadBlock + 1 /\ HeadBlock < applied
      BY <1>3, <1>5, <1>7, <2>4, Heads DEF LastApplied
    <3>2. chain'[HeadBlock + 1][s] = chain[HeadBlock][s]
      BY <1>1, <1>5, <3>1
    <3>3. b = HeadBlock
      BY <1>3, <2>1, <3>1
    <3> QED BY <1>3, <2>1, <3>1, <3>2, <3>3
  <2> QED BY <2>3, <2>4
<1> QED BY <1>8, <1>9, <1>10, <1>11, <1>12

\* The slots that an orphaned block had changed are missed, so what is left of the chain has
\* the value of every other slot.
LEMMA ReorgStep ==
    ASSUME IInv, NEW b \in 2..MaxBlock, Reorg(b)
    PROVE  IInv'
<1> USE DEF IInv
<1>1. /\ b \in 2..HeadBlock
      /\ chain' = SubSeq(chain, 1, b - 1) /\ blocks' = SubSeq(blocks, 1, b - 1)
      /\ missed' = missed \cup
             {s \in PoolSlots : \E n \in b..HeadBlock :
                 (n <= applied \/ n <= obtained[s]) /\ chain[n][s] # chain[b - 1][s]}
      /\ obtained' = [s \in PoolSlots |-> IF obtained[s] >= b THEN b - 1 ELSE obtained[s]]
      /\ UNCHANGED <<phase, toGrant, toInsert, accounts, storage, applied, lock, quote>>
  BY DEF Reorg
<1>2. HeadBlock \in Nat \ {0} /\ b - 1 \in 1..HeadBlock - 1
  BY <1>1, Heads
<1>3. /\ chain' \in Seq(States) /\ HeadBlock' = b - 1
      /\ \A n \in 1..b - 1 : chain'[n] = chain[n]
  BY <1>1, <1>2, SubSeqProperties DEF TypeOK, HeadBlock
<1>4. /\ blocks' \in Seq(Seq(Txs)) /\ Len(blocks') = HeadBlock'
      /\ \A n \in 1..b - 1 : blocks'[n] = blocks[n]
  BY <1>1, <1>2, <1>3, SubSeqProperties DEF TypeOK, HeadBlock
<1>5. TypeOK'
  <2>1. HeadBlock' \in 1..MaxBlock
    BY <1>2, <1>3, StateDBAssumption DEF TypeOK
  <2>2. obtained' \in [PoolSlots -> 0..HeadBlock']
    BY <1>1, <1>2, <1>3, Heads
  <2> QED BY <1>1, <1>3, <1>4, <2>1, <2>2 DEF TypeOK, Present
<1>6. ChainInv'
  <2> SUFFICES ASSUME NEW n \in 1..b - 2
               PROVE  chain'[n + 1] = Execute(chain'[n], blocks'[n + 1])
    BY <1>2, <1>3 DEF ChainInv
  <2>1. n \in 1..HeadBlock - 1 /\ n \in 1..b - 1 /\ n + 1 \in 1..b - 1
    BY <1>2
  <2> QED BY <1>3, <1>4, <2>1 DEF ChainInv
<1>7. PhaseInv' /\ GrantInv' /\ QuoteInv'
  BY <1>1 DEF PhaseInv, GrantInv, QuoteInv, Present
<1>8. InsertedInv'
  BY <1>1, <1>2, <1>3 DEF InsertedInv
<1>9. ObtainedInv'
  BY <1>1, SlotFacts DEF ObtainedInv
<1>10. PoolSlotsCurrent'
  <2> SUFFICES ASSUME phase = "run", NEW s \in PoolSlots \ missed', Present(s)
               PROVE  \E m \in LastApplied'..b - 1 :
                          /\ m <= LastApplied' \/ m <= obtained'[s]
                          /\ storage[s] = chain[m][s]
    <3>1. LastApplied' \in 1..b - 1
      BY <1>1, <1>2, <1>3, Heads DEF LastApplied
    <3> QED BY <1>1, <1>2, <1>3, <3>1 DEF PoolSlotsCurrent, Present, Current
  <2>1. PICK c \in LastApplied..HeadBlock : /\ c <= LastApplied \/ c <= obtained[s]
                                            /\ storage[s] = chain[c][s]
    BY <1>1 DEF PoolSlotsCurrent, Current
  <2>2. /\ LastApplied \in Nat \ {0} /\ applied \in Nat \ {0} /\ obtained[s] \in Nat
        /\ b \in Nat /\ c \in Nat
    BY <1>1, <2>1, Heads
  <2>3. obtained'[s] = IF obtained[s] >= b THEN b - 1 ELSE obtained[s]
    BY <1>1
  <2>4. LastApplied' = IF applied <= b - 1 THEN applied ELSE b - 1
    BY <1>1, <1>3 DEF LastApplied
  <2>5. CASE c <= b - 1
    <3>1. LastApplied = applied /\ LastApplied' = LastApplied
      BY <1>1, <1>2, <2>1, <2>2, <2>4, <2>5 DEF LastApplied
    <3> QED BY <1>2, <2>1, <2>2, <2>3, <2>5, <3>1
  <2>6. CASE ~(c <= b - 1)
    <3>1. c \in b..HeadBlock /\ (c <= applied \/ c <= obtained[s])
      BY <2>1, <2>2, <2>6, Heads
    <3>2. chain[c][s] = chain[b - 1][s]
      BY <1>1, <3>1
    <3>3. LastApplied' <= b - 1 /\ (b - 1 <= LastApplied' \/ b - 1 <= obtained'[s])
      BY <2>2, <2>3, <2>4, <3>1
    <3>4. LastApplied' \in Nat
      BY <1>2, <2>2, <2>4
    <3> QED BY <1>2, <2>1, <2>2, <3>2, <3>3, <3>4
  <2> QED BY <2>5, <2>6
<1> QED BY <1>5, <1>6, <1>7, <1>8, <1>9, <1>10

\* What a load leaves true in any phase: types but for the last conjunct, and slots that
\* are there.
LEMMA LoadTypes ==
    ASSUME TypeOK, NEW s \in Slots, Load(s), UNCHANGED <<nodeVars, toGrant, toInsert, applied>>
    PROVE  /\ accounts' \subseteq Pools \cup Tokens
           /\ storage' \in [Slots -> Values \cup {Granted, Approved, Absent}]
           /\ \A r \in Slots : storage'[r] # Absent => r[1] \in accounts'
           /\ obtained' \in [PoolSlots -> 0..HeadBlock'] /\ missed' \subseteq PoolSlots
           /\ \A r \in Slots : Present(r) => storage'[r] = storage[r]
           /\ \A r \in PoolSlots : Present(r) => obtained'[r] = obtained[r]
           /\ storage'[s] # Absent
           /\ HeadBlock' = HeadBlock
<1>1. HeadBlock \in Nat /\ chain[HeadBlock] \in States /\ HeadBlock' = HeadBlock
  BY StateDBAssumption DEF TypeOK, HeadBlock, nodeVars
<1>2. chain[HeadBlock][s] \in Values /\ s[1] \in Pools \cup Tokens
  BY <1>1, SlotFacts DEF States
<1>3. CASE Present(s)
  BY <1>1, <1>2, <1>3, LoadFacts DEF TypeOK, Present
<1>4. CASE ~Present(s)
  <2>1. /\ accounts' = accounts \cup {s[1]}
        /\ storage' = [storage EXCEPT ![s] = chain[HeadBlock][s]]
        /\ obtained' = [r \in PoolSlots |-> IF r = s THEN HeadBlock ELSE obtained[r]]
        /\ missed' = missed \ {s}
    BY <1>4, LoadFacts
  <2>2. /\ storage' \in [Slots -> Values \cup {Granted, Approved, Absent}]
        /\ storage'[s] = chain[HeadBlock][s]
        /\ \A r \in Slots : r # s => storage'[r] = storage[r]
    BY <1>2, <2>1 DEF TypeOK
  <2>3. obtained' \in [PoolSlots -> 0..HeadBlock'] /\ missed' \subseteq PoolSlots
    BY <1>1, <2>1 DEF TypeOK
  <2>4. storage'[s] # Absent
    BY <1>2, <2>2, SlotFacts
  <2>5. \A r \in PoolSlots : Present(r) => obtained'[r] = obtained[r]
    BY <1>4, <2>1
  <2> QED BY <1>1, <1>2, <1>4, <2>1, <2>2, <2>3, <2>4, <2>5 DEF TypeOK, Present
<1> QED BY <1>3, <1>4

\* What a store of a value other than Absent into a token leaves true.
LEMMA StoreTypes ==
    ASSUME TypeOK, NEW s \in Grants, NEW value \in {Granted, Approved}, Store(s, value),
           UNCHANGED <<nodeVars, applied, obtained, missed>>
    PROVE  /\ accounts' \subseteq Pools \cup Tokens
           /\ storage' \in [Slots -> Values \cup {Granted, Approved, Absent}]
           /\ \A r \in Slots : storage'[r] # Absent => r[1] \in accounts'
           /\ storage'[s] = value
           /\ \A r \in Slots : r # s => storage'[r] = storage[r]
<1>1. accounts' = accounts \cup {s[1]} /\ storage' = [storage EXCEPT ![s] = value]
  BY StoreFacts
<1>2. s \in Slots /\ s[1] \in Tokens
  BY SlotFacts
<1>3. /\ storage' \in [Slots -> Values \cup {Granted, Approved, Absent}]
      /\ storage'[s] = value
      /\ \A r \in Slots : r # s => storage'[r] = storage[r]
  BY <1>1, <1>2 DEF TypeOK
<1>4. \A r \in Slots : storage'[r] # Absent => r[1] \in accounts'
  BY <1>1, <1>3 DEF TypeOK, Present
<1> QED BY <1>1, <1>2, <1>3, <1>4 DEF TypeOK

LEMMA ChainKept ==
    ASSUME ChainInv, UNCHANGED nodeVars
    PROVE  ChainInv'
BY DEF ChainInv, nodeVars, HeadBlock

\* Before the updater runs nothing is said of quotes and of what slots hold.
LEMMA BeforeRun ==
    ASSUME IInv, UNCHANGED <<nodeVars, phase, applied, lock, quote>>, phase # "run"
    PROVE  (ChainInv /\ PoolSlotsCurrent /\ QuoteInv)'
BY ChainKept DEF IInv, PhaseInv, PoolSlotsCurrent, QuoteInv

LEMMA WarmUpBasicStep ==
    ASSUME IInv, NEW a \in Pools \cup Tokens, WarmUpBasic(a)
    PROVE  IInv'
<1> USE DEF IInv
<1>1. /\ accounts' = accounts \cup {a} /\ storage' = storage
      /\ UNCHANGED <<nodeVars, phase, toGrant, toInsert, applied, lock, quote, obtained, missed>>
      /\ phase = "warmup"
  BY WithAccountKeeps DEF WarmUpBasic
<1>2. TypeOK'
  BY <1>1 DEF TypeOK, nodeVars, HeadBlock, Present
<1>3. PhaseInv' /\ InsertedInv' /\ ObtainedInv' /\ GrantInv'
  BY <1>1 DEF PhaseInv, InsertedInv, ObtainedInv, GrantInv
<1> QED BY <1>1, <1>2, <1>3, BeforeRun

LEMMA WarmUpFetchStep ==
    ASSUME IInv, NEW s \in Slots, WarmUpFetch(s)
    PROVE  IInv'
<1> USE DEF IInv
<1>1. /\ Load(s) /\ ~Present(s) /\ phase = "warmup"
      /\ UNCHANGED <<nodeVars, phase, toGrant, toInsert, applied, lock, quote>>
  BY DEF WarmUpFetch
<1>2. TypeOK'
  BY <1>1, LoadTypes DEF TypeOK, nodeVars, HeadBlock, Present
<1>3. PhaseInv' /\ InsertedInv' /\ ObtainedInv'
  BY <1>1 DEF PhaseInv, InsertedInv, ObtainedInv
<1>4. GrantInv'
  <2> SUFFICES ASSUME NEW r \in Grants \ toGrant
               PROVE  storage'[r] = IF r \in Balances THEN Granted ELSE Approved
    BY <1>1 DEF GrantInv
  <2>1. Present(r) /\ r \in Slots
    BY SlotFacts DEF GrantInv, Present
  <2> QED BY <1>1, <2>1, LoadTypes DEF GrantInv
<1> QED BY <1>1, <1>2, <1>3, <1>4, BeforeRun

\* Of GrantBalance and CommitApproval: the slot s of a token is written and done.
LEMMA GrantStep ==
    ASSUME IInv, NEW s \in Grants, phase = "warmup", 
           Store(s, IF s \in Balances THEN Granted ELSE Approved), toGrant' = toGrant \ {s},
           UNCHANGED <<nodeVars, phase, toInsert, applied, lock, quote, obtained, missed>>
    PROVE  IInv'
<1> USE DEF IInv
<1> DEFINE value == IF s \in Balances THEN Granted ELSE Approved
<1>1. /\ accounts' \subseteq Pools \cup Tokens
      /\ storage' \in [Slots -> Values \cup {Granted, Approved, Absent}]
      /\ \A r \in Slots : storage'[r] # Absent => r[1] \in accounts'
      /\ storage'[s] = value
      /\ \A r \in Slots : r # s => storage'[r] = storage[r]
  BY StoreTypes
<1>2. TypeOK'
  BY <1>1 DEF TypeOK, nodeVars, HeadBlock, Present
<1>3. PhaseInv' /\ InsertedInv' /\ ObtainedInv'
  BY DEF PhaseInv, InsertedInv, ObtainedInv
<1>4. GrantInv'
  BY <1>1, SlotFacts DEF GrantInv
<1> QED BY <1>2, <1>3, <1>4, BeforeRun

LEMMA GrantBalanceStep ==
    ASSUME IInv, NEW t \in Tokens, GrantBalance(t)
    PROVE  IInv'
<1>1. <<t, BalanceSlot>> \in Grants /\ <<t, BalanceSlot>> \in Balances
  BY DEF Grants, Balances
<1> QED BY <1>1, GrantStep DEF GrantBalance

LEMMA CommitApprovalStep ==
    ASSUME IInv, NEW t \in Tokens, CommitApproval(t)
    PROVE  IInv'
<1>1. <<t, AllowanceSlot>> \in Grants /\ <<t, AllowanceSlot>> \notin Balances
  BY StateDBAssumption DEF Grants, Balances, Approvals
<1> QED BY <1>1, GrantStep DEF CommitApproval

LEMMA WarmUpDoneStep ==
    ASSUME IInv, WarmUpDone
    PROVE  IInv'
<1> USE DEF IInv
<1>1. /\ phase = "warmup" /\ toGrant = {} /\ phase' = "populate"
      /\ UNCHANGED <<nodeVars, toGrant, toInsert, accounts, storage, applied, lock, quote,
                     obtained, missed>>
  BY DEF WarmUpDone
<1>2. TypeOK'
  BY <1>1 DEF TypeOK, nodeVars, HeadBlock, Present
<1>3. PhaseInv' /\ GrantInv'
  BY <1>1 DEF PhaseInv, GrantInv
<1>4. InsertedInv' /\ ObtainedInv'
  BY <1>1, SlotFacts DEF InsertedInv, ObtainedInv, PhaseInv
<1>5. (ChainInv /\ PoolSlotsCurrent /\ QuoteInv)'
  BY <1>1, ChainKept DEF PhaseInv, PoolSlotsCurrent, QuoteInv
<1> QED BY <1>2, <1>3, <1>4, <1>5

LEMMA AddPoolStep ==
    ASSUME IInv, NEW p \in Pools, AddPool(p)
    PROVE  IInv'
<1> USE DEF IInv
<1>1. /\ phase = "populate" /\ toInsert' = toInsert \ {p} /\ accounts' = accounts \cup {p}
      /\ storage' = [s \in Slots |-> IF s[1] # p THEN storage[s]
                                     ELSE IF s \in Synced THEN chain[1][s] ELSE Absent]
      /\ obtained' = [s \in PoolSlots |-> IF s[1] # p THEN obtained[s]
                                          ELSE IF s \in Synced THEN 1 ELSE 0]
      /\ missed' = {s \in missed : s[1] # p}
      /\ UNCHANGED <<nodeVars, phase, toGrant, applied, lock, quote>>
  BY DEF AddPool, InsertSlots
<1>2. chain[1] \in States /\ HeadBlock \in Nat \ {0} /\ HeadBlock' = HeadBlock
  BY <1>1, StateDBAssumption DEF TypeOK, HeadBlock, nodeVars
<1>3. \A s \in Slots : chain[1][s] \in Values
  BY <1>2 DEF States
<1>4. storage' \in [Slots -> Values \cup {Granted, Approved, Absent}]
  BY <1>1, <1>3 DEF TypeOK
<1>5. obtained' \in [PoolSlots -> 0..HeadBlock']
  BY <1>1, <1>2 DEF TypeOK
<1>6. TypeOK'
  BY <1>1, <1>4, <1>5 DEF TypeOK, nodeVars, HeadBlock, Present
<1>7. InsertedInv'
  BY <1>1, SlotFacts DEF InsertedInv, nodeVars
<1>8. PhaseInv'
  BY <1>1 DEF PhaseInv
<1>9. GrantInv'
  BY <1>1, SlotFacts DEF GrantInv
<1>10. ObtainedInv'
  BY <1>1, SlotFacts DEF ObtainedInv
<1> QED BY <1>1, <1>6, <1>7, <1>8, <1>9, <1>10, BeforeRun

LEMMA StartUpdaterStep ==
    ASSUME IInv, StartUpdater
    PROVE  IInv'
<1> USE DEF IInv
<1>1. /\ phase = "populate" /\ toInsert = {} /\ phase' = "run"
      /\ UNCHANGED <<nodeVars, toGrant, toInsert, accounts, storage, applied, lock, quote,
                     obtained, missed>>
  BY DEF StartUpdater
<1>2. chain[1] \in States /\ applied = 1 /\ HeadBlock \in Nat \ {0} /\ quote = <<>>
  BY <1>1, StateDBAssumption DEF TypeOK, HeadBlock, PhaseInv
<1>3. \A s \in PoolSlots : storage[s] = IF s \in Synced THEN chain[1][s] ELSE Absent
  BY <1>1 DEF InsertedInv
<1>4. \A s \in Synced : Present(s)
  BY <1>2, <1>3, SlotFacts DEF States, Present
<1>5. TypeOK'
  BY <1>1, <1>4 DEF TypeOK, nodeVars, HeadBlock, Present
<1>6. PhaseInv' /\ GrantInv' /\ InsertedInv'
  BY <1>1 DEF PhaseInv, GrantInv, InsertedInv
<1>7. ChainInv'
  BY <1>1, ChainKept
<1>8. ObtainedInv'
  BY <1>1 DEF ObtainedInv
<1>9. PoolSlotsCurrent'
  <2>1. LastApplied' = 1 /\ HeadBlock' = HeadBlock
    BY <1>1, <1>2 DEF LastApplied, nodeVars, HeadBlock
  <2> QED BY <1>1, <1>2, <1>3, <2>1 DEF PoolSlotsCurrent, Current, Present, nodeVars
<1>10. QuoteInv'
  BY <1>1, <1>2 DEF QuoteInv
<1> QED BY <1>5, <1>6, <1>7, <1>8, <1>9, <1>10

\* Of both ways to get past a block: every slot that is not missed is as the block left it,
\* or it is untouched and was not missed before.
LEMMA BlockPassed ==
    ASSUME IInv, phase = "run", applied < HeadBlock, applied' = applied + 1,
           UNCHANGED <<nodeVars, phase, obtained>>,
           \A s \in PoolSlots \ missed' : storage'[s] # Absent =>
              \/ storage'[s] = chain[applied + 1][s]
              \/ /\ storage'[s] = storage[s] /\ chain[applied + 1][s] = chain[applied][s]
                 /\ s \notin missed
    PROVE  PoolSlotsCurrent'
<1> USE DEF IInv
<1>1. /\ HeadBlock \in Nat \ {0} /\ HeadBlock' = HeadBlock
      /\ applied \in 1..HeadBlock - 1 /\ LastApplied = applied /\ LastApplied' = applied + 1
  BY Heads DEF nodeVars, HeadBlock, LastApplied
<1> SUFFICES ASSUME NEW s \in PoolSlots \ missed', storage'[s] # Absent
             PROVE  \E b \in applied + 1..HeadBlock :
                        /\ b <= applied + 1 \/ b <= obtained[s]
                        /\ storage'[s] = chain[b][s]
  BY <1>1 DEF PoolSlotsCurrent, Current, Present, nodeVars
<1>2. CASE storage'[s] = chain[applied + 1][s]
  BY <1>1, <1>2
<1>3. CASE /\ storage'[s] = storage[s] /\ chain[applied + 1][s] = chain[applied][s]
           /\ s \notin missed
  <2>1. PICK b \in applied..HeadBlock : /\ b <= applied \/ b <= obtained[s]
                                        /\ storage[s] = chain[b][s]
    BY <1>1, <1>3 DEF PoolSlotsCurrent, Current, Present
  <2>2. CASE b = applied
    BY <1>1, <1>3, <2>1, <2>2
  <2>3. CASE b # applied
    BY <1>1, <1>3, <2>1, <2>3
  <2> QED BY <2>2, <2>3
<1> QED BY <1>2, <1>3

LEMMA UpdateStateStep ==
    ASSUME IInv, UpdateState
    PROVE  IInv'
<1> USE DEF IInv
<1> DEFINE txs == blocks[applied + 1]
<1>1. PICK traced \in SUBSET DOMAIN txs :
          /\ storage' = UpdateSlots(txs, traced)
          /\ missed' = MissedAfter(txs, traced)
  BY DEF UpdateState, Traced
<1>2. /\ phase = "run" /\ applied < HeadBlock /\ lock = "free" /\ applied' = applied + 1
      /\ UNCHANGED <<nodeVars, phase, toGrant, toInsert, accounts, lock, quote, obtained>>
  BY DEF UpdateState, LockFree
<1>3. /\ HeadBlock \in Nat \ {0} /\ HeadBlock' = HeadBlock
      /\ applied \in 1..HeadBlock - 1 /\ applied + 1 \in 1..HeadBlock
  BY <1>2, Heads DEF HeadBlock, nodeVars
<1>4. txs \in Seq(Txs)
  BY <1>3 DEF TypeOK
<1>5. chain[applied + 1] = Execute(chain[applied], txs)
  BY <1>3 DEF ChainInv
<1> HIDE DEF txs
<1>6. /\ storage' \in [Slots -> Values \cup {Granted, Approved, Absent}]
      /\ \A s \in Slots : storage'[s] # Absent => s[1] \in accounts
      /\ \A s \in Slots : Present(s) => storage'[s] # Absent
  BY <1>1, <1>4, UpdateHeld
<1>7. TypeOK'
  <2>1. \A s \in Synced : storage'[s] # Absent
    BY <1>2, <1>6, SlotFacts DEF TypeOK
  <2>2. missed' \subseteq PoolSlots
    BY <1>1 DEF MissedAfter
  <2>3. applied' \in 1..MaxBlock
    BY <1>2, <1>3, StateDBAssumption DEF TypeOK
  <2> QED BY <1>2, <1>3, <1>6, <2>1, <2>2, <2>3 DEF TypeOK, nodeVars, HeadBlock, Present
<1>8. ChainInv' /\ PhaseInv' /\ InsertedInv' /\ ObtainedInv'
  BY <1>2, ChainKept DEF PhaseInv, InsertedInv, ObtainedInv
<1>9. GrantInv'
  BY <1>1, <1>2, UpdateKeeps, SlotFacts DEF GrantInv
<1>10. PoolSlotsCurrent'
  <2>1. ASSUME NEW s \in PoolSlots \ missed', storage'[s] # Absent
        PROVE  \/ storage'[s] = chain[applied + 1][s]
               \/ /\ storage'[s] = storage[s] /\ chain[applied + 1][s] = chain[applied][s]
                  /\ s \notin missed
    <3>1. s[1] \in accounts
      BY <1>6, <2>1, SlotFacts
    <3> QED BY <1>1, <1>4, <1>5, <2>1, <3>1, UpdateFollows
  <2> QED BY <1>2, <2>1, BlockPassed
<1>11. QuoteInv'
  BY <1>2 DEF QuoteInv, PhaseInv
<1> QED BY <1>7, <1>8, <1>9, <1>10, <1>11

LEMMA LeaveGapStep ==
    ASSUME IInv, LeaveGap
    PROVE  IInv'
<1> USE DEF IInv
<1> DEFINE txs == blocks[applied + 1]
<1>1. /\ phase = "run" /\ applied < HeadBlock /\ applied' = applied + 1
      /\ missed' = MissedAfter(txs, {})
      /\ UNCHANGED <<nodeVars, phase, toGrant, toInsert, accounts, storage, lock, quote, obtained>>
  BY DEF LeaveGap
<1>2. HeadBlock \in Nat \ {0} /\ applied \in 1..HeadBlock - 1
  BY <1>1, Heads
<1>3. chain[applied + 1] = Execute(chain[applied], txs)
  BY <1>2 DEF ChainInv
<1> HIDE DEF txs
<1>4. TypeOK'
  <2>1. missed' \subseteq PoolSlots
    BY <1>1 DEF MissedAfter
  <2>2. applied' \in 1..MaxBlock
    BY <1>1, <1>2, StateDBAssumption DEF TypeOK
  <2> QED BY <1>1, <2>1, <2>2 DEF TypeOK, nodeVars, HeadBlock, Present
<1>5. ChainInv' /\ PhaseInv' /\ InsertedInv' /\ ObtainedInv' /\ GrantInv' /\ QuoteInv'
  BY <1>1, ChainKept DEF PhaseInv, InsertedInv, ObtainedInv, GrantInv, QuoteInv, Present
<1>6. PoolSlotsCurrent'
  BY <1>1, <1>3, GapFollows, BlockPassed
<1> QED BY <1>4, <1>5, <1>6

\* The first and the last step of a quote.
LEMMA QuoteEndsStep ==
    ASSUME IInv, BeginQuote \/ EndQuote
    PROVE  IInv'
<1> USE DEF IInv
<1>1. /\ phase = "run" /\ quote' = <<>> /\ lock' \in {"free", "quote"}
      /\ UNCHANGED <<nodeVars, phase, toGrant, toInsert, accounts, storage, applied, obtained,
                     missed>>
  BY DEF BeginQuote, EndQuote, PhaseInv
<1>2. TypeOK'
  BY <1>1 DEF TypeOK, nodeVars, HeadBlock, Present
<1>3. ChainInv' /\ PhaseInv' /\ InsertedInv' /\ ObtainedInv' /\ GrantInv'
  BY <1>1, ChainKept DEF PhaseInv, InsertedInv, ObtainedInv, GrantInv
<1>4. PoolSlotsCurrent' /\ QuoteInv'
  BY <1>1 DEF PoolSlotsCurrent, Current, LastApplied, QuoteInv, nodeVars, HeadBlock, Present
<1> QED BY <1>2, <1>3, <1>4

LEMMA QuoteReadStep ==
    ASSUME IInv, NEW s \in Slots, QuoteRead(s)
    PROVE  IInv'
<1> USE DEF IInv
<1>1. /\ lock = "quote" /\ phase = "run" /\ Load(s)
      /\ quote' = [r \in DOMAIN quote \cup {s} |-> IF r = s THEN storage'[s] ELSE quote[r]]
      /\ UNCHANGED <<nodeVars, phase, toGrant, toInsert, applied, lock>>
  BY DEF QuoteRead, PhaseInv
<1>2. HeadBlock' = HeadBlock /\ LastApplied' = LastApplied /\ LastApplied \in 1..HeadBlock
      /\ HeadBlock \in Nat
  BY <1>1, LoadTypes, Heads DEF LastApplied
<1>3. TypeOK'
  <2>1. \A r \in Synced : storage'[r] # Absent
    BY <1>1, LoadTypes, SlotFacts DEF TypeOK, Present
  <2>2. DOMAIN quote' \subseteq Slots
    BY <1>1 DEF TypeOK
  <2> QED BY <1>1, <2>1, <2>2, LoadTypes DEF TypeOK, nodeVars, HeadBlock, Present
<1>4. ChainInv' /\ PhaseInv' /\ InsertedInv'
  BY <1>1, ChainKept DEF PhaseInv, InsertedInv
<1>5. GrantInv'
  <2> SUFFICES ASSUME NEW r \in Grants \ toGrant
               PROVE  storage'[r] = IF r \in Balances THEN Granted ELSE Approved
    BY <1>1 DEF GrantInv
  <2>1. Present(r) /\ r \in Slots
    BY SlotFacts DEF GrantInv, Present
  <2> QED BY <1>1, <2>1, LoadTypes DEF GrantInv
<1>6. ObtainedInv'
  <2>1. \A r \in Synced : Present(r) /\ r \in PoolSlots
    BY <1>1, SlotFacts DEF TypeOK
  <2>2. \A r \in Synced : obtained'[r] = obtained[r]
    BY <1>1, <2>1, LoadTypes
  <2> QED BY <1>1, <2>2 DEF ObtainedInv
<1>7. PoolSlotsCurrent'
  <2> SUFFICES ASSUME NEW r \in PoolSlots \ missed', storage'[r] # Absent
               PROVE  \E b \in LastApplied..HeadBlock : /\ b <= LastApplied \/ b <= obtained'[r]
                                                        /\ storage'[r] = chain[b][r]
    BY <1>1, <1>2 DEF PoolSlotsCurrent, Current, Present, nodeVars
  <2>1. CASE r = s /\ ~Present(s)
    <3>1. storage'[r] = chain[HeadBlock][r] /\ obtained'[r] = HeadBlock
      BY <1>1, <2>1, LoadFacts DEF TypeOK
    <3> QED BY <1>2, <3>1
  <2>2. CASE r # s \/ Present(s)
    <3>1. storage'[r] = storage[r] /\ obtained'[r] = obtained[r] /\ r \notin missed
      BY <1>1, <2>2, LoadFacts, SlotFacts DEF TypeOK
    <3>2. PICK b \in LastApplied..HeadBlock : /\ b <= LastApplied \/ b <= obtained[r]
                                              /\ storage[r] = chain[b][r]
      BY <1>1, <3>1 DEF PoolSlotsCurrent, Current, Present
    <3> QED BY <3>1, <3>2
  <2> QED BY <2>1, <2>2
<1>8. QuoteInv'
  <2> SUFFICES ASSUME NEW r \in DOMAIN quote \cup {s}
               PROVE  storage'[r] # Absent /\ quote'[r] = storage'[r]
    BY <1>1 DEF QuoteInv, Present
  <2>1. CASE r = s
    BY <1>1, <2>1, LoadTypes
  <2>2. CASE r # s
    <3>1. r \in Slots /\ Present(r) /\ quote[r] = storage[r]
      BY <2>2 DEF QuoteInv, TypeOK
    <3> QED BY <1>1, <2>2, <3>1, LoadTypes DEF Present
  <2> QED BY <2>1, <2>2
<1> QED BY <1>3, <1>4, <1>5, <1>6, <1>7, <1>8

-----------------------------------------------------------------------------
(* StateDB: the theorems. *)

LEMMA InitInv == Init => IInv
<1> SUFFICES ASSUME Init
             PROVE  IInv
  OBVIOUS
<1>1. TypeOK
  BY TypeInit
<1>2. ChainInv
  BY DEF Init, ChainInv, HeadBlock
<1>3. PhaseInv /\ InsertedInv /\ ObtainedInv /\ GrantInv /\ PoolSlotsCurrent /\ QuoteInv
  BY DEF Init, PhaseInv, InsertedInv, ObtainedInv, GrantInv, PoolSlotsCurrent, QuoteInv
<1> QED BY <1>1, <1>2, <1>3 DEF IInv

LEMMA StepInv == IInv /\ [Next]_vars => IInv'
<1> SUFFICES ASSUME IInv, [Next]_vars
             PROVE  IInv'
  OBVIOUS
<1>1. CASE Node
  BY <1>1, MineBlockStep, ReorgStep DEF Node
<1>2. CASE StartUp
  BY <1>2, WarmUpFetchStep, WarmUpBasicStep, GrantBalanceStep, CommitApprovalStep,
     WarmUpDoneStep, AddPoolStep, StartUpdaterStep DEF StartUp
<1>3. CASE Updater
  BY <1>3, UpdateStateStep, LeaveGapStep DEF Updater
<1>4. CASE Quoting
  BY <1>4, QuoteEndsStep, QuoteReadStep DEF Quoting
<1>5. CASE UNCHANGED vars
  <2>1. UNCHANGED <<nodeVars, phase, toGrant, toInsert, accounts, storage, applied, lock,
                    quote, obtained, missed>>
    BY <1>5 DEF vars
  <2>2. TypeOK'
    BY <2>1 DEF IInv, TypeOK, nodeVars, HeadBlock, Present
  <2>3. (ChainInv /\ PhaseInv /\ InsertedInv /\ ObtainedInv /\ GrantInv)'
    BY <2>1, ChainKept DEF IInv, PhaseInv, InsertedInv, ObtainedInv, GrantInv, nodeVars
  <2>4. (PoolSlotsCurrent /\ QuoteInv)'
    BY <2>1 DEF IInv, PoolSlotsCurrent, Current, LastApplied, QuoteInv, nodeVars, HeadBlock,
                Present
  <2> QED BY <2>2, <2>3, <2>4 DEF IInv
<1> QED BY <1>1, <1>2, <1>3, <1>4, <1>5 DEF Next

\* What a quote has read is what the database still holds, and a slot that was synced
\* cannot be ahead of the last block applied.
LEMMA QuotesFollow == IInv => QuoteSeesOneBlock
<1> SUFFICES ASSUME IInv, NEW s \in DOMAIN quote
             PROVE  /\ quote[s] = storage[s]
                    /\ s \in Synced \ missed => quote[s] = chain[LastApplied][s]
                    /\ s \in PoolSlots \ missed => Current(s, quote[s])
  BY DEF QuoteSeesOneBlock
<1> USE DEF IInv
<1>1. Present(s) /\ quote[s] = storage[s]
  BY DEF QuoteInv
<1>2. phase = "run"
  BY DEF PhaseInv
<1>3. s \in PoolSlots \ missed => Current(s, quote[s])
  BY <1>1, <1>2 DEF PoolSlotsCurrent
<1>4. s \in Synced \ missed => quote[s] = chain[LastApplied][s]
  <2> SUFFICES ASSUME s \in Synced \ missed
               PROVE  quote[s] = chain[LastApplied][s]
    OBVIOUS
  <2>1. PICK b \in LastApplied..HeadBlock : /\ b <= LastApplied \/ b <= obtained[s]
                                            /\ quote[s] = chain[b][s]
    BY <1>3, SlotFacts DEF Current
  <2>2. obtained[s] = 1
    BY <1>2 DEF ObtainedInv
  <2>3. b = LastApplied
    BY <2>1, <2>2, Heads
  <2> QED BY <2>1, <2>3
<1> QED BY <1>1, <1>3, <1>4

THEOREM Invariant == Spec => []IInv
<1>1. Init => IInv
  BY InitInv
<1>2. IInv /\ [Next]_vars => IInv'
  BY StepInv
<1> QED BY <1>1, <1>2, PTL DEF Spec

\* The variables have their types, whatever is fetched, granted, inserted and written when;
\* and from the start of the updater on no slot the calculators read is missing
\* (blockstate_db.rs:440).
THEOREM TypeCorrect == Spec => []TypeOK
<1>1. IInv => TypeOK
  BY DEF IInv
<1> QED BY <1>1, Invariant, PTL

\* Slots fetched at the node's newest block and slots synced long before come together under
\* the updates, over gaps and reorgs: every one of which no change was lost on the way is the
\* chain's at the last block applied, or at one up to which it was fetched ahead
\* (market_state.rs:145, tracing.rs:41).
THEOREM SlotsConverge == Spec => []PoolSlotsCurrent
<1>1. IInv => PoolSlotsCurrent
  BY DEF IInv
<1> QED BY <1>1, Invariant, PTL

\* However long a quote runs, what it has read is what the database holds: of the synced
\* slots all of the last block applied, of the slots fetched a block up to that of the
\* fetch, unless a change of the slot was lost (quoter.rs:25).
THEOREM QuotesAreConsistent == Spec => []QuoteSeesOneBlock
BY Invariant, QuotesFollow, PTL

\* The balance and the approval of the simulated account are never lost (market_state.rs:185).
THEOREM GrantsStay == Spec => []GrantsKept
<1>1. IInv => GrantsKept
  <2> SUFFICES ASSUME IInv, phase # "warmup"
               PROVE  /\ \A s \in Balances : storage[s] = Granted
                      /\ \A s \in Approvals : storage[s] = Approved
    BY DEF GrantsKept
  <2>1. toGrant = {} /\ Balances \cap Approvals = {} /\ Balances \cup Approvals = Grants
    BY SlotFacts DEF IInv, PhaseInv, Grants
  <2> QED BY <2>1 DEF IInv, GrantInv
<1> QED BY <1>1, Invariant, PTL

-----------------------------------------------------------------------------
(* PoolLayout: fields. *)

LEMMA Radix ==
    ASSUME NEW m \in Nat \ {0}, NEW a \in 0..m - 1, NEW b \in Int
    PROVE  (a + b * m) % m = a /\ (a + b * m) \div m = b
OBVIOUS

LEMMA Widths ==
    /\ \A n \in {RESERVE, PRICE, TICK, INDEX, LIQUIDITY} :
          2 ^ n \in Nat \ {0} /\ 2 ^ (n - 1) \in Nat \ {0} /\ 2 ^ n = 2 * 2 ^ (n - 1)
    /\ 2 ^ (2 * RESERVE) = 2 ^ RESERVE * 2 ^ RESERVE
    /\ 2 ^ (PRICE + TICK) = 2 ^ PRICE * 2 ^ TICK
    /\ 2 ^ (INDEX + 8) \in Nat \ {0}
    /\ 2 ^ UNLOCKED = (2 ^ PRICE * 2 ^ TICK) * 2 ^ (INDEX + 8)
<1> DEFINE top == 2 * RESERVE + PRICE + TICK + INDEX + LIQUIDITY + 8
<1>1. {RESERVE, PRICE, TICK, INDEX, LIQUIDITY} \subseteq Nat \ {0}
  BY LayoutAssumption
<1>2. ASSUME NEW n \in {RESERVE, PRICE, TICK, INDEX, LIQUIDITY}
      PROVE  2 ^ n \in Nat \ {0} /\ 2 ^ (n - 1) \in Nat \ {0} /\ 2 ^ n = 2 * 2 ^ (n - 1)
  <2>1. n \in 0..top /\ n - 1 \in 0..top - 1 /\ 1 \in 0..top /\ n = 1 + (n - 1)
    BY <1>1
  <2>2. 2 ^ (1 + (n - 1)) = 2 ^ 1 * 2 ^ (n - 1)
    BY <2>1, PowerLaw
  <2>3. 2 ^ 1 = 2
    OBVIOUS
  <2> QED BY <2>1, <2>2, <2>3, PowerLaw
<1>3. 2 ^ (2 * RESERVE) = 2 ^ RESERVE * 2 ^ RESERVE
  <2>1. RESERVE \in 0..top /\ RESERVE \in 0..top - RESERVE /\ 2 * RESERVE = RESERVE + RESERVE
    BY <1>1
  <2> QED BY <2>1, PowerLaw
<1>4. 2 ^ (PRICE + TICK) = 2 ^ PRICE * 2 ^ TICK
  <2>1. PRICE \in 0..top /\ TICK \in 0..top - PRICE
    BY <1>1
  <2> QED BY <2>1, PowerLaw
<1>5. PRICE + TICK \in 0..top /\ INDEX + 8 \in 0..top /\ INDEX + 8 \in 0..top - (PRICE + TICK)
      /\ UNLOCKED = (PRICE + TICK) + (INDEX + 8)
  BY <1>1 DEF UNLOCKED
<1>6. 2 ^ (INDEX + 8) \in Nat \ {0} /\ 2 ^ UNLOCKED = 2 ^ (PRICE + TICK) * 2 ^ (INDEX + 8)
  BY <1>5, PowerLaw
<1> QED BY <1>2, <1>3, <1>4, <1>6

\* A signed field is read back from the two's complement that was packed.
LEMMA SignedLow ==
    ASSUME NEW n \in {TICK, LIQUIDITY}, NEW x \in -2 ^ (n - 1)..2 ^ (n - 1) - 1
    PROVE  /\ Low(x, n) \in 0..2 ^ n - 1
           /\ SignedOf(Low(x, n), n) = x
<1> DEFINE half == 2 ^ (n - 1)
           all  == 2 ^ n
<1>1. half \in Nat \ {0} /\ all \in Nat \ {0} /\ all = 2 * half /\ x \in -half..half - 1
  BY Widths
<1>2. Low(x, n) = x % all /\ SignedOf(x % all, n) = IF x % all < half THEN x % all
                                                   ELSE (x % all) - all
  BY DEF Low, SignedOf
<1> HIDE DEF half, all
<1>3. CASE x >= 0
  <2>1. x % all = x
    BY <1>1, <1>3
  <2> QED BY <1>1, <1>2, <1>3, <2>1 DEF all
<1>4. CASE x < 0
  <2>1. x + all \in 0..all - 1 /\ x = (x + all) + (-1) * all
    BY <1>1, <1>4
  <2>2. x % all = x + all
    BY <1>1, <2>1, Radix
  <2> QED BY <1>1, <1>2, <1>4, <2>2 DEF all
<1> QED BY <1>1, <1>3, <1>4

-----------------------------------------------------------------------------
(* PoolLayout: the words. *)

\* The readers as functions of a word.
ReservesIn(w) == <<Low(w, RESERVE), Low(Shr(w, RESERVE), RESERVE)>>
Slot0In(w)    == [price |-> Low(w, PRICE), tick |-> SignedOf(Low(Shr(w, PRICE), TICK), TICK)]
NetIn(w)      == SignedOf(Shr(w, LIQUIDITY), LIQUIDITY)

LEMMA PairWords ==
    ASSUME NEW p \in PairStates
    PROVE  /\ ReservesIn(ReservesWord(p)) = <<p.reserve0, p.reserve1>>
           /\ ReservesIn(insert_reserves(p)) = <<p.reserve0, p.reserve1>>
           /\ ReservesWord(p) # 0
<1> DEFINE m  == 2 ^ RESERVE
           r0 == p.reserve0
           r1 == p.reserve1
           st == p.stamp
           b  == r1 + st * m
<1>1. m \in Nat \ {0} /\ 2 ^ (2 * RESERVE) = m * m
  BY Widths
<1>2. r0 \in 0..m - 1 /\ r1 \in 0..m - 1 /\ st \in Nat \ {0}
  BY LayoutAssumption, PowerLaw
<1>3. /\ ReservesWord(p) = r0 + r1 * m + st * (m * m)
      /\ insert_reserves(p) = r1 * m + r0
  BY <1>1 DEF ReservesWord, insert_reserves, Shl
<1>4. \A w : ReservesIn(w) = <<w % m, (w \div m) % m>>
  BY DEF ReservesIn, Low, Shr
<1>5. m \in Nat \ {0}
  BY <1>1
<1> HIDE DEF m, r0, r1, st
<1>6. ReservesIn(ReservesWord(p)) = <<r0, r1>> /\ ReservesWord(p) # 0
  <2>1. ReservesWord(p) = r0 + b * m
    BY <1>2, <1>3, <1>5
  <2>2. b \in Nat \ {0} /\ b % m = r1
    BY <1>2, <1>5
  <2> HIDE DEF b
  <2>3. (r0 + b * m) % m = r0 /\ (r0 + b * m) \div m = b
    BY <1>2, <1>5, <2>2
  <2>4. r0 + b * m # 0
    BY <1>2, <1>5, <2>2
  <2> QED BY <1>4, <2>1, <2>2, <2>3, <2>4
<1>7. ReservesIn(insert_reserves(p)) = <<r0, r1>>
  <2>1. insert_reserves(p) = r0 + r1 * m
    BY <1>2, <1>3, <1>5
  <2>2. (r0 + r1 * m) % m = r0 /\ (r0 + r1 * m) \div m = r1 /\ r1 % m = r1
    BY <1>2, <1>5
  <2> QED BY <1>4, <2>1, <2>2
<1> QED BY <1>6, <1>7 DEF r0, r1

LEMMA Slot0Words ==
    ASSUME NEW s \in Slot0States
    PROVE  /\ Slot0In(Slot0Word(s)) = [price |-> s.price, tick |-> s.tick]
           /\ Slot0In(insert_slot0(s)) = [price |-> s.price, tick |-> s.tick]
           /\ Slot0Word(s) # 0
<1> DEFINE m   == 2 ^ PRICE
           k   == 2 ^ TICK
           top == 2 ^ (INDEX + 8)
           t   == Low(s.tick, TICK)
<1>1. /\ m \in Nat \ {0} /\ k \in Nat \ {0} /\ top \in Nat \ {0}
      /\ 2 ^ (PRICE + TICK) = m * k /\ 2 ^ UNLOCKED = (m * k) * top
  BY Widths
<1>2. s.price \in 1..m - 1 /\ s.index \in Nat /\ s.tick \in -2 ^ (TICK - 1)..2 ^ (TICK - 1) - 1
  BY LayoutAssumption, Widths
<1>3. t \in 0..k - 1 /\ SignedOf(t, TICK) = s.tick
  BY <1>2, SignedLow
<1>4. /\ Slot0Word(s) = s.price + t * m + s.index * (m * k) + (m * k) * top
      /\ insert_slot0(s) = s.price + t * m + (m * k) * top
  BY <1>1 DEF Slot0Word, insert_slot0, Shl
<1>5. \A w : Slot0In(w) = [price |-> w % m, tick |-> SignedOf((w \div m) % k, TICK)]
  BY DEF Slot0In, Low, Shr
<1> HIDE DEF m, k, top, t
<1>6. ASSUME NEW i \in Nat, NEW w, w = s.price + t * m + i * (m * k) + (m * k) * top
      PROVE  Slot0In(w) = [price |-> s.price, tick |-> s.tick] /\ w # 0
  <2> DEFINE j == i + top
             b == t + j * k
  <2>1. j \in Int
    BY <1>1
  <2>2. w = s.price + b * m
    BY <1>1, <1>2, <1>3, <1>6
  <2> HIDE DEF j
  <2>3. b \in Int /\ b % k = t
    BY <1>1, <1>3, <2>1
  <2> HIDE DEF b
  <2>4. w % m = s.price /\ w \div m = b
    BY <1>1, <1>2, <2>2, <2>3
  <2>5. w # 0
    BY <1>1, <1>2, <2>4
  <2> QED BY <1>3, <1>5, <2>3, <2>4, <2>5
<1>7. insert_slot0(s) = s.price + t * m + 0 * (m * k) + (m * k) * top
  BY <1>1, <1>2, <1>3, <1>4
<1>8. Slot0In(insert_slot0(s)) = [price |-> s.price, tick |-> s.tick]
  BY <1>6, <1>7
<1> QED BY <1>2, <1>4, <1>6, <1>8

LEMMA TickWords ==
    ASSUME NEW s \in TickStates
    PROVE  NetIn(TickWord(s)) = s.net /\ NetIn(insert_tick_liquidity_net(s)) = s.net
<1> DEFINE m == 2 ^ LIQUIDITY
           n == Low(s.net, LIQUIDITY)
<1>1. /\ m \in Nat \ {0} /\ s.gross \in 0..m - 1
      /\ s.net \in -2 ^ (LIQUIDITY - 1)..2 ^ (LIQUIDITY - 1) - 1
  BY LayoutAssumption, Widths
<1>2. n \in 0..m - 1 /\ SignedOf(n, LIQUIDITY) = s.net
  BY <1>1, SignedLow
<1>3. TickWord(s) = s.gross + n * m /\ insert_tick_liquidity_net(s) = n * m
  BY DEF TickWord, insert_tick_liquidity_net, Shl
<1>4. \A w : NetIn(w) = SignedOf(w \div m, LIQUIDITY)
  BY DEF NetIn, Shr
<1> HIDE DEF m, n
<1>5. TickWord(s) \div m = n
  BY <1>1, <1>2, <1>3
<1>6. insert_tick_liquidity_net(s) \div m = n
  BY <1>1, <1>2, <1>3
<1> QED BY <1>2, <1>4, <1>5, <1>6

LEMMA WordOfSlot ==
    ASSUME NEW pr, NEW pl
    PROVE  /\ ChainWord(pr, pl, Reserves8) = ReservesWord(pr)
           /\ ChainWord(pr, pl, Slot0) = Slot0Word(pl.slot0)
           /\ ChainWord(pr, pl, Liquidity4) = pl.liquidity
           /\ ChainWord(pr, pl, Slot14) = pl.observation
           /\ \A t : ChainWord(pr, pl, TickSlot(t)) = TickWord(pl.ticks[t])
           /\ \A w : ChainWord(pr, pl, BitmapSlot(w)) = Bitmap(pl.ticks, w)
BY DEF ChainWord, Reserves8, Slot0, Liquidity4, Slot14, TickSlot, BitmapSlot

LEMMA InsertedInSlot ==
    ASSUME NEW pr, NEW pl
    PROVE  /\ Inserted(pr, pl)[Reserves8] = insert_reserves(pr)
           /\ Inserted(pr, pl)[Slot0] = insert_slot0(pl.slot0)
           /\ Inserted(pr, pl)[Liquidity4] = pl.liquidity
           /\ Inserted(pr, pl)[Slot14] = SPACING
           /\ \A t \in Ticks :
                 /\ Inserted(pr, pl)[TickSlot(t)] = insert_tick_liquidity_net(pl.ticks[t])
                 /\ Inserted(pr, pl)[BitmapSlot(WordOf(t))] = Bitmap(pl.ticks, WordOf(t))
<1>1. /\ {Reserves8, Slot0, Liquidity4, Slot14} \subseteq LayoutSlots
      /\ \A t \in Ticks : TickSlot(t) \in LayoutSlots /\ BitmapSlot(WordOf(t)) \in LayoutSlots
  BY DEF LayoutSlots
<1>2. Inserted(pr, pl)[Reserves8] = insert_reserves(pr)
      /\ Inserted(pr, pl)[Slot0] = insert_slot0(pl.slot0)
      /\ Inserted(pr, pl)[Slot14] = SPACING
  BY <1>1 DEF Inserted, Reserves8, Slot0, Slot14
<1>3. Inserted(pr, pl)[Liquidity4] = ChainWord(pr, pl, Liquidity4)
  BY <1>1 DEF Inserted, Reserves8, Slot0, Slot14, Liquidity4
<1>4. ASSUME NEW t \in Ticks
      PROVE  Inserted(pr, pl)[TickSlot(t)] = insert_tick_liquidity_net(pl.ticks[t])
  BY <1>1 DEF Inserted, Reserves8, Slot0, Slot14, TickSlot
<1>5. ASSUME NEW t \in Ticks
      PROVE  Inserted(pr, pl)[BitmapSlot(WordOf(t))] = ChainWord(pr, pl, BitmapSlot(WordOf(t)))
  BY <1>1 DEF Inserted, Reserves8, Slot0, Slot14, BitmapSlot
<1> QED BY <1>2, <1>3, <1>4, <1>5, WordOfSlot

LEMMA TickWordsOf ==
    ASSUME NEW pr, NEW pl, NEW t \in Ticks
    PROVE  /\ ChainWord(pr, pl, TickSlot(t)) = TickWord(pl.ticks[t])
           /\ Inserted(pr, pl)[TickSlot(t)] = insert_tick_liquidity_net(pl.ticks[t])
           /\ ChainWord(pr, pl, BitmapSlot(WordOf(t))) = Bitmap(pl.ticks, WordOf(t))
           /\ Inserted(pr, pl)[BitmapSlot(WordOf(t))] = Bitmap(pl.ticks, WordOf(t))
<1>1. ChainWord(pr, pl, TickSlot(t)) = TickWord(pl.ticks[t])
  BY WordOfSlot
<1>2. ChainWord(pr, pl, BitmapSlot(WordOf(t))) = Bitmap(pl.ticks, WordOf(t))
  BY WordOfSlot
<1>3. /\ Inserted(pr, pl)[TickSlot(t)] = insert_tick_liquidity_net(pl.ticks[t])
      /\ Inserted(pr, pl)[BitmapSlot(WordOf(t))] = Bitmap(pl.ticks, WordOf(t))
  BY InsertedInSlot
<1> QED BY <1>1, <1>2, <1>3

LEMMA PoolTypes ==
    ASSUME NEW pl \in PoolStates
    PROVE  pl.slot0 \in Slot0States /\ \A t \in Ticks : pl.ticks[t] \in TickStates
BY DEF PoolStates

\* What the insertion writes for a pool can be told from the words that its contract has: if
\* a word is the same for two states, then so are the fields that are inserted.
LEMMA InsertedByWord ==
    ASSUME NEW pr \in PairStates, NEW pl \in PoolStates,
           NEW pr2 \in PairStates, NEW pl2 \in PoolStates, NEW slot \in LayoutSlots,
           ChainWord(pr, pl, slot) = ChainWord(pr2, pl2, slot)
    PROVE  Inserted(pr, pl)[slot] = Inserted(pr2, pl2)[slot]
<1>1. CASE slot = Reserves8
  <2>1. <<pr.reserve0, pr.reserve1>> = <<pr2.reserve0, pr2.reserve1>>
    BY <1>1, WordOfSlot, PairWords
  <2> QED BY <1>1, <2>1, InsertedInSlot DEF insert_reserves
<1>2. CASE slot = Slot0
  <2>1. Slot0Word(pl.slot0) = Slot0Word(pl2.slot0)
    BY <1>2, WordOfSlot
  <2>2. [price |-> pl.slot0.price, tick |-> pl.slot0.tick]
            = [price |-> pl2.slot0.price, tick |-> pl2.slot0.tick]
    BY <2>1, Slot0Words, PoolTypes
  <2>3. pl.slot0.price = pl2.slot0.price /\ pl.slot0.tick = pl2.slot0.tick
    BY <2>2
  <2> QED BY <1>2, <2>3, InsertedInSlot DEF insert_slot0
<1>3. CASE slot = Liquidity4
  BY <1>3, WordOfSlot, InsertedInSlot
<1>4. CASE slot = Slot14
  BY <1>4, InsertedInSlot
<1>5. ASSUME NEW t \in Ticks, slot = TickSlot(t)
      PROVE  Inserted(pr, pl)[slot] = Inserted(pr2, pl2)[slot]
  <2>1. TickWord(pl.ticks[t]) = TickWord(pl2.ticks[t])
    BY <1>5, TickWordsOf
  <2>2. pl.ticks[t].net = pl2.ticks[t].net
    BY <2>1, TickWords, PoolTypes
  <2> QED BY <1>5, <2>2, TickWordsOf DEF insert_tick_liquidity_net
<1>6. ASSUME NEW t \in Ticks, slot = BitmapSlot(WordOf(t))
      PROVE  Inserted(pr, pl)[slot] = Inserted(pr2, pl2)[slot]
  BY <1>6, TickWordsOf
<1> QED BY <1>1, <1>2, <1>3, <1>4, <1>5, <1>6 DEF LayoutSlots

-----------------------------------------------------------------------------
(* PoolLayout: the invariant. *)

\* Each word that is written is the chain's, or as the insertion would write it now.
WordsInv ==
    \A slot \in LayoutSlots :
        Written(slot) => words[slot] \in {ChainWord(pair, pool, slot), Inserted(pair, pool)[slot]}

SpacingInv == pool.observation = 0 => words[Slot14] = SPACING

LayoutInv == pair \in PairStates /\ pool \in PoolStates /\ WordsInv /\ SpacingInv

LEMMA LayoutInitInv == LayoutInit => LayoutInv
BY InsertedInSlot DEF LayoutInit, LayoutInv, WordsInv, SpacingInv, Written

LEMMA BlockInv ==
    ASSUME LayoutInv, NEW pr \in PairStates, NEW pl \in PoolStates, Block(pr, pl),
           pl.observation \in Observations \cup {pool.observation}
    PROVE  LayoutInv'
<1> USE DEF LayoutInv
<1>1. /\ pair' = pr /\ pool' = pl
      /\ \A slot \in LayoutSlots :
            LET value == ChainWord(pr, pl, slot)
            IN  words'[slot] = IF value \notin {0, ChainWord(pair, pool, slot)} THEN value
                               ELSE words[slot]
  BY DEF Block, update_all_slots
<1>2. WordsInv'
  <2> SUFFICES ASSUME NEW slot \in LayoutSlots, ChainWord(pr, pl, slot) # 0
               PROVE  words'[slot] \in {ChainWord(pr, pl, slot), Inserted(pr, pl)[slot]}
    BY <1>1 DEF WordsInv, Written
  <2>1. CASE ChainWord(pr, pl, slot) # ChainWord(pair, pool, slot)
    BY <1>1, <2>1
  <2>2. CASE ChainWord(pr, pl, slot) = ChainWord(pair, pool, slot)
    BY <1>1, <2>2, InsertedByWord DEF WordsInv, Written
  <2> QED BY <2>1, <2>2
<1>3. SpacingInv'
  <2> SUFFICES ASSUME pl.observation = 0
               PROVE  words'[Slot14] = SPACING
    BY <1>1 DEF SpacingInv
  <2>1. pool.observation = 0 /\ ChainWord(pr, pl, Slot14) = 0 /\ Slot14 \in LayoutSlots
    BY LayoutAssumption, WordOfSlot DEF LayoutSlots
  <2> QED BY <1>1, <2>1 DEF SpacingInv
<1> QED BY <1>1, <1>2, <1>3

LEMMA LayoutStepInv == LayoutInv /\ [LayoutNext]_layoutVars => LayoutInv'
<1> SUFFICES ASSUME LayoutInv, [LayoutNext]_layoutVars
             PROVE  LayoutInv'
  OBVIOUS
<1>1. ASSUME NEW pr \in PairStates, Block(pr, pool)
      PROVE  LayoutInv'
  BY <1>1, BlockInv DEF LayoutInv
<1>2. ASSUME NEW s \in Slot0States, NEW o \in Observations \cup {pool.observation},
             Block(pair, [pool EXCEPT !.slot0 = s, !.observation = o])
      PROVE  LayoutInv'
  <2> DEFINE pl == [pool EXCEPT !.slot0 = s, !.observation = o]
  <2>1. pl \in PoolStates /\ pl.observation = o
    BY DEF LayoutInv, PoolStates
  <2> HIDE DEF pl
  <2> QED BY <1>2, <2>1, BlockInv DEF LayoutInv, pl
<1>3. ASSUME NEW l \in Liquidities, NEW t \in Ticks, NEW s \in TickStates,
             Block(pair, [pool EXCEPT !.liquidity = l, !.ticks[t] = s])
      PROVE  LayoutInv'
  <2> DEFINE pl == [pool EXCEPT !.liquidity = l, !.ticks[t] = s]
  <2>1. pl \in PoolStates /\ pl.observation = pool.observation
    BY DEF LayoutInv, PoolStates
  <2> HIDE DEF pl
  <2> QED BY <1>3, <2>1, BlockInv DEF LayoutInv, pl
<1>4. CASE UNCHANGED layoutVars
  BY <1>4 DEF layoutVars, LayoutInv, WordsInv, SpacingInv, Written
<1> QED BY <1>1, <1>2, <1>3, <1>4 DEF LayoutNext

-----------------------------------------------------------------------------

\* What the insertion packs and what a block writes over it is read back as the contract has
\* it, for fields of any width and values of either sign (v2_db.rs:48, v3_db.rs:199-274).
THEOREM ReadersRight == LayoutSpec => []ReadersAgree
<1>1. LayoutInit => LayoutInv
  BY LayoutInitInv
<1>2. LayoutInv /\ [LayoutNext]_layoutVars => LayoutInv'
  BY LayoutStepInv
<1>3. LayoutInv => ReadersAgree
  <2> SUFFICES ASSUME LayoutInv
               PROVE  ReadersAgree
    OBVIOUS
  <2> USE DEF LayoutInv
  <2>1. /\ \A slot \in {Reserves8, Slot0, Liquidity4, Slot14} : slot \in LayoutSlots
        /\ \A t \in Ticks : TickSlot(t) \in LayoutSlots /\ BitmapSlot(WordOf(t)) \in LayoutSlots
    BY DEF LayoutSlots
  <2>2. get_reserves = <<pair.reserve0, pair.reserve1>>
    <3>1. words[Reserves8] \in {ReservesWord(pair), insert_reserves(pair)}
      BY <2>1, WordOfSlot, InsertedInSlot, PairWords DEF WordsInv, Written
    <3>2. get_reserves = ReservesIn(words[Reserves8])
      BY DEF get_reserves, ReservesIn
    <3> QED BY <3>1, <3>2, PairWords
  <2>3. slot0 = [price |-> pool.slot0.price, tick |-> pool.slot0.tick]
    <3>1. words[Slot0] \in {Slot0Word(pool.slot0), insert_slot0(pool.slot0)}
      BY <2>1, WordOfSlot, InsertedInSlot, Slot0Words, PoolTypes DEF WordsInv, Written
    <3>2. slot0 = Slot0In(words[Slot0])
      BY DEF slot0, Slot0In
    <3> QED BY <3>1, <3>2, Slot0Words, PoolTypes
  <2>4. Written(Liquidity4) => liquidity = pool.liquidity
    BY <2>1, WordOfSlot, InsertedInSlot DEF WordsInv, liquidity
  <2>5. ASSUME NEW t \in Ticks, Written(TickSlot(t))
        PROVE  ticks_liquidity_net(t) = pool.ticks[t].net
    <3>1. words[TickSlot(t)] \in {TickWord(pool.ticks[t]),
                                  insert_tick_liquidity_net(pool.ticks[t])}
      BY <2>1, <2>5, TickWordsOf DEF WordsInv
    <3>2. ticks_liquidity_net(t) = NetIn(words[TickSlot(t)])
      BY DEF ticks_liquidity_net, NetIn
    <3> QED BY <3>1, <3>2, TickWords, PoolTypes
  <2>6. ASSUME NEW t \in Ticks, Written(BitmapSlot(WordOf(t)))
        PROVE  tick_bitmap(WordOf(t)) = Bitmap(pool.ticks, WordOf(t))
    BY <2>1, <2>6, TickWordsOf DEF WordsInv, tick_bitmap
  <2>7. ~Written(Slot14) => tick_spacing = SPACING
    BY WordOfSlot DEF SpacingInv, Written, tick_spacing
  <2> QED BY <2>2, <2>3, <2>4, <2>5, <2>6, <2>7 DEF ReadersAgree
<1> QED BY <1>1, <1>2, <1>3, PTL DEF LayoutSpec

=============================================================================
