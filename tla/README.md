# BaseBuster: models, checks and proofs

BaseBuster is an arbitrage bot for Base, written in Rust: it keeps a copy of the
storage of a few thousand liquidity pools, follows the chain block by block,
searches cycles of swaps for a profit, quotes the best one in a local EVM and sends
a transaction. This directory holds TLA+ models of the program, TLC runs over small
instances, and TLAPS proofs. `PROJECT.json` maps every definition to source lines;
paths below are relative to `src/src/`.

The repository's own README says that the code does not compile at this commit (for
one, `Cache::set`, called at `calculation/calculator.rs:62`, is missing). The models take such calls
to do what their name and comment say.

## 1. Inventory

| Part | State | Operations | Interacts with |
|---|---|---|---|
| Block stream (`stream.rs`) | an IPC subscription | forward each header | broadcast channel of capacity 100 (`ignition.rs:24`) |
| State updater (`market_state.rs`) | `last_synced_block`, `caught_up` | catch-up by block number, then one update per header | reads the broadcast, traces blocks over RPC, writes the database, sends `PoolsTouched` |
| Gas station (`gas_station.rs`) | `base_fee` (atomic) | store next base fee per header; fees from a profit | its own receiver of the broadcast; read by the sender |
| Start-up (`ignition.rs`, `main.rs`) | - | create channels, filter, spawn stream and gas station, warm up and fill the database, spawn the updater, spin on `caught_up`, first rates, cycles, other workers | everything |
| Database (`state_db/`) | accounts, slots, code, pools, tokens, behind one `RwLock` | `add_pool`, `insert_v2/v3`, `insert_account_*`, `update_all_slots`, lazy fetch in `storage`/`basic`, readers | written by warm-up, updater and quotes, read by calculators |
| Tracer (`tracing.rs`) | - | diff-mode prestate trace, post half | RPC |
| Searcher (`searcher.rs`) | `path_index`, estimator, cache | one search per `PoolsTouched` | mpsc from the updater, mpsc `ArbPath` to the simulator |
| Calculator and cache (`calculation/calculator.rs`, `cache.rs`) | cache (pool, amount in) -> amount out | output of a path, one read lock per step; invalidation | database |
| Estimator (`estimator.rs`) | `rates`, `aggregated_weth_rate`, `token_decimals` | `process_pools`, `update_rates`, `estimate_output_amount` | calculator |
| Cycles (`graph.rs`) | - | depth-first search, two hops, different pool types | input of the searcher |
| Simulator, quoter (`simulator.rs`, `quoter.rs`) | blacklist of path hashes | quote under the write lock, optimize the input, send `ValidPath` | database, mpsc to the sender |
| Sender (`tx_sender.rs`) | `nonce` | build, send, monitor for 10 attempts | sequencer over HTTP |
| Filter (`filter.rs`) | volume cache on disk | top-volume tokens, trial swaps | HTTP, a database of its own |
| Swap maths (`calculation/`) | - | V2, V3, stable formulas | database |
| Contracts (`src/contracts/`) | - | quote a path; flash loan, swaps, repayment | on chain |

What is hard here: the head of the chain, the subscription, the catch-up and the
warm-up run beside each other and hand over without a common cursor; a bounded
channel with lossy receivers; a database written by three parties from three points
of the chain; a searcher that reads it unlocked between steps and keeps derived data
(rates, cache) across blocks; tasks that end silently when a pattern does not match or
an `unwrap` panics. What makes each part correct: blocks are written once, in order,
without gaps that nobody notices (updater); every slot held is the chain's at a known
block (database); nothing derived outlives the state it was derived from unless its
invalidation is on the way (searcher); the choice of paths neither makes up nor misses a
profit (estimator); exactly the intended cycles (graph); the nonce follows what was
sent (sender); every process trades on the same list of tokens, and on pools deep
enough (filter). `PROJECT.json` lists the hazards line by line with the properties
that speak of them.

## 2. Modules

    CatchUp    <--implements--  BlockSync  <--EXTENDS--  BlockSyncProofs
    CatchUp, BlockSync  <--EXTENDS--  MCSync
    BlockFeed  <--implements--  BlockSync
        ^
        |  EXTENDS
        +-- Searcher  <--EXTENDS--  MCSearcher, SearcherProofs
        +-- Dispatch  <--EXTENDS--  MCDispatch, DispatchProofs
        +-- BlockFeedProofs   (EXTENDed by SearcherProofs and DispatchProofs)

    StateDB, PoolLayout  <--EXTENDS--  MCStateDB, DatabaseProofs

    Estimator  <--EXTENDS--  MCEstimator, EstimatorProofs

    ArbGraph, V3Swap, Filter, FlashPath, Aerodrome  <--EXTENDS--  MCAlgorithms, AlgorithmProofs

    Sums (lemmas: least elements, sums over finite sets)  <--EXTENDS--  AlgorithmProofs

**BlockFeed** is the abstract specification of the updater: blocks are applied one at
a time, consecutively except before the first live one; during the catch-up nobody is
told; once live, each block is announced before the next one is applied.

**BlockSync** is the code behind it: the node (grows, reorganizes, announces), the task
of the stream, the broadcast ring with a cursor per receiver, the steps of
`start_workers` up to the spin loop, `state_updater` and `update_gas`. The statement
order of the source is kept in program counters (`mainPc`, `updaterPc`, ...). A
receiver that is more than `Capacity` events behind gets `Lagged`, and like the
closing of the channel this ends its `while let`. A block's state change is
reduced to its number in `applied`, the history of calls of `update_state`, and `written` keeps which
version of the block the node had when it was traced. The catch-up asks for the head, tests the answer
and goes on in separate steps (`GetBlockNumber`, then `StartRound` or `GoLive`): the task awaits the
answer, and the head may move before `caught_up` is stored. The skip test of the receive loop
compares numbers, so the header of a block that a reorg puts in the place of a written one is
skipped: `SentBlocksReflected` speaks of headers new to stream and database, `ReorgsReflected` of
all, and fails.

**CatchUp** is the race between the rounds of the catch-up and the head, with a chain that
never stops: only two distances are kept, how far the head is ahead of what is written and how much of
the round is left. BlockSync, whose chain is bounded, implements it (`RaceRefined`). That start-up ends holds only if
fewer blocks are mined in a round than it traces, from some round on (`StartsUp`): with a block mined for
each one traced the loop never ends and main spins for ever, which is why the premise is there. The names of
the module begin with `Race`, or `Round` where they keep the history, so that MCSync can
extend it beside BlockSync.

**StateDB** is the database account by account and slot by slot: what the warm-up grants, approves
and fetches, what the pool synchronization inserts, what the updates write and what quotes fetch
lazily, each taken from another block of the chain. `WithAccount` is `Database::basic`, which every
read and grant goes through: it must create an account once and never again. `update_all_slots` is applied
for the transactions of a block in order; quotes hold the write lock over several reads. The
updater is reduced to the block it applies next. Four things let a change of the chain get lost on its way
there: the trace of a transaction fails and `debug_trace_block` drops it (`Traced`), a slot is cleared and stands in the
pre half only (`InPost`), a block is skipped (`LeaveGap`, more freely than BlockFeed's one gap), or a block already written is orphaned (`Reorg`), whose
successor of the same number is skipped. The history `missed` keeps the pool slots whose last change was lost, and the
promises are about the others: one lost change must not harm another slot, and none once
the slot is written or fetched again. The trial swap of
`warm_up_database` encodes its call twice (`market_state.rs:249`), so that no function of the quoter
answers: it loads nothing, against the comment above it, and the first quotes fetch what they need.
What `approve` reads is the token's business, hence any slot. The code and the balance of an account
never change once it is there, and `insertion_type` is read by nobody: both are left out.

**PoolLayout** is the packing of a pool's state into words (`v2_db.rs`, `v3_db.rs`): two ways in, the
insertion field by field and the words a block brings, and one way out. Fields are as wide as the constants say, with
two's complement and masks as in the code; the three observation fields of slot 0 are one. The tick
spacing is kept in slot 14, which in the pools is an element of the oracle's array:
`ReadersAgree` claims it only until that is written, and the program has no other
place for it (hazard at `v3_db.rs:186`). The code treats every V3-like pool as a Uniswap one; so does the model.

**Searcher** puts the searcher thread and its cache beside `BlockFeed`: the updater may
write any pools between any two reads. What a pool holds is the number of the last block that
touched it; outputs are a constant table of pool, direction, version and amount, so the
cache's key (without a direction) has the collisions the code has. The mpsc channel
is unbounded and loses nothing, hence the log `published` with a read position. Which
touched path has the best estimate is left open: any, or none.

**Estimator** is `process_pools` with real arithmetic on small reserves: the V2
formula, decimals, scaled rates with floors, the aggregate with its leftover,
and the test `min_profit <= estimate < 1e18` (`searcher.rs:102`), both ends of it. A step is one batch: the
reserves of any set of pools change, and these are processed.

**Dispatch** is the way from an event to the sequencer. `status` says of each worker
of `start_workers` whether it waits to be spawned, runs or has ended; `arbs` and `valids` are
the mpsc channels, whose `recv` fails when they are empty and their sender has ended. The
searcher sends any path for an event, or none. The simulator goes through `recv`, the first
quote, the rounds of `optimize_input` and the send; a quote has a lock of its own, so the
feed may write a block between any two. The sender takes a path, counts the nonce up and posts:
the sequencer accepts, refuses, or takes the transaction while its answer is lost. A worker ends where its `while let` fails or an `unwrap` panics: the updater at any time, the searcher at any event
(a V3 quote answers an error, `calculator.rs:134`, or the lock is poisoned), the simulator in
a quote, under the write lock, which is poisoned then and stops searcher and updater, or in the calculation a sim run logs (`simulator.rs:55`), after which
it is not, and the sender at an answer it cannot read. Ends are not sudden: what is queued is still quoted and
sent after the updater's end, and `ShutsDown` says only that this comes to an end. A quote is a constant
function of path, block and input. `optimize_input` compares outputs, not profits, so that it may settle for an input that earns
less than one it has quoted before, against the comment above it (`quoter.rs:57`): the model does the same, and `OnlyQuoted` claims no more than that the
quote beats the first. The paths in the channel of a sender that has ended are lost, in the model as in the code. Expected amounts, fees and the monitors, which only
log, are left out, and so is a panic of `start_workers`, which ends the process.

**ArbGraph** is `graph.rs`: the graph grows pool by pool, with the edges of each kind of pool, and
`construct_cycles` is evaluated on every graph, for the bound of two hops the program uses and for
longer ones, where the set of visited nodes matters. The path determines the current node and the
visited ones, as pushes and removals go together. Results are sets: the order in which cycles
are listed, and their hashes, are left out.

**V3Swap** is the loop of `uniswap_v3_out`, a round per step. Ticks, words of the bitmap, spacing
and both roundings of a division are those of the code with smaller numbers; the price is a
number of places per tick, and moving it by one place takes and gives the active liquidity, in
place of the library's formulas. What the library is relied on for (the next tick in a word,
a step that stops at the target or spends the input) is marked external in `PROJECT.json`. A bitmap word
that the database lacks is read from the node, where the read may fail in any round and counts as an
empty word (`uniswap.rs:123`); the words with a tick are in the database, from the insertion of the pool or the
block that set the tick. The loop has no concurrency: it holds one read lock. The pool stands still: the node,
which answers as of its newest block, is never ahead with a tick in a word the database lacks, and so every tick found has its own slot
in the database and `ticks_liquidity_net` (`uniswap.rs:177`) asks nobody. A quote that mixes in such a tick is not covered.

**Filter** is `filter.rs`: the list of tokens, fetched page by page or read from the file an earlier
process left, the match of pools with it, the slot found for each token, and a trial swap there
and back per pool. `Stop` ends the process between any two steps, for whatever reason; only the
file outlives it, and a file that was not written to its end is there but cannot be read. What
the service answers is any set of tokens. Routers, pools and tokens are external, and modelled
along the five swap types of the code: a V2 router (`V2Basic`) gives what the formula says with the fee of its
protocol, for seven protocols with three fees; what the routers of V3 and Aerodrome pools (`OtherSwaps`) give back is any
number. A token is the set of slots its `balanceOf` reads and whether it is `Sound`: one that takes a fee on
transfers reverts in the pair. `KeptAreDeep` and `DeepAreKept` are about V2 pools only: a concentrated or
stable pool may return 95% of an amount that is a large part of its reserve, and a V3 pool whose balance is
out of range may fail to, however large it is.

**FlashPath** is a path's way through calculator, `FlashQuoter.sol` and `FlashSwap.sol`: it is calculated and
quoted on the same reserves, the changes of the quote are dropped, somebody may trade, and it is
executed with a flash loan, pool by pool, with the balance the contract has in between, until the repayment
or a revert. The two contracts hold two copies of the swaps, and so does the module (`quoteSwapV2`, `executeSwapV2`, ...). Each of the three has its own table of fees; the one of the swap contract is filled by
its constructor from the deploy script. Whoever deploys it passes the seven factories of the script,
which the model names by their protocols. Pairs refuse what their product rule refuses, a V3 pool is one range that
can end before the input is used up, and both are external like the lender.

**Aerodrome** is `aerodrome_out`: the volatile formula, and the stable one with `_get_y` as a loop, a
round per step, with every floor of the code. `UNIT` (1e18 in the code) is 100 in the run: roundings
are relatively coarser there. Fee, decimals and the flag of a pool come from accessors that
are missing at this commit (`get_fee`, `get_decimals`, `get_stable`) and are taken by their names;
`main.rs` does not load these pools yet.

Mutants (`Mutant...`) stand next to the definition they distort. No specification
uses them; each makes one property of a passing run fail.

## 3. Runs

| Run | Question | Result |
|---|---|---|
| `sync` | does the updater keep order, hand over and announce as BlockFeed says, race the head as CatchUp says, and do updates and fees make progress? does start-up end if from some round on the head is slower than the tracing, on a chain without a last block? | holds (279 731 states) |
| `sync_lag` | does it miss no block ("so we dont miss any blocks", `ignition.rs:34`)? | violated: a lagging receiver ends the updater |
| `sync_reorg` | does the skip test drop only what was processed (`market_state.rs:117`)? | violated: the block a reorg puts in the place of a written one is skipped |
| `statedb` | do slots from three sources converge on the chain but for lost changes, does a quote see one block, do the granted balance and the approval stay? do the readers find in the words of a pool what it has? | holds (134 347 states) |
| `statedb_cleared` | do all changes of a block arrive (`market_state.rs:154`)? | violated: a slot set to zero is only in the trace's pre half |
| `searcher` | are rates and cache coherent with the database up to pending events, is an ArbPath never older than its block, does everything settle? | holds (91 380 states) |
| `searcher_torn` | is the database still during a calculation (`calculator.rs:41`)? | violated: one read lock per step |
| `estimator` | does the estimate neither make up nor miss a profit for pools with WETH as token0, and is every ratable pool rated? | holds (65 240 states) |
| `estimator_swapped` | the same for every pool | violated: rates of pools with WETH as token1 are filed under the wrong token |
| `estimator_drift` | is the aggregate an average (`estimator.rs:173`)? | violated: the old value is never taken out |
| `dispatch` | is the order of nonces and blocks kept whoever fails, is nothing sent that was not quoted, do all workers end after the updater? is every path decided, passed on or dropped for a reason of its own, by a simulator that has its turns, whatever the sender does? | holds (48 118 states) |
| `algorithms` | are the cycles exactly the simple ones, usable both ways? does a V3 quote pay what the positions owe, whatever reads fail, and end? does the filter keep the deep V2 pools of one list? is a path executed as it was calculated and quoted? does an Aerodrome quote pay what its curve allows, to the unit? | holds (13 415 states) |

Bounds. `sync`: four blocks, ring of two, one reorg, both connections may fail: enough for a catch-up of two
rounds, a gap at the hand-over, a header repeated by a reorg, and a
receiver that lags before and after its first event. `sync_lag` needs five blocks and no
failure, `sync_reorg` three blocks and one reorg. MCSync sets the race of CatchUp beside BlockSync in `sync`, and one
of the two moves; in the race the head is at most five blocks ahead, which bounds the length of a round and not the chain:
the node mines for ever. `statedb`: two blocks after the sync block, each of seven `Batches` (a slot changed, cleared, changed twice, cleared and
changed again, together with another slot, or with a token's balance), with failing traces,
gaps and reorgs (`MayMiss`), so that a fetch can be ahead of the updates by more than one write of a slot (`statedb_cleared` has none
of the three); its other machine is a pair
and a V3 pool with fields of one to three bits at their limits, ticks and nets of either sign, two
ticks in a word of the bitmap, and any number of blocks.
`searcher`: three blocks (up to three of them in the catch-up, a gap, up to three live ones), two pools and the two
cycles through them: the thread can be two events behind, hit its cache on either step, and meet
a dry pool. `estimator`: six pools and three batches, each touching any subset, with prices far enough apart that an estimate reaches `MaxEstimate` (three times `AMOUNT`, 1000 times in the code).
`dispatch`: two paths, three blocks and two further inputs per quote: a path whose quote grows,
one that reverts at once or in a later round, an amount that is not believed, a loss,
and two paths queued while a third is quoted.
`algorithms` runs five independent machines, of which only one moves: all working sets of seven
pools over three tokens, up to four hops, enough for parallel edges, several edges of one pool and a
way that would visit a token twice; and quotes from every price between the
limits, standing in or on a tick, in both directions, for four inputs and any of three positions,
with words of two ticks so that a quote passes several on either side of tick 0; and the filter
of thirteen pools of six tokens over two pages, V2 pools of every fee with reserves on both sides of the depth that passes, V3 and
Aerodrome pools on both sides of the bound, a proxy, a token whose slot is mistaken, one with a fee on
transfers, a blocked one, and any number of crashes; and paths of two and
three hops over pairs of four protocols and V3 pools, with inputs from one that yields
nothing to one beyond a V3 pool's range, and a trade of somebody else before the execution; and Aerodrome
pools, stable and volatile, balanced and lopsided, with equal and different decimals, down to one whose reserves
are too small for the stable curve to have a slope.

Deadlock is checked in `sync`, where `Quiet` names the states in which the bounded
chain has nothing left to deliver, and `RaceOver` those in which the race is decided. It is off in the other runs: their models stop when
the bounded chain ends, which the program would not.

Fairness. The tasks of the updater and the gas station run on tokio, which polls a
ready task again; main and the searcher are threads. `sync` assumes weak fairness of
each of them and of the stream (connecting and the
subscription are answered); `searcher` assumes it of the searcher and of the sending
of an event after its block was written; `dispatch` assumes it of the simulator alone, and `ShutsDown` has a premise
that adds main, searcher and sender, whose requests are answered or time out (`OthersFair`), and of the updater nothing; `algorithms`
of the loop of a quote, which is sequential code. Nothing is assumed of the node: no block need ever come. That the
head falls behind the tracing is the premise of `StartsUp`, where it can be read, and no bound of a
chain stands in for it: of BlockSync, whose chain does end, no property says that the catch-up does.
The simulator and the sender wait in a blocking `recv` inside async tasks
(`simulator.rs:31`, `tx_sender.rs:90`). Tokio promises progress only where no task does that: each of them keeps a
worker thread, and a thread that is kept may be the one that was serving the I/O of all others, in which
case even idle threads need not take over at once. `PathsDecided` does not depend on it: the simulator never awaits and keeps the thread it has. `ShutsDown`
and the liveness of `sync` do; they assume that the runtime makes progress all the same, and where it does not, they
say nothing, while the safety properties, which assume no fairness, hold.

## 4. Proofs

`BlockSyncProofs` proves of `BlockSync`, for every synchronization block, chain
length, ring capacity, number of reorgs and set of failing connections:

- `TypeCorrect`: `[]TypeOK`;
- `SyncInvariant`: `[]SyncInv`;
- `BlocksInOrder`: no block is written twice or out of order (`NeverReprocessed`);
- `CatchUpReachesHead`: `caught_up` is stored only when all blocks up to the head the node answered last are
  written, wherever the head has moved since;
- `RaceRefinement`: `Spec => Race!RaceSpec`, the catch-up is the race of CatchUp;
- `Refinement`: `Spec => Feed!FeedSpec`.

The only assumption is `BlockSyncAssumption` on the constants. Order alone is
not inductive: that a header taken lies above all blocks written needs
`last_synced_block = Newest` whenever the updater listens, which in turn needs the
arithmetic of the catch-up (`block_number = SyncedAt + Len(applied) + 1`); that live blocks are
consecutive needs the order of the log: a reorg lets the subscription go back but
never leap ahead (`LogInv`), and the event before the cursor is at or below
`last_synced_block` (`CursorInv`). `SyncInv` collects these facts; it is checked by
`sync` as well. `TypeStep` and `SyncStep` show that each action keeps them, one step per action,
and the action properties follow from the invariant and one step.

`SearcherProofs` proves of `Searcher`, for all pools, cycles, outputs and blocks:

- `TypeCorrect`: `[]TypeOK`;
- `CacheNeverStale` and `RatesNeverStale`: `[]CacheCoherent` and `[]RatesCoherent`;
- `ArbsNeverOld`: `[]ArbsFresh`.

The assumptions are `SearcherAssumption` (cycles are sequences of steps, `compute_amount_out`
is a total function, `min_profit` is positive) and `NoEntryAssumption` (the null
values are no entries). None of the three properties is
inductive, because "an event is on its way" says nothing about what holds once it is
taken. The invariant behind them asks that everything the thread keeps (a
first quote in hand, rates, cache entries, versions used by the path in hand) *covers* its
pool: it is no older than any block of the feed that touched the pool and that the
searcher has been told of. A version just read covers whatever the searcher knows
(`ReadCovers`); a block written, an event sent or the end of the catch-up do not change what it
has been told of (`WriteStep`, `EventStep`); an event taken ends covering only for the pools it
names, whose entries go in the same step (`ReceiveStep`). Covering with no event
pending is being current (`CoversCurrent`), and a finished path has used a covering
version in each step, which is `ArbsFresh` (`CalcStep`). A path that ended early has amount
0 and is never sent because `min_profit` is positive.

`BlockFeedProofs` proves of `BlockFeed` that blocks written ascend and that the events are the
blocks written live, in their order (`FeedInOrder`, from `OrderInv`). Its step lemma
`FeedStep` is what SearcherProofs and DispatchProofs use.

`DispatchProofs` proves of `Dispatch`, for all paths, blocks, quotes and amounts:

- `TypeCorrect`: `[]TypeOK`;
- `NoncesOrdered`: `[]NoncesInOrder`;
- `QuotedOnly`: `[]OnlyQuoted`.

The assumptions are `DispatchAssumption` (numbers, a total table of quotes) and
`NothingAssumption` (the null value is no message). That blocks ascend at the sequencer is
not inductive: the invariant `LineInv` says that the blocks of the transactions accepted, of the
one in hand, of the sender's channel, of the simulator's job and of its channel form a line,
each stage before the stages behind it, all of them among the blocks the searcher was told of.
A worker moves the first of one stage to the end of the next or drops it
(`AppendBlocks`, `TailBlocks`), and a path enters with an event newer than all
before it (`LineEntry`). `NonceInv` adds that a transaction in hand has the next nonce and that
the nonce is ahead of the sequencer only when the sender has ended. `QuoteInv` follows the best
quote through the rounds of the optimizer (`FirstQuote`, `NextQuote`) into the message; that its
block is no older than the path's comes from `LineInv` and the order of the feed (`JobWritten`).

`DatabaseProofs` proves of `StateDB` and `PoolLayout`, for all pools, tokens, slots, values,
initial states and lengths of chain and block:

- `TypeCorrect`: `[]TypeOK`, with "no slot the calculators read is missing once the updates run";
- `SlotsConverge`: `[]PoolSlotsCurrent`;
- `QuotesAreConsistent`: `[]QuoteSeesOneBlock`;
- `GrantsStay`: `[]GrantsKept`;
- `ReadersRight`: `[]ReadersAgree`, for fields of every width and either sign.

A slot may be fetched ahead of the updates, so that being current is about a block between the last one
written and the one the slot was fetched at, which the history `obtained` keeps. That becomes inductive together with `ChainInv`, the chain being what its blocks make
of it, and `ObtainedInv`: synced slots are never fetched ahead, so that those no change of which was lost are the chain's at the last block written. A block
written moves every slot forward because the last write of a slot in a block is the chain's value after it, or the slot is
`missed`; a reorg leaves alone, or adds to `missed`, what it drops. `QuoteInv` says that a quote
has read what the database holds.
Blocks are applied transaction by transaction in the code; the model says it by the last write (`Overwrite`), as
what a fold computes would need an induction over data. The other conjuncts of `IInv` follow the start: what is
still to grant and to insert (`PhaseInv`), what the pools inserted hold until the updates run (`InsertedInv`), and that
what was granted is still there (`GrantInv`). Layout needs `PowerLaw`, which states
`2^(m+n) = 2^m * 2^n` for the widths in use, as the provers know nothing of powers; packing is then
division with remainder, field by field.

`EstimatorProofs` proves of `Estimator`, for any finite set of pools, reserves and decimals:

- `TypeCorrect` and `Rated`: `[]TypeOK`, `[]RatedPools`;
- `FilterSound` and `FilterComplete`: `[]NoProfitMadeUp`, `[]NoProfitMissed`.

`EInv` says that a pool with WETH is rated by the reserves of the database as they are (`FreshInv`), and
that exactly the tokens of such pools have an aggregate once there was a batch (`AggregateInv`). Soundness and completeness then are arithmetic: a rate is the V2 output for `AMOUNT` brought to
`RATE_SCALE` decimals and rounded, two such roundings lose less than `RoundingLoss`, and the estimate
is at most `AMOUNT` times the ratio of the two quotes, which keeps it below `MaxEstimate` under the premise of `NoProfitMissed`. The assumptions are
`EstimatorAssumption` (positive reserves; WETH has the decimals of the scale; the amount of the rates is
below the profit that is asked for) and `PowersOfTen`.

`AlgorithmProofs` proves of `ArbGraph`, `Filter`, `V3Swap`, `FlashPath` and `Aerodrome`:

- `AllCycles` and `CyclesBothWays`: `[]CyclesExact`, `[]CyclesUsable`, for any pools, tokens and number of
  hops from 2. The search is a recursive function of the number of calls that are still
  open. The paths it follows are the simple walks from WETH of each length (`PathsAreWalks`), and a walk that
  closes is a cycle of the definition (`ClosedWalk`, `CyclesAre`), whichever way round it is read.
- `OneList`: `[]ListsAgree`. No process has used a list while the file is missing or being written, and afterwards only the
  list in the file (`ListInv`).
- `OnlyDeep` and `DeepKept`: `[]KeptAreDeep`, `[]DeepAreKept`. `KeptInv` says that what is kept passes the
  trial, and that a pool of the list that would pass is kept or still to try. The trial there and back by the V2 formula, whichever of the three
  fees the protocol takes, passes only with 33 times the trial amount in the pool (`TrialShallow`), and with sound tokens passes with 60
  times and 100 units out (`TrialDeep`). Between the two limits roundings decide. `AMOUNT >= 100` keeps 95% of it away from
  zero; it is 1e15.
- `SwapTypeCorrect`, `LiquidityIsActive` and `PaidInFull`: `[]SwapTypeOK`, `[]LiquidityActive`, `[]OutIsDue`, for any
  finite set of positions, spacing, word, fee and scale. `SwapInv` ties tick to price and says that what was paid
  is the sum of the active liquidity over the places passed; a round goes to the next tick of the bitmap, between which and
  the price no position begins or ends (`NextTickIs`, `SameActive`), and `Crossing` adds the nets of
  the positions that do.
- `QuotesHold`: `[]ExecutesAsQuoted`, for all markets, paths, inputs and premiums. `FlashInv` says that while
  nobody traded, a call stands at a stop of the `Route` that the calculator took, whoever makes it: the three tables of
  fees agree on every registered protocol (`Tables`, `FeesAgree`). It needs that no pool
  comes twice in a path, that reserves are positive, and that a V3 pool holds at least its
  `LastPosition` (`FlashAssumption`, `MarketAssumption`).
- `PaidToTheCurve`: `[](SearchEnded => PaysToTheCurve)`: for volatile pools, and for stable ones of two
  tokens with 18 decimals where `_get_y` ends of its own. With every rounding down, `_f` still rises with
  each unit of the balance once the other balance is a whole token (`CurveRises`), so that the two tests
  that end the loop find the first balance on the curve (`EndIs`).
  Two things stay with TLC: that Newton's method ends within its 255 rounds (otherwise `_get_y` returns 0 and the
  quote pays the whole reserve), and pools with other decimals, for which `_get_y` tests `_k`, which scales by the
  decimals once more, where it means `_f`: the test then holds at once, and whether a search ever comes to
  it from below depends on the roundings on its way.

`Sums` holds what these rest on: a nonempty set of numbers has a least element, and sums over finite
sets may be split and reordered. Where a proof needs induction, over paths, hops, sets or open calls, it takes a
least counterexample (`NatMin`, `SmallestSet`) from well-foundedness, as the library's induction
theorems, which take an operator, cannot be used.

Only model-checked: liveness (`SentBlocksReflected`, `StartsUp`, `FeeFollowsHead`, `Settles`,
`ShutsDown`, `PathsDecided`, `Finishes`), which is out of the prover's reach, the types of CatchUp, and of Aerodrome what is named above.
Every other property of a passing run is a theorem.

## 5. Not modelled, and the plan

Not modelled: the formulas of Balancer, Curve and Maverick (not reached:
`todo!()`), `history_db.rs` (unused), generated bindings, HTTP clients, logging, the monitors of
sent transactions, `debug_calculation` (which only logs), the tests.
Relaxed atomics: `caught_up` is a relaxed flag, but the database is behind a lock
whose release precedes the store, so a reader that sees the flag and then locks sees the
blocks; the models make the store one step, apart from the request for the head before it.

Hazards without a property have a note in `PROJECT.json`: the direction missing in the cache's key, paths
blacklisted for ever, transactions pending from an earlier process, blocked worker threads, and a bitmap word
the node answers with a newer tick.

Planned: `_get_y` for decimals other than 18, where a bound on how far a round of Newton's method overshoots would be
needed; and a composition of StateDB with BlockFeed in place of its reduced updater, so that the
refinement reaches the slots.
