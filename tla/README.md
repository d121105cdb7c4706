# A TLA+ model of Nomios-Go (cdc-scaling)

Nomios captures the MySQL binlog and publishes every row change to Kafka, in
parallel, in order per key and at least once. This directory models the parts
that make those promises: where an event is between binlog and topic, what the
saved position covers, and what happens when something fails, stops, crashes or
is restarted at the wrong moment.

Paths below are relative to the repository (`src/`).

## 1. Inventory

| Part | State | Operations | Interacts with | Modelled in |
|---|---|---|---|---|
| Checkpoint tracker, `pkg/state/tracker.go` | `next`, `pending`, `ckpt`, `has`, `dirty` under one mutex | `Done`, `DoneBatch`, `TakeDirty`, `Redirty` | called by the sink's callbacks and by the committer | `Tracker`, `TrackerProofs` |
| Hyperloop, `pkg/hyperloop` | goroutines of a run, two contexts, `firstErr`, status | `Run`, publishers, committer, shutdown | owns all parts below | `Hyperloop`, `HyperloopProofs` |
| Dispatcher, `pkg/dispatch` | staging slices, bounded queues | `Run`, `flush`, `flushAll` | reads the source's channel, feeds the publishers | `Dispatcher` (refines `Router`), `DispatcherProofs` |
| MySQL source, `pkg/source/mysql` | `txnState`, cached schemas | `Start`, `resolveStart`, `handleEvent`, `commit`, `emitRows` | binlog stream; `information_schema` | `MysqlSource`, `MysqlSourceProofs` |
| Kafka sink, `pkg/publish/kafka` | sticky error, in-flight slots, wait group of pending batches | `PublishBatch`, promises, `Flush`, `Reset`, `Err` | shared by all publishers and all runs | `KafkaSink` (refines `SinkContract`), `KafkaSinkProofs`; per batch in `Hyperloop` |
| State stores, `pkg/state` | one position per hyperloop, in a file or a row | `Load`, `Save` | committer, final commit | `StateStore` (refines `Store`), `StateStoreProofs`; in `Hyperloop` a register |
| Manager, `pkg/server`, `cmd/nomios` | registered loops, one lifecycle each | boot, `Register`, `Start`, `Stop`, `StopAll`, restart loop | HTTP handlers, signals | `Manager`, `ManagerProofs` |
| Key codec, `pkg/dispatch`, `pkg/event` | none | `DefaultKey`, `KeyFromColumns` | source, dispatcher, sink | `Keys`, `RecordsProofs` |
| Serializer, `pkg/serialize` | none | `Serialize` | sink | `Serializer`, `RecordsProofs` |
| Configuration and table filter, `pkg/config`, `filter.go` | none | `Load`, `Build`, defaults, `match` | main, `POST /v1/hyperloops` | `Config`, `RecordsProofs` |
| The path of the data through the last three | one event at a time | map, key, route, serialize | | `Records`, `RecordsProofs` |
| Metrics | reporting only | | | not modelled (section 8) |

What is hard here: acknowledgements out of order; two cancellation levels and
two timeouts in one shutdown; a sink that outlives the run whose batches it still
holds; a position that means "the last *committed* transaction" although events
are emitted in the middle of one; a schema read from the live server for rows of
the past; a restart loop that shares its hyperloop with concurrent HTTP calls; a
store whose statements may be executed after their client gave up.
`PROJECT.json` lists these hazards with their lines and the properties about
them.

## 2. The modules

**Tracker.** The tracker of one run. Each method holds the mutex, so each is one
action; the loop of `advance` is the single step to the first missing SeqNo. A
position is a SeqNo and the coordinate stamped on it; a batch of positions is a
function. `reported` and `handed` are history: what was ever reported, and which
checkpoint the committer holds. `Done` is a batch of one.

**Hyperloop.** The pipeline over all its runs; it instantiates `Tracker` for the
tracker of the current run. Events are row numbers; `Base[r]` is the number of
rows covered by the coordinate row `r` is stamped with. `phase` is where `run()`
is: `select`, `drain` (first timeout pending), `hard` (second), `flush`,
`stopCommit`, `final`, `idle`. An in-flight batch remembers its run, because a
batch may be resolved when a later run is at work: `done` then reports to the
tracker of its own run (no effect on the current one), while a failure sets the
error of the *shared* sink. `stray` holds what publishers of an abandoned run may
still submit. `sinkErr` distinguishes real failures from `context.Canceled`,
because `fail` does. `late` is a save statement that outlived its client; the
server may execute it at any time (`LateSave`). `pick`, where keys hash to, is
chosen in the initial state. Simplifications: micro-batches of one event, the dispatcher
without staging (that is module Dispatcher), `starting` folded into `running`, a
batch resolved in one step (the steps are those of KafkaSink), a source that does not
reconnect within a run (that is module MysqlSource; a row it reads again gets a SeqNo
behind its first copy's, so its position is stored only once that copy is acknowledged
too).

**SinkContract** and **KafkaSink.** The contract is the comment on
`hyperloop.Sink`: `done` once, only for a batch that is durable as a whole; a batch
with a failed record is reported by a later call; `Flush` returns nil only when
every callback has returned. `KafkaSink` is the code, one step per shared-memory
operation: a call of `PublishBatch` takes its slot, adds itself to the wait group
and produces its records one after the other; each promise stores the failure, sets
the sticky error and counts down, and the last one frees the slot, calls `done` and
releases `Flush`, in three steps. Calls outlive the run that made them.

**Store** and **StateStore.** `Store` is one position that a successful `Save`
replaces and a failed one may replace then or later. `StateStore` is both
implementations: the file with its temporary twin, where a write can stop half-way,
and the row, reached over a connection that fails, is opened again and tried once
more. `late` holds the statements the server has yet to execute. A string of a
result is a view of a pooled buffer until it is cloned.

**Router** and **Dispatcher.** `Router` is the promise: each queue hands over the
events of its keys in the order sent, nothing lost, nothing twice. `Dispatcher`
is the code: `pc` walks through the select, the routing loop, `flush` and
`flushAll`, one channel operation per step. The refinement mapping says where owed
events are: queue, then staging, then the batch being routed, then the input.
`receives` counts hand-overs modulo 2, so that a dropped event is not mistaken for
one that was handed over. `Lane`, the events of a batch that belong to a queue, is a
recursive function in both modules, so that the mapping can be proved. The liveness
of `Router` holds while the dispatcher is not cancelled.

**MysqlSource.** The binlog is a sequence of entries whose index stands for the offset;
the server appends transactions, DDL and rotations. `handleEvent` is one action per
event type, `emitRows` two (table captured or filtered out). `saved` is the position a
restart resumes from, `last` the last batch sent. Marked external: the server's log,
its choice of what to send for a GTID set, and the library's reconnect. In GTID mode
the syncer goes back to the last transaction whose GTID event it saw (`heard`), whether
it is in the middle of it or has long passed its end; by file and offset it goes on
with the next event, which is no step. `read` is history: the furthest entry the run
has read. An entry's `match` is the outcome of the table filter. A schema is the number
of DDL statements behind it, plus one; a reload after a width mismatch is
nondeterministic, because DDL need not change the width. Whether the source follows by
GTID, and whether the server writes GTID events, is chosen in the initial state from
`Modes` and never changes.

**Manager.** Each accepted `Start` makes a lifecycle (goroutine, context, done
channel); `cur[id]` is the one the managed entry holds. `Run` is a step that
begins and ends; a Stop is two steps (cancel, wait), and any wait may time out.
A lifecycle that returned is `ended`, one whose restart budget is spent `gaveUp`: to
`Start` and `Stop` both are over, to `TypeOK` they differ.
`main` boots (registers and starts what the file defines), serves, stops all while
requests still come in, and exits; or it is killed by one of its `os.Exit(1)`.

**Keys**, **Serializer**, **Config**, **JsonReader** and **Records.** The first
three are operators named after the functions they translate: texts are sequences
of characters, escaping and sorting do what the code does, fixed field names are
one character. `JsonReader` is no part of the program: it is the consumer's side,
a reader of JSON. `Records` strings the operators together as the process does:
load, build, run, then for each change map and key it (`EmitRow`), route it
(`PickKey`) and serialize it (`Publish`), with the representation of values and the
order of map iterations chosen anew each time. `records` is history. `Letters` is the
set of column names as a sequence, in their order as strings; `SortStrings`
(`sort.Strings`, external) is any result that is sorted, and that there is exactly one
is proved. `Changes` are those of a period without DDL (`ChangesAssumption`): a table
has one schema, no column twice, and the values of a column one type. The last is
needed: a column that is changed from a number to text keeps the key of 12 for '12'.
Rows may be shorter or longer than the schema, as `mapRow` allows. A row without
columns and a missing one (a nil map) are both the empty sequence: `schema.go:139`
refuses a table that has no columns, so no row is empty.

`MC*.tla` hold the instances: rows and their transactions, transactions' bodies,
events and their queues, names.

## 3. Runs that pass

| Run | Checks | Shows |
|---|---|---|
| `Tracker` | `CheckpointIsHighestPrefix`, `PendingIsRest`, `DirtyUntilTaken`, `TypeOK` | 4 events, 2 coordinates, every order of reports and saves |
| `HyperloopRun` | `NeverDrops`, `LaneOrder`, `CleanStopSavesAll`, `BoundedShutdown`, `CheckpointIsSaved`, `ProduceFailureEndsRun`, `CapturedIsPublished`, `TypeOK` | one run, 2 rows, every assignment of keys to 2 queues, 1 slot, all failures, stop, both timeouts; batches in flight, those of a run that was given up included, stay within the slots (`TypeOK`); a stop ends `Run` although source, publishers and broker may hang; failed saves are retried; the watchdog works on an idle pipeline; channels and slots do not deadlock |
| `HyperloopRestarts` | `NoGap`, `SavedNeverRegresses` | 3 rows in 2 transactions, 2 runs, crash anywhere, abandoned goroutines, late answers of the first run, late save statements |
| `Dispatcher` | `ImplementsRouter`, `ImplementsLiveRouter`, `CloseFlushesAll`, `TypeOK` | events of one or two keys, full queues, timer, cancellation and end of input; a sparse queue is served while the input never pauses |
| `Source` | `ResumeNeverSkips`, `ResumeReplaysOnlyOwnTxn`, `IDsAreStable`, `SchemaNeverOlder`, `TypeOK` | reconnects to an open and to a completed transaction, DDL, rotations, filtered tables, restarts; by GTID, by file on a server with GTIDs, by file on one without |
| `Manager` | `OneRun`, `ExitAfterDrain`, `StopCompletes`, `TypeOK` | 2 hyperloops, boot, concurrent start, stop, failure, backoff, SIGTERM with requests after it; a failing lifecycle restarts exactly up to its budget (`TypeOK`) |
| `KafkaSink` | `ImplementsContract`, `FailureSurfaces`, `SlotsComeBack`, `TypeOK` | 2 calls of 2 records, 1 slot, 2 runs: records resolve in any order, contexts are cancelled, `Flush` and `Reset` come in between |
| `StateStore` | `ImplementsStore`, `LoadedIsStable`, `CallsReturn`, `TypeOK` | both stores, a crash at any step, lost answers, second attempts, late statements |
| `Records` | `KeysAreExact`, `PayloadReadsBack`, `ReplayIsIdentical`, `OwnStateIsNotCaptured`, `BuiltIsRunnable` | every pair of about 110 changes over three tables, under key overrides and filters, and one in each system schema; every case of `appendJSONString`; some 50 configuration files |

Each property has a mutant in `PROJECT.json`: a plausible slip in the code (a
forgotten delete, a missing wait, a dropped guard) under which TLC finds it
violated. An observation from one of them: the flush on closed input
(`dispatch.go:210`) cannot be told from returning at once, because the idle flush
has already emptied the staging slices; the mutant for `CloseFlushesAll` therefore
breaks `flushAll` itself.

### Bounds

- Rows and transactions: three rows in two transactions are the smallest log in
  which a checkpoint can be inside, before and behind a transaction.
  `HyperloopRun` has two rows, on the same queue or on different ones, which is what
  order within a lane, competition for the slot and liveness take.
- Capacities of 1 or 2 make every channel full at some time; `MaxInflight` 1 makes
  publishers compete for the slot, 2 lets batches be acknowledged out of order.
- `MaxRuns` 2: hazards between runs involve a run and its predecessor.
- Dispatcher: capacity 2 is the code's minimum (`dispatch.go:156`), `FlushSize` 2
  the smallest at which staging and flushing differ.
- `MaxLog` 10: after the DDL statement that is there at the start, the log holds two
  of the longest transactions, or a DDL statement, a rotation and a transaction;
  `MaxStarts` 2, `MaxDrops` 1.
- Manager: three lifecycles over two names, one restart each, with a backoff that is
  doubled beyond its cap; one HTTP stop.
- KafkaSink: two records are the smallest batch that can fail in part, two calls
  compete for one slot, and the second run resets the error of the first.
- StateStore: three positions and two crashes, so that a late statement of a dead
  process meets a newer position.
- Records: two records at a time, because the properties of keys and replays compare
  two; values hold each special character alone, `\N` spelled out, and separators at
  either end, which is where escapes run into each other.
- `CHECK_DEADLOCK FALSE` only where the system really stops: a closed or cancelled
  dispatcher, an exited process, a log at its bound.

### Fairness

- `run()`, timers and the committer are goroutines that are scheduled (WF). A
  `select` picks at random among ready cases, so one that is ready again and again
  is picked (SF for the committer's stop, the publisher's slot, the dispatcher's
  ticker).
- The store answers every save and accepts one of infinitely many. That it answers
  is `CallsReturn`, which rests on the socket deadlines.
- In `KafkaSink`, publishers and promises are scheduled and the producer resolves
  every record it accepted; only `SlotsComeBack` needs it.
- `BoundedShutdown` assumes nothing of source, publishers and broker.
- `CapturedIsPublished` and `ProduceFailureEndsRun` assume that the producer
  resolves every record.
- `StopCompletes` assumes that a cancelled `Run` returns, which is
  `BoundedShutdown`.

## 4. Where the code and its documentation differ

Three are runs that TLC must find violated, with the quoted line in `PROJECT.json`.

- `FindSilentWedge`: a record of the previous run is failed with
  `context.Canceled` after `Reset`. The shared sink keeps that error, `fail` ignores
  it each time it is polled, the publishers exit, and the run shows "running" for
  ever.
- `FindFreshStartGap`: a first run that fails before it saved a position is not
  replayed; the next starts at the end of the log.
- `FindSavepoint`: a SAVEPOINT is taken for the end of its transaction; a resume
  skips the rest of it.

Smaller ones, read off the same actions and without a run of their own:

- a batch of the previous run that fails with a real error after `Reset` fails the
  new run (`hyperloop.go:215`, `Nack`);
- after a crash everything since the last periodic save is replayed, not only the
  in-progress transaction (`README.md:106`, `Crash`);
- a publish batch may exceed `BatchMaxSize`, "the max events a publisher drains"
  (`hyperloop.go:71`), by a micro-batch, as the comment on `drainBatch` says; the model
  has micro-batches of one event;
- a start request during `StopAll` begins a run that is still running when the
  process exits (`server.go:143`, `main.go:83`; `Start` with `main` stopping);
- a save that timed out may be executed after a later one and move the stored
  position back; the next start then replays more (`mysqlstore.go:119`, `LateSave`);
- `TableSchema.PK` is in column order, not "in key order" (`schema.go:29`): `load`
  orders by ORDINAL_POSITION. Keys stay stable;
- a restart does not reset the published counter (`metrics.go:90`): the hyperloop
  object outlives its runs;
- one full queue blocks the dispatcher, not only all of them (`dispatch.go:7`,
  `SendStaged`);
- a cancelled dispatcher returns without flushing what it staged; those events are
  unacknowledged and are replayed (`dispatch.go:196`, `CtxDone`);
- `Run` is called `MaxRestarts + 1` times, not `MaxRestarts` (`server.go:36`,
  `RunFails`);
- on a server that has executed nothing, positions of the first transaction are the
  zero `Position` and look like "no position" (`source.go:138`, `resolveStart`).

Run `Source` uses transactions without savepoints and a server that has executed
something (`PreBody`): `ResumeNeverSkips` needs both. `ExitAfterDrain` is about the
hyperloops that were running at the signal. `ResumeNeverSkips` is about the rows the
run had not read before the event: after a reconnect to a completed transaction its rows
are sent a second time, with positions that are already past them.

## 5. What is proved

Every safety property of the passing runs, except `PayloadReadsBack`, is a theorem, for
every value of the constants; `PROJECT.json` lists which theorem states which
property. The assumptions are the ASSUMEs of the modules, which TLC evaluates on
every run: bounds are natural numbers (capacities at least 1), the set of batches is
finite, hash functions map to queues; for `Hyperloop`, `RowsAssumption`: the rows of
one transaction share the coordinate of the transaction before it; and for `Records`,
`FilesAssumption` (sizes are integers, key overrides lists of names),
`LettersAssumption` and `ChangesAssumption` (section 2). Three
theorems of `MysqlSource` have hypotheses of their own, see below.

**TrackerProofs.** The inductive invariant is the conjunction `Inv` of the four
properties. None of them can do without the others: where `advance` stops depends on
`pending`, so that the checkpoint is the *highest* prefix follows only if `pending`
is known to hold every report beyond it, and that in turn needs the position of
`next`. `ReportBatchInv` is the heart: it names the `n` at which `advance` stops,
shows that the map it walked holds exactly the reports from `next` on, and derives
each conjunct for the new state.

**HyperloopProofs.** That the slots bound the batches in flight is counting: the set of
batches is finite (`BatchesFinite`), and a submission adds one where there was room
(`SlotTaken`). `NoGap` speaks of the saved coordinate alone. What carries it
through is `AllSettled`: *every* coordinate that is in the store or may still get
there (the start, the one the committer holds, a late statement's) covers only rows
that are on the topic, and lies between transactions. `Tracked` ties the run's
tracker to this: an acknowledged SeqNo is of a durable row and the checkpoint is the
end of the acknowledged prefix; it rests on `Pipe` and `Sourced`, which say whose rows
are in the pipeline. `Committing` and `Forward` give `SavedNeverRegresses`: the
committer has ended before the final commit, and what is saved next is not before
what is in the store, unless a statement outlived its client. `Draining` and
`Flushed` give `CleanStopSavesAll`: as long as nothing failed the stages end in order,
each drained, so that a `Flush` that returned nil leaves no event unacknowledged.
`Lanes` is what `LaneOrder` needs: each stage is ascending, each row of a later stage
is before those of an earlier one, a queue holds only rows that hash to it, and what
has left a lane is before what is left in it.

**DispatcherProofs.** `Staged` says that only the slice that is being flushed may be
full, so that there is room for the next event; `Ending` that `flushAll` has emptied
the slices before `idx`; `Idle` that `Run` never waits for input with events of a
batch left to route, which `Receive` would overwrite. The refinement of `Router` is
then algebra of sequences: a batch sent is appended to what each queue owes
(`OwedSend`), a micro-batch received is its beginning (`OwedHand`), and receiving,
routing and flushing move an event along without moving it past another of its queue
(`OwedStage`, `OwedFlush`). This rests on lemmas about the two recursive operators,
`FlattenSeq` and `Lane` (`FlatAppend`, `FlatHead`, `LaneConcat`).

**MysqlSourceProofs.** `Inv` holds of any log: types, offsets within the log, and a
cached schema at least as new as the next row's (`Cached`), which is
`SchemaNeverOlder`. The other three are theorems about logs of whole transactions:
`WholeTransactions` says that a body ends with what commits it and that nothing inside
it does. Without it they are false, as `FindSavepoint` shows; the bodies of run
`Source` satisfy it. Their invariant `Whole` says what the log looks like (`WholeLog`),
that the committed position marks the transaction that is open after the furthest entry
read (`Read`: a reconnect takes the cursor back, never the executed set), that the
positions of the last batch and of the store mark one too (`Sent`, `Stored`), that the
source knows the GTID of the open transaction and how many rows of it came before,
filtered ones included (`Counted`), and that an ID denotes the rank of its row
(`Named`). `ResumesNeverSkip` needs in addition that the server had executed something
before the first start (`PreBody` is not empty): otherwise the first position is the
zero `Position` (section 4, `source.go:138`). `Begun` carries that.

**ManagerProofs.** `OneRun` is inductive with the types, which say that a lifecycle
gives up with its budget spent and not before; `ExitAfterDrain` needs
`Draining`: from the signal on, each lifecycle that was there has ended, or is still
to be stopped, or is waited for, or a wait was given up.

**KafkaSinkProofs.** `Counted` and `Judged` describe one call: the atomic counter is
the number of promises that have not counted down, exactly one of them sees it reach
0, and what that one does follows from the failure mark, which every failed record has
set by then. `Balanced` says that semaphore and wait group count the calls that hold
them; `Flushing` that the calls of the run are over once `Flush` has waited. The
refinement of `SinkContract` follows step by step.

**StateStoreProofs.** `OnlyHanded` (what is stored, or may still be, was handed to
`Save`, and the temporary file is whole when it is renamed), `CallShape` and `Cloned`
(what `Load` returned is no view of the pooled buffer) suffice for `LoadedIsStable`
and for the refinement of `Store`.

**RecordsProofs.** `Inv` says that what is configured is what `Build` made of a file
(`Configured`), that the event under way is the one of its change (`UnderWay`), and
that each record is one a captured change can become under the configured keys
(`Recorded`). `OwnStateIsNotCaptured` and `BuiltIsRunnable` follow directly; the other
two are about what the operators compute, for texts and rows of any length.
`ReplayIsIdentical`: `Normalize` gives one value for both representations
(`NormalizeForgets`), `insertionSort` puts any order of a map's keys into an ascending
list of the same keys (`SortLists`), and there is only one such list (`ListsUnique`).
`KeysAreExact`: a key is the table and then, for each column, a bar and a *word*, a
text whose bars are all escaped and which leaves no escape open. `Scan` follows the
escapes through a text; it is determined by the text (`ScansAgree`), so that of two
ways to cut a key neither can end a word before the other does (`LastSeparator`), and a
key has one sequence of words (`JoinedInjective`). What is written for a value is a
word (`ValueWord`) and tells the value (`ValueInjective`): escaping is injective, no
text is escaped to `\N`, digits are read back by division (`DecimalInjective`), and a
number or text never looks like NULL. Without named columns the key has as many words
as the row has columns; since the columns of a row are the first ones of the schema
(`PresentNested`), two rows with equal keys have the same columns.

Induction over numbers, sums and sequences is reduced to `SetInduction` and
`LeastElement`, which are stated of *sets* of numbers, by naming the set for which the
claim holds; three of the modules state them.

One thing the proofs brought up in the model: a CASE whose conditions overlap is read by
TLC from the top, but denotes any of the values. `Normalize` had one (a NULL in a JSON
column); the values that no kind converts are told apart first now.

## 6. What is only model-checked

- Liveness, since fairness and ENABLED are beyond the prover: `BoundedShutdown`,
  `ProduceFailureEndsRun`, `CapturedIsPublished`, `CheckpointIsSaved`,
  `ImplementsLiveRouter`, `StopCompletes`, `SlotsComeBack`, `CallsReturn`.
- `PayloadReadsBack`. Its reader is one recursive function over four modes and all
  positions of a text, and a payload embeds the documents of JSON columns as they are:
  the claim for every text would be one about a JSON grammar, which the model does not
  contain (`Base64` and `HexDigits` are tables of the characters that occur in the run).

The theorems are safety properties, and they are about the models: bounds on runs,
restarts and log entries are constants of any value, but fairness, and so everything
that must eventually happen, is TLC's on the instances of section 3.

## 7. Plan

A grammar of JSON texts, of which `appendValue` and `ReadJSON` could be shown to be
inverse to each other. `Changes` with DDL in between, joined to the schemas of
`MysqlSource`. Beyond that, shorter proofs of what is proved.

## 8. Not modelled

Metrics, `Status()`, `Depths()`, `recordLastEvent`, readiness, logging: they report
and nothing depends on them. YAML decoding, HTTP bodies, topic names, floats and
times in rows, and the value of the hash: conversions by libraries, or pure
functions whose result no property tells apart. The check of the server's variables
at startup is a failure of the source. Durations: any timer may fire at any time,
so nothing is said about 60 seconds against two or three times 30. Anonymous GTID
events of a server with `gtid_mode=OFF`: what the library makes of them is not
visible in the repository; run `Source` assumes that such a log has no GTID events.
Purged binlogs, failover to another server, power failures.

Met on the way and outside the model: `FileStore` renames without fsync; `gtid_set`
is a TEXT column of 64 KiB; offsets are 32 bits wide; `Build` does not close the
Kafka client when the store cannot be opened, nor does `POST /v1/hyperloops` when
the ID is taken; bytes that are not UTF-8 pass through the serializer unchanged; the
schema cache's key "db.table" is ambiguous for names with dots; a `Flush` that timed
out leaves a goroutine in `pending.Wait`, which a late `Add` of an abandoned
publisher may meet.
