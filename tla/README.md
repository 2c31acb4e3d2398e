# A TLA+ model of timescale-prometheus

The connector receives Prometheus remote-write requests over HTTP and stores
them in TimescaleDB, and answers PromQL queries from it. This directory models
its stateful parts in TLA+, checks them with TLC on small instances and proves
the central safety properties with TLAPS for every instance.

## 1. Parts and how they interact

| Part | Source | Modules | What is hard |
|---|---|---|---|
| Write pipeline | `pkg/pgmodel/sql_ingest.go`, `sql_utils.go` | `Ingest`, `WriteService` | answers from three kinds of goroutine, reuse of buffers, retry after decompression, channels that get closed |
| Metric completion | `sql_ingest.go`, `base.sql` `finalize_metric_creation` | `Ingest` | dropped signals, crash between creation and completion |
| Write handler, ingestor, labels | `pkg/api/write.go`, `ingestor.go`, `insert_ctx.go`, `labels.go` | `WriteRequests` | memory of a request is reused while its samples are in flight |
| Wire format | `pkg/prompb/types.pb.go`, `remote.pb.go` | `WireFormat` | lengths, varints, cut bodies, reused slices |
| Leader election | `pkg/util/lock.go`, `election.go`, `cmd/.../main.go` | `AdvisoryLock`, `Election`, `Leadership` | lost sessions, check then act, two tickers |
| Migration | `migrate.go` | `MigrationScripts`, `Migration` | version read outside the transaction, crash, two connectors |
| Clock cache | `pkg/clockcache/cache.go` | `ClockCache`, `ForgetfulMap` | readers mark while the evictor sweeps |
| Reader | `sql_reader.go`, `series_set.go`, `querier.go` | `ReadPath` | connections held while more are needed, errors of rows |
| Query builder | `query_builder.go`, `labels.go` | `QueryBuilder` | anchors, empty matches, parameter numbers, times |
| PromQL engine | `pkg/promql/` | `SeriesIterators`, `PromVectors`, `Evaluator`, `PromQL` | one pass over buffered points, time ranges, subqueries, pushdown |
| Database extension | `extension/src/lib.rs` | `Gapfill` | windows filled from points in order |

`api.Write` asks the elector whether this instance may write, decodes the
request into pooled memory and calls `Ingest`, which groups samples by metric
and calls `InsertData`. The pipeline shares the metric name cache with the
reader and the database with everything else. The engine asks the reader for
series, which looks labels up in the clock cache and leaves `delta` to the
extension where it is installed. `main` starts the elector, migrates, and then
builds the client, whose constructor completes metrics an earlier process left.

Some modules stand for others: `WriteRequests` hands its data to an inserter
that stores them at any later time, as `WriteService` and asynchronous acks
allow; the label cache of `ReadPath` is a `ForgetfulMap`; the stored series of
`Evaluator` are what `ReadIsExact` says a query gets.

`PROJECT.json` lists every component, every hazard at its line, and for every
definition the lines it models.

## 2. Overview of runs and proofs

| Run | Configuration | Distinct states |
|---|---|---|
| `ingest`, `ingest_live`, `ingest_async` | section 3 | 794 061, 155 995, 212 983 |
| `election`, `election_live` | section 4 | 1 873 439, 10 545 |
| `election_silent`, `election_paused`, `election_leak` | section 4, each finds a violation | |
| `cache` | section 5 | 498 582 |
| `migration` | section 6 | 145 241 |
| `requests` | section 7 | 13 396 |
| `queries` | section 8 | 210 379 |

Proved for every value of the constants: all safety properties of the write
pipeline, the election, the clock cache, the migration and the read path, and
that pipeline, election and cache implement their abstract specifications.

Only model-checked:

* liveness (`EveryCallReturns`, `CreatedIsCompleted`, `AnotherLeads`,
  `StaleLeaderStepsDown`, `InsertLockIsReleased`, `MigrationEnds`,
  `EveryQueryEnds`): fairness and ENABLED are outside the prover's reach;
* section 7 and `EvaluatesAsDefined` of section 8. The wire format and the
  evaluator descend into messages and expressions with recursive operators, in
  whose presence the prover loses its arithmetic.

The library's induction principles take a predicate as a parameter, which the
provers cannot instantiate. Where a proof needs induction over a list (the
clauses of a query, the scripts in their order, the replacements of a text) the
recursion is a function over `0..n`, and the argument takes the least place at
which the claim would fail (`LeastNatural`).

## 3. The write pipeline

### Modules

| Module | Content |
|---|---|
| `WriteService` | what `InsertData` promises: rows of one metric become durable together, only while their call is open; success means all rows are durable; an error promises nothing |
| `Ingest` | the pipeline of `sql_ingest.go` |
| `MCIngest` | instances for TLC, with three configurations |
| `IngestInvariant` | the inductive invariant and lemmas about frames and counting |
| `IngestRoutines`, `IngestCopiers` | one lemma per action of the routines and the copiers: it preserves the invariant |
| `IngestProofs` | the lemmas of callers, worker and process, and the theorems |

### State and actions

A request `<<c, m>>` stands for the rows of call `c` for metric `m`. Samples and
labels are abstracted: `Size[r]` is the number of `samplesInfo` of a request,
`Labels[r]` its label sets, `batch[b]` the requests whose rows are in a buffer.

* **Callers.** `InsertData`, `GetMetricInserter`, `Enqueue` (blocks on a full
  channel), `Wait`, `Collect`. The order of metrics is any order, as Go's map
  iteration is. With `AsyncAcks` the waiting part is the background goroutine
  and `ReturnAsync` is the call's own return. It reads `err` while the goroutine
  may write it, so what it sees is a nondeterministic choice.
* **Routines.** `LookupName`, `CreateMetric`, `SignalWorker`, `CreateFailed`,
  the failure loop (`FailRequest`, `FailRequestDone`), the receive loop
  (`HandleReq`, `HotReceiveEnds`), the flush (`SetSeriesIds`, `FlushPending`)
  and the report of a failed flush (`ReportSend`, `ReportDone`, `ReportEnd`).
  `hot` says whether the routine is in its non-blocking loop.
* **Copiers.** `TakeCopyRequest`, `DoInsert`, `TryRecovery`, and the report
  (`CopierSend`, `CopierDone`, `CopierEnd`). A send on an error channel and the
  `Done` after it are separate steps, so another goroutine can come in between.
* **Worker.** `WorkerReceive`, `FinalizeOpen`, `FinalizeMetric`, `FinalizeEnd`:
  one transaction per metric, over the metrics that were incomplete when the
  procedure's cursor was opened.
* **Process.** `Startup`, `Crash`, `Close`, and `Panic`: a send on a channel
  that `Close` has closed ends the process.
* **Database failures** are an action's failing alternative, named by kind:
  `create` and `lostCreate` (the metric was created and only the reply lost),
  `series`, `insert` (the rows may be stored all the same), `compressed`,
  `decompress`, `finalize`. A failed series batch leaves any part of the new
  ids in the cache, because the code caches an id when it reads it.

Left out: `createMetricTable` and `getMetricTableName` of `pgxInserter`, which
nothing calls; metrics and log lines; the counter of asynchronous throughput; a
failure of the metric name cache other than a missing entry, and its eviction;
duplicates, which `ON CONFLICT DO NOTHING` turns into success.

### Properties

* `WaitGroupExact`: a call's WaitGroup counts exactly its requests that are
  unanswered anywhere in the pipeline.
* `NoSendOnClosedChannel`: no error channel is closed while somebody may send on
  it; with synchronous acks nobody sends on a channel that `Close` closed. With
  asynchronous acks that second half does not hold and is not claimed: a call
  may return, and the inserter be closed, while a routine is about to send.
* `SuccessMeansStored`: no error found means every row is in the database.
* `BufferHasOneOwner`, `RowsReachTheirTable`, `BatchPosition`: buffers are not
  shared and carry nothing over; copiers insert rows of their metric, with
  resolved ids, from the start of the batch, also on a retry.
* `BlockedRoutineOwesNothing`: a routine that goes to sleep strands nobody.
* `ImplementsWriteService`: all of this refines the abstract service.
* `EveryCallReturns`, `CreatedIsCompleted`: liveness.

### Runs

| Run | Configuration | Distinct states | Shows |
|---|---|---|---|
| `ingest` | 2 calls, 2 metrics (one shared), 1 copier, 2 failures | 794 061 | all safety properties and the refinement, synchronous acks |
| `ingest_live` | 1 call, 2 metrics, 1 failed creation, 1 crash | 155 995 | both liveness properties |
| `ingest_async` | 2 calls, 1 metric, batches of two, 1 failure of any kind | 212 983 | accounting and liveness, asynchronous acks |

Bounds. Two calls on one metric meet in a channel, in a buffer and at the flush
size; the second metric gives a call two answers, one of which can fail, and
creates the race for the signal. Two failures let a recovery fail after a failed
insert, and let two places report to the same one-slot error channel. All
channel capacities are 1, so every one of them fills. There is a buffer for each
metric, each place in the channel and each copier, so that the pool, which
allocates on demand in the code, never runs out. The buffers are interchangeable
and form a symmetry set, in the run without liveness only.

Fairness. Goroutines are scheduled and every database call ends, so `Startup`,
`Caller`, `Routine`, `Copier` and `Worker` are weakly fair, one by one. New
calls, queries, crashes and `Close` owe nothing. Strong fairness is not needed:
`Enqueue` is never disabled by another caller for ever, since a routine empties
its channel and there are finitely many calls.

`CreatedIsCompleted` is checked without the failures `lostCreate` and
`finalize`. After these the code leaves a metric incomplete until the next
signal or restart; both are listed as hazards.

### Proofs

Assumed is only `ConstantsAssumption`: finitely many metrics, requests that hold
at least one `samplesInfo`, positive capacities. The sets of calls, copiers and
buffers may be infinite and the bounds on failures and crashes any number.

`WaitGroupExact` is not inductive: that an answer decrements the right counter
needs to know that a request is in one place only. The invariant `IInv` of
`IngestInvariant` adds

* `Places`: channels and buffers repeat nothing, and the four places of an
  outstanding request (unsent, queued, failing, buffered) are disjoint;
* `CallInv`, `RoutineOK`, `BufferOK`, `ChannelOK`, `CopierOK`: what the
  program counters say about the data, such as that a routine in its blocking
  receive has an empty buffer, or that a buffer on its way to a copier holds
  only rows of requests that still wait;
* `AnswerInv`: an answered request of an open call is stored or the call's error
  channel is full. This is what `SuccessMeansStored` rests on;
* `CloseInv`: with synchronous acks `Close` finds every call answered.

`IngestProofs` derives `InductiveInvariant`, from it `TypeCorrect`,
`WaitGroupsAreExact`, `SuccessIsDurable`, `BuffersAreNotShared`,
`ChannelsAreOpen`, `CopiersAreSound`, `BatchesAreWhole`,
`BlockedRoutinesOweNothing`, and then
`PipelineImplementsWriteService`: `DoInsert` is `Store`, `Collect` is `Succeed`
or `Fail`, `Die` is `Lose`, everything else stutters.

Only model-checked: the two liveness properties, since fairness and ENABLED are
outside the prover's reach.

## 4. Leader election

### Modules

| Module | Content |
|---|---|
| `Leadership` | what a group is promised: one leader, and a new one only after the old one lost or gave up the lock |
| `AdvisoryLock` | `pkg/util/lock.go` over the session locks of the database |
| `Election` | `pkg/util/election.go`, start-up in `main.go`, the leader check of `pkg/api/write.go` |
| `MCElection` | instances for TLC, with five configurations |
| `ElectionProofs` | the theorems |

### State and actions

The database knows the `holder` of the lock: an instance's session, nobody, or an
`Orphan`, a session whose client is gone and which the server has not ended yet.
An instance has `conn` (nil, live, or a pointer to a lost session), `obtained`
and the `mutex`. `TryLock` and `Release` hold the mutex while they talk to the
database, so each is one step; a session may be lost during it, before or after
the database decided. Their callers run in goroutines of their own and act on
the answer later: the election ticker (`ElectTick`, `ElectCheck`,
`ElectBecome`), the liveness check (`LivenessTick`, `LivenessLeader`,
`LivenessPause`, `LivenessResign`), the write handler (`WriteCheck`,
`WriteBody`) and start-up (`Start`, `MigrateCheck`, `MigrateCheckFails`,
`MigrateDone`). `lastRequest` and `metricsLast` are the two copies of the time
of the last request. `Crash` ends a process anywhere, `Disconnect` a session,
`Reap` is the server that notices.

Left out: `Close` and `Locked`, which only tests call; a query that fails while
its session lives on; the leader gauge; the REST election, a flag that somebody
else sets. A clock that is set back, the only way the election could be resumed
in one process, is left out too.

### Runs

| Run | Configuration | Shows |
|---|---|---|
| `election` | 2 instances, timeout 1, clock to 2, 2 faults; 1 873 439 distinct states up to symmetry | `LeaderHoldsLock`, `ObtainedHasConnection`, `LeakedDoesNotLead`, the refinement `ImplementsLeadership` |
| `election_live` | 2 instances, no timeout, 3 faults; 10 545 distinct states | `AnotherLeads`, `StaleLeaderStepsDown` |
| `election_silent` | 1 instance, no fault | violates `ResignsOnlyWhenSilent`: the liveness check reads the copy nobody updates |
| `election_paused` | 1 instance, no fault | violates `PausedStaysOut`: `IsLeader` takes the lock |
| `election_leak` | 2 instances, timeout 1, 2 faults, no requests | violates `RunningGroupHasLeader`: `Release` returns with the mutex locked |

Bounds. Two instances compete for the lock, and a third adds nobody with another
role. Timeout 1 and a clock to 2 give elapsed times below, at and above the
timeout. Two faults lose the session of the leader and then that of its
successor, or lose a session while a mutex leaks. Deadlock is not checked in
`election` and `election_leak`: with all mutexes leaked the group really stops.

Fairness. Tickers fire again and queries end, so `Ticker` and `Liveness` are
weakly fair for each instance, and so is `Server`, since a server does notice
dead sessions. Requests, starts of processes and faults owe nothing, which is
why `AnotherLeads` excuses a group whose instances are all down.

### Proofs

Assumed are `LockAssumption` (the two special holders are different and no
instances) and `TimeAssumption`. `IInv` is the conjunction of the type invariant,
the three safety properties and `StartedInThePast`, which the type of `elapsed`
needs. `LeaderHoldsLock` is an equivalence since both directions matter: from left
to right there is one leader at most, and from right to left nobody has the lock
without knowing it. `TryLockInv`, `ReleaseInv` and
`EnvironmentInv` show that the lock's operations preserve the lock's part, and
every action of `Election` is one of them or leaves the lock alone. For
`ElectionImplementsLeadership`, `HolderStep` says that an instance gets the lock
only when it was free. Only model-checked: the two liveness properties.

## 5. The clock cache

### Modules and state

`ForgetfulMap` is what callers rely on: a map that never changes the value of a
key it holds, and forgets a key only to make room for another one when it is
full. `ClockCache` is `cache.go`. A pointer to an element is the index of its
slot, since `storage` and `elements` are only replaced together.

Writers (`BeginInsert`, `InsertPresent`, `InsertTouch`, `InsertAbsent`,
`Append_`, `Sweep`, `Starve`, `Replace`, `EndInsert`; `BeginExpand`,
`ExpandCopy`, `ExpandSwap`) hold `insertLock`. Readers (`BeginGet`, `GetMiss`,
`GetHit`, `GetMark`, `EndGet`; `BeginUnmark`, `EndUnmark`) hold the read side of
`elementsLock`, so a writer that needs the write side waits for `NoReaders`,
and lets no new reader in while it waits, as `sync.RWMutex` does. Each atomic
load, store and swap of a mark is a step of its own. `remarked` is a history
variable: the slots that readers marked since the present sweep began.

`evict` stores its loop index as the new hand although that index counts from
the old one. `HandAfter` says the same: the hand jumps backwards, which costs
fairness between the slots and no correctness. A second insertion of a key
stores its mark only if it is already set (`!= 0`, line 83), against the comment
above it; `InsertPresent` follows the code.

### Run `cache`

Three keys, two values, capacities 0 to 2 that may grow, two writers, two
readers, batches of one and two. A full cache with a key too many is what
eviction needs; two readers can mark both slots again during one sweep, which
starves the evictor; capacity 0 is the sweep over nothing. `InsertLockIsReleased`
needs only that calls which have begun go on (`WriterStep`, `ReaderStep` weakly
fair): sweeps are bounded, and readers that come later cannot keep a writer out.

### Proofs (`ClockCacheProofs`)

Assumed is `CacheAssumption` (what batches are made of, `Absent` is no value).
`OneSlotPerKey` needs to know what a writer between two steps has found out: that
its key is still absent, that its victim's slot is still there, that what it
copied is still the content. The invariant `IInv` adds

* `WriterInv`: per program counter what the writer may rely on (`Deciding`,
  `Answering`, `Copying`), which holds since a writer works alone;
* `Sweeping`: a slot the sweep has passed is marked only if it is in `remarked`,
  and one it has passed twice is in `remarked`. At the end of two rounds that is
  every slot, which is `GivesUpOnlyWhenStarved`;
* `ReaderInv`: what a reader has collected is still the content (`Looking`,
  `Collecting`), which holds since only a writer that waited for `NoReaders`
  changes entries. Steps that change marks only are `SameEntries`.

From it follow `CacheTypes`, `MapAndSlotsAgree`, `BatchesLineUp`,
`AnswersAreCanonical`, `EvictFailsOnlyWhenStarved`, and `CacheIsAForgetfulMap`:
`Append_` is `Add`, `Replace` is `Displace`, `ExpandSwap` is `Grow`, everything
else stutters.

## 6. Migration

### Modules and state

`MigrationScripts` holds the pure part of `migrate.go`: the order of versions
with their pre-release parts, the listing of a directory by numbered prefixes or
by its table of contents, the scripts in `(from, to]` oldest first, and the
replacement of schema placeholders, one of which is a prefix of another.
`Migration` is `Migrate`, run by several connectors on one database:
`EnsureVersionTable`, `GetDBVersion` (outside any transaction; an error that
shows only in the rows is dropped and reads as no version), `ExecMigrationFile`
one script at a time, `Commit`, `InstallExtension`. `CommitLost` commits and
loses the answer; `Fail` is a failed statement or the end of the process.

External: the first script of a transaction that changes the schema waits until
no other transaction has done so (`schemaLock`), as the locks of the database on
the version table and the catalog make it. A script that cannot be repeated
fails where it was applied. Which scripts can be repeated is a choice at the
start (`rerunnable`). Of the preinstall scripts `001-users.sql` and
`002-schemas.sql` can, `003-tables.sql` cannot. `base.sql` line 967 creates a
procedure without `OR REPLACE`, although `migrations/Readme.md` line 9 calls the
directory idempotent. With the shipped script every restart of a development
version, and every upgrade that gets so far, fails there. A version script may be
of either kind.

### Run `migration`

Two connectors, four starts, two faults, four versions of which two are
development versions, scripts numbered 2 and 10 in one directory. Four starts
allow an installation, an upgrade in two steps and a repetition, or races at
each; releases are not mixed while connectors run (`MixedReleases`), because
with different releases at once an older connector may end while a newer one
has moved the schema on, which `Migrate` does not try to prevent. Every step of
a call is strongly fair: databases serve waiting transactions in turn.
`CHECK_DEADLOCK FALSE`, as the run ends when no starts are left.

`SchemaMatchesVersion` compares everything the schema went through with its
version. The scripts that are not idempotent must be the preinstall scripts, by
their numbers, and the version scripts above the version of the installation up
to the present one, oldest first; only what can be repeated may be there twice;
and the last scripts of all must be the table of contents, in its order. Twice is
not excluded: of two connectors that read the same version, the slower one runs
the whole upgrade again when nothing in it fails on repetition, since the version
is not read again inside the transaction. `OnlyStaleIsRefused` says when a script
may fail at all: at a connector that acts on a version which is no longer, or
never was, that of the database (another connector was faster, or an error of
the rows hid it), or because it is an idempotent script that cannot be repeated.
So no script is due that the schema has, none is planned twice, and no
placeholder is left in one. The second exception is what line 967 of the shipped
`base.sql` needs: the property does not call that failure an error, and
`SchemaMatchesVersion` and `MigrationEnds` show that it does no harm beside it.

### Proofs (`MigrationProofs`)

Assumed is `MigrationAssumption`: the numbers of the preinstall scripts are
different (`sort.Sort` is not stable, so equal ones have no order), the table of
contents names a script once, version scripts are finitely many and have a
version, no script is in two directories, texts use known placeholders, the
extension is created so that it can be repeated, and some
preinstall script cannot be repeated. The last is needed: where an error of the
rows makes the version read as missing, that script alone keeps a connector from
installing over what is there. The shipped files are like that, and TLC evaluates
the assumption on the run's. The theorems about `Migrate` assume that releases
are not mixed.

* `OwnSchemaIsServed`. `ServesItsOwnSchema` is not inductive, since the version
  was read earlier: `MInv` adds that all running connectors have one release
  (`OneRelease`) and that a transaction which will set no version found its own
  one, and it still stands (`FoundItsOwn`). Whoever commits in between leaves
  the same version behind.
* `VersionOrder`: the order of versions is strict and total. Two pre-releases
  that differ have a first place where they do, or one continues the other. It
  is what makes the order of upgrade scripts one order (`InOrderArranges`).
* `NoneUnresolved`: no replacement destroys the placeholder of a later one. A
  placeholder that begins with another one is replaced first (`NoPrefix`), so
  `ReplaceStep` leaves a text in which those up to the present one are
  schemas and the others are untouched.
* `SchemaIsAsVersioned`, from `SInv`. Besides the property it says of every call that what it has run and what is left are
  together what it planned (`WorksOff`); that the version an upgrade starts from
  is still there, or its own one, when another connector was faster
  (`StartsFrom`); and that a transaction which has changed the schema has
  the lock, and did nothing that was done before unless it can be repeated
  (`Alone`). The last is what a commit needs. An installation has run a script
  that cannot be repeated, so the schema was empty (`InstallationBuilds`). An
  upgrade finds the schema of the version it read, or that of the faster
  connector, and then all that was due can be repeated (`UpgradeBuilds`). What
  sets no version adds the idempotent scripts only (`RefreshKeeps`). In each case
  the first occurrences stay in order (`Appended`).
* `RefusalsAreExplained`, from `SInv` too. Only the step that runs a script
  refuses it (`OnlyExecRefuses`), and then it was applied, by others or in
  this transaction (`RefusedNext`). What cannot be repeated is in a plan once and
  because it was due from the version that was read (`PlannedOnce`), and what is
  due from a version is not in the schema of that version (`RefusedIsStale`).

## 7. Requests

`WireFormat` is the generated code of `prompb`: `Size`, `Marshal` and
`Unmarshal` of 14 messages as one codec over tables of their fields. Bytes are
numbers, a double is its eight bytes, words have `WordBits` bits with
overflow (24 in the run; TLC's integers end at 32). Repeated fields of
`TimeSeries` and `WriteRequest` are slices with a length and an array whose
rest is reused. Skipped fields, unknown fields and every error return are in it.

`WriteRequests` is the way of a request: `Write` (decode into a pooled object),
`ParseData` (check, intern, group by metric, take the samples along, put the
object back), `Respond`, `Store` (the inserter is done with the data), `Collect`
(`sync.Pool` forgets). Arrays of samples have identities and contents in
`heap`, so that two owners of one array show. Decompression is left out.

Run `requests`: two handlers and two request objects, four messages (two
series, a series without samples, one without a metric name, one too long),
and of the first every prefix that can be decoded and one that cannot. `DecodedAsSent` and
`DataStayAsSent` are about memory that is reused; `WireRoundTrip` marshals and
reads 134 messages of all types, at the ends of their ranges, and cuts
each at every byte. Handlers and request objects are interchangeable.

## 8. Queries

### Modules and state

`QueryBuilder` is pure: matchers to clauses (`AddMatcher`, `anchorValue`,
`fillInParameters`), what the SQL selects (external), and the conversions of
times. Strings are sequences of characters; a regular expression is a sequence
of alternatives, each a literal or `.*` with or without anchors.

`ReadPath` is `pgxQuerier`: `Begin`, `Catalog`, `TableName`, `OpenRowsOf`,
`NextRow`, `Row`, `Finish`, `List`, `Cancel`. Every open result holds a
connection of the pool (`free`), and labels are fetched over another one.
`labelCache` maps ids to labels (a label serves as its own id): `Row` takes what
is cached in any order, puts behind it what the database answers in its own
order (`getLabelsForIds`), and caches a prefix of the answer (`InsertBatch`).
`Forget` is eviction from either cache; both are clock caches. Faults are a failed query, rows that end
in an error, a row that cannot be read, and a context that ends. Where the code
does not ask for the error of its rows, the query goes on with what it has, and
a ghost field `cut` remembers it; the same when `At` clears an error that `Next`
recorded for an earlier result.

`SeriesIterators` has the iterators, Prometheus' buffer (external) and the two
ways of taking points from it; `PromVectors` the vectors of one step (binary
operators and matching, aggregations, functions of ranges); `Gapfill` the
aggregate `prom_delta`; `Evaluator` the time range of a query, the order in
which selectors are populated, pushdown, and `eval`. `PromQL` says what an
expression means at one time, from all that is stored and without iterators or
ranges, and has the engine's one action `Exec`. Values are integers with NaN and
the staleness marker, scaled so that extrapolation divides exactly.

### Run `queries`

`MCQueries` is two models side by side: a state belongs to one or the other.

* Two queries, the first any of eleven requests and the second one of the two
  that hold most connections or fill the caches (remote reads and `Select`, with one and
  several metrics, every type of matcher, matchers that match the empty value, a
  metric without a table, lists of names and values), one fault, a pool of three.
  `ReadIsExact` excuses, by name, expressions that `anchorValue` leaves open at
  an end of some alternative (`Loose`: more is returned where the expression is
  to match, less where it is to be excluded) and results cut short (`cut`, less
  is returned).
  `ConnectionsReturned` is exact about who holds a connection. It does not claim
  that a failed open among several metrics, or a cancelled query, returns them:
  it does not.
* `EveryQueryEnds`: the open results of two queries can hold all three
  connections, and then queries that need another one to fetch labels wait for
  each other for ever. The code reaches this state: the number of open results is
  that of the metrics a query selects, the pool has five connections for every
  processor (`client.go:76`), and calls wait on `context.Background()`. Results
  that were left open (section 9) bring it nearer. The property excepts exactly
  this state (`Exhausted`; TLC finds it when the exception is dropped) and says
  that there is no other way to hang: a query that waits while a connection is
  idle, or while some holder can go on, ends. `Step` is weakly fair: a query that
  has begun goes on when a connection is free. Beginning one is not.
* 124 expressions over 8 stores, with an instant and ranges with three step
  widths: dense and sparse series, resets, gaps longer than the lookback, ends
  of series. `EvaluatesAsDefined` compares the whole answer with `Sem`.

Deadlock is not checked, since both models end.

### Proofs (`ReadPathProofs`)

Assumed is `ReadPathAssumption`: the pool is not empty, times of requests lie
between `MinTime` and `MaxTime` and those of samples strictly between them, the
nanoseconds of a sample's time fit in 64 bits (`HasNanos`), the labels of a
series are a finite function and name its metric, and every stored metric has a
name in the catalog. Without `HasNanos` the theorem is false: `toMilis` goes
through `UnixNano`, which wraps around before 1678 and after 2262, and such
samples can be stored. In the run `MaxInt64` is such that the last sample is the
last that fits. Nothing is assumed of the number of queries, series or
connections, of the matchers, or of which tables exist.

* `ClausesSelectMatches` is about the pure part. `ClausesUpTo` numbers the
  parameters of clause `i` as `2i - 1` and `2i`, so the WHERE is the conjunction
  of one condition per matcher (`WhereIsPicks`), each looks at its own
  arguments, and that condition is the matcher's, the empty value of an absent
  label included. An expression that is not whole after `anchorValue` matches
  more than it should (`WholeMatchesLess`), never less: hence the two one-sided
  halves.
* `ReadsStayInOrder`: `ReadInv` says of every query which parts of its state its
  program counter implies (`Staged`), that exactly the rows it has not finished
  are open (`RowsOpen`), and that every series it wants has been read, is
  being read, is in rows still to come or belongs to a metric still to be opened,
  unless an error was met (`Accounts`). `PoolInv` counts the connections. One
  lemma per action shows what it moves, and `MovesKeepsRead` and `MovesKeepsPool`
  conclude. `CacheInv` says that a label is cached under its own id, which
  evictions keep; with it the hits and the answers behind them are all the
  labels of a row, in any order of the two (`LabelsLineUp`).
* `ReadsAreExact` follows with `ResultIsAnswer`, which needs that the conversion
  of times keeps milliseconds; `ConnectionsAreReturned` follows directly.

## 9. What modelling showed beside the runs

The three violation runs are findings in `PROJECT.json`. The models follow the
code in these places too, and the properties name the exception:

* `anchorValue` makes `^a|b$` of `a|b`, which matches more than whole values, so
  `=~` returns more and `!~` less; and an expression that ends in an escaped
  dollar sign counts as anchored. Its comment says "Regex-matches are fully anchored." (`query_builder.go:371`).
* `delta` with an offset, computed by the extension, has points at the times of
  the windows instead of the steps; `prom_delta` raises an error for points
  outside its window.
* `delta(a[5m]) + b` with the extension leaves the selector of `b` without
  series, and the evaluation fails: `populateSeries` stops at the selector after
  the pushed one.
* Errors of rows are not asked for in `getSeriesPerMetric`, `fetchMissingLabels`,
  `queryMetricTableName`, `LabelNames` and `LabelValues`, and a later row clears
  the error of an earlier result in `pgxSeriesSet.At`.
* Results opened for earlier metrics stay open when a later one fails
  (`sql_reader.go:318`), and when a query is cancelled; and queries whose open
  results hold the whole pool wait for each other (`Exhausted`).
* Samples before 1678 or after 2262 come back with other times (`toMilis`).
* A value below zero in the packed `AcceptedResponseTypes` is written as one byte
  though `Size` counts ten (`remote.pb.go:514`); there are no such values, and
  none among the messages of `WireRoundTrip`.
* `upgradeVersion` fails on anything in `versions/dev` that is no directory
  (`migrate.go:411`), and the embedded files have `versions/dev/.gitignore`
  (`migration_files_generated.go:82`), so with them every upgrade fails before its
  first version script (`Malformed`).
* `write.go:22` answers 200 without storing when the leader check fails.

## 10. Not modelled

* **The SQL catalog** (`base.sql` apart from metric completion, the preinstall
  tables, matcher functions): label keys and positions, creation of series,
  retention, compression policy. What concurrent transactions do there is
  decided by PostgreSQL's locks, unique indexes and snapshots, which are not in
  this repository. The hazards are listed without a property.
* **Floating-point arithmetic**: `avg`, `stddev`, `stdvar`, `quantile`, `rate`
  and the other functions whose point is the arithmetic, `histogram_quantile`;
  and functions of dates and strings, the limit on samples, the labels of
  `absent`, and the sorting of results.
* **REST election**, a flag that an external service sets; the **throughput
  calculator**, which feeds a log line; the **active query tracker**, which
  nothing configures; the **query adapters**, the **API handlers** around the
  reader and the **gRPC stubs**: forwarding, parsing and output without state.
* **Logging, metrics, telemetry, flags**, the generated file system of the
  migration scripts, test support.

## 11. Running

    tlc -config MCIngest.cfg MCIngest
    tlc -config MCIngestLive.cfg MCIngest
    tlc -config MCIngestAsync.cfg MCIngest
    tlc -config MCElection.cfg MCElection
    tlc -config MCElectionLive.cfg MCElection
    tlc -config MCElectionSilent.cfg MCElection
    tlc -config MCElectionPaused.cfg MCElection
    tlc -config MCElectionLeak.cfg MCElection
    tlc -config MCClockCache.cfg MCClockCache
    tlc -config MCMigration.cfg MCMigration
    tlc -config MCRequests.cfg MCRequests
    tlc -config MCQueries.cfg MCQueries
    tlapm IngestInvariant.tla
    tlapm IngestRoutines.tla
    tlapm IngestCopiers.tla
    tlapm IngestProofs.tla
    tlapm ElectionProofs.tla
    tlapm ClockCacheProofs.tla
    tlapm MigrationProofs.tla
    tlapm ReadPathProofs.tla

The longest run takes about three minutes with two workers, the longest
proof about a quarter of an hour.
