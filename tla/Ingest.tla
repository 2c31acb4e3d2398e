------------------------------- MODULE Ingest -------------------------------
(***************************************************************************)
(* The write path of the connector: pgxInserter in                         *)
(* pkg/pgmodel/sql_ingest.go.                                              *)
(*                                                                         *)
(* A caller of InsertData splits a write into one request per metric,      *)
(* hands each request to that metric's inserter routine over a bounded     *)
(* channel and waits on a WaitGroup.  The routine batches requests in a    *)
(* pooled buffer, resolves series ids and passes the buffer to a pool of   *)
(* copiers, which insert it and answer every request in it.  A worker      *)
(* completes the creation of new metrics when it is signalled.             *)
(*                                                                         *)
(* A request is <<c, m>>: call c's rows for metric m.  Rows, labels and    *)
(* samples are abstracted to the request they came with; the number of     *)
(* samplesInfo of a request and the set of its label sets are constants.   *)
(***************************************************************************)
EXTENDS Integers, Sequences, FiniteSets, Functions

CONSTANTS
  Calls,      \* calls of InsertData
  Metrics,    \* metric names
  Series,     \* label sets
  Copiers,    \* the goroutines running runInserter
  Buffers,    \* the pendingBuffers the pool can hand out
  Rows,       \* Rows[c]: the keys of the map call c inserts
  Size,       \* Size[r]: number of samplesInfo in request r
  Labels,     \* Labels[r]: the label sets of request r
  FlushSize,  \* flushSize
  ChanCap,    \* capacity of an inserter's input channel (1000 in the code)
  CopyCap,    \* capacity of toCopiers (numCopiers in the code)
  AsyncAcks,  \* Cfg.AsyncAcks
  Faults,     \* the kinds of database failure that may occur
  MaxFaults,  \* bound: number of database failures
  MaxCrashes, \* bound: number of crashes of the process
  None        \* nil

Requests == {r \in Calls \X Metrics : r[2] \in Rows[r[1]]}

ASSUME ConstantsAssumption ==
  /\ IsFiniteSet(Metrics)
  /\ Rows \in [Calls -> SUBSET Metrics]
  /\ Size \in [Requests -> Nat \ {0}]   \* parseData drops series without samples
  /\ Labels \in [Requests -> SUBSET Series]
  /\ FlushSize \in Nat \ {0}
  /\ ChanCap \in Nat \ {0}
  /\ CopyCap \in Nat \ {0}
  /\ AsyncAcks \in BOOLEAN
  /\ MaxFaults \in Nat
  /\ MaxCrashes \in Nat
  /\ None \notin Calls
  /\ None \notin Buffers
  /\ None \notin Metrics

VARIABLES
  \* callers of InsertData
  pc,            \* where the call (or its background goroutine) is
  todo,          \* metrics whose request is not yet in a channel
  target,        \* the metric whose channel the call is sending on
  wg,            \* counter of workFinished
  errChan,       \* the call's error channel, capacity 1
  outcome,       \* what the wait for the whole call found
  ack,           \* what InsertData returned
  \* one inserter routine per metric
  rpc,           \* where the routine is
  hot,           \* in the hotReceive loop
  held,          \* the call whose errChan the routine holds outside a buffer
  input,         \* the routine's channel of requests
  pending,       \* handler.pending
  seriesCache,   \* handler.seriesCache
  \* pendingBuffers
  pool,          \* buffers in the sync.Pool
  needsResponse, \* requests that wait for an answer
  batch,         \* requests whose rows are in batch.sampleInfos
  infos,         \* len(batch.sampleInfos)
  iterated,      \* the batch's iterator has been run to its end
  \* copiers
  toCopiers,     \* channel of copy requests
  cpc,           \* where the copier is
  creq,          \* the copy request it works on
  cerr,          \* the error it is about to report, if any
  \* metric creation
  nameCache,     \* metricTableNames
  signal,        \* completeMetricCreation holds a value
  worker,        \* runCompleteMetricCreationWorker
  scan,          \* metrics finalize_metric_creation has still to visit
  \* the database
  tables,        \* rows of the metric table
  completed,     \* those with creation_completed
  stored,        \* requests whose rows are in the data tables
  \* the process
  up,            \* starting, up or closed
  faults, crashes

callVars    == <<pc, todo, target, wg, errChan, outcome, ack>>
routineVars == <<rpc, hot, held, input, pending, seriesCache>>
bufferVars  == <<pool, needsResponse, batch, infos, iterated>>
copierVars  == <<toCopiers, cpc, creq, cerr>>
workerVars  == <<signal, worker, scan>>
dbVars      == <<tables, completed, stored>>
procVars    == <<up, crashes>>
vars == <<callVars, routineVars, bufferVars, copierVars, nameCache, workerVars,
          dbVars, procVars, faults>>

CopyRequests == [data : Buffers, table : Metrics]
NoRequest == [data |-> None, table |-> None]

-----------------------------------------------------------------------------
(* A database call fails.                                                  *)
Fault(kind) ==
  /\ kind \in Faults
  /\ faults < MaxFaults
  /\ faults' = faults + 1

(* select { case errChan <- err: default: }                                *)
TrySendErr(c) ==
  errChan' = [errChan EXCEPT ![c] = IF @ = "empty" THEN "full" ELSE @]

(* finished.Done()                                                         *)
Done(c) == wg' = [wg EXCEPT ![c] = @ - 1]

(* An earlier process may have left metrics, completed or not.             *)
Init ==
  /\ pc = [c \in Calls |-> "idle"]
  /\ todo = [c \in Calls |-> {}]
  /\ target = [c \in Calls |-> None]
  /\ wg = [c \in Calls |-> 0]
  /\ errChan = [c \in Calls |-> "empty"]
  /\ outcome = [c \in Calls |-> "none"]
  /\ ack = [c \in Calls |-> "none"]
  /\ rpc = [m \in Metrics |-> "none"]
  /\ hot = [m \in Metrics |-> FALSE]
  /\ held = [m \in Metrics |-> None]
  /\ input = [m \in Metrics |-> << >>]
  /\ pending = [m \in Metrics |-> None]
  /\ seriesCache = [m \in Metrics |-> {}]
  /\ nameCache = {}
  /\ pool = Buffers
  /\ needsResponse = [b \in Buffers |-> << >>]
  /\ batch = [b \in Buffers |-> {}]
  /\ infos = [b \in Buffers |-> 0]
  /\ iterated = [b \in Buffers |-> FALSE]
  /\ toCopiers = << >>
  /\ cpc = [k \in Copiers |-> "idle"]
  /\ creq = [k \in Copiers |-> NoRequest]
  /\ cerr = [k \in Copiers |-> FALSE]
  /\ signal = FALSE
  /\ worker = "idle"
  /\ scan = {}
  /\ tables \in SUBSET Metrics
  /\ completed \in SUBSET tables
  /\ stored = {}
  /\ up = "starting"
  /\ faults = 0
  /\ crashes = 0
-----------------------------------------------------------------------------
(* The process.                                                            *)

(* newPgxInserter: CompleteMetricCreation must succeed before the worker   *)
(* and the inserter are there; otherwise the process gives up and is       *)
(* started again.                                                          *)
Startup ==
  /\ up = "starting"
  /\ \/ /\ completed' = tables
        /\ up' = "up"
        /\ UNCHANGED faults
     \/ /\ Fault("finalize")
        /\ \E S \in SUBSET tables : completed' = completed \cup S
        /\ UNCHANGED up
  /\ UNCHANGED <<callVars, routineVars, bufferVars, copierVars, nameCache, workerVars,
                 tables, stored, crashes>>

(* The process dies: what is in the database is all that is left.          *)
Die ==
  /\ up' = "starting"
  /\ pc' = [c \in Calls |-> IF pc[c] \in {"idle", "done"} THEN pc[c] ELSE "lost"]
  /\ todo' = [c \in Calls |-> {}]
  /\ target' = [c \in Calls |-> None]
  /\ wg' = [c \in Calls |-> 0]
  /\ rpc' = [m \in Metrics |-> "none"]
  /\ hot' = [m \in Metrics |-> FALSE]
  /\ held' = [m \in Metrics |-> None]
  /\ input' = [m \in Metrics |-> << >>]
  /\ pending' = [m \in Metrics |-> None]
  /\ seriesCache' = [m \in Metrics |-> {}]
  /\ nameCache' = {}
  /\ pool' = Buffers
  /\ needsResponse' = [b \in Buffers |-> << >>]
  /\ batch' = [b \in Buffers |-> {}]
  /\ infos' = [b \in Buffers |-> 0]
  /\ iterated' = [b \in Buffers |-> FALSE]
  /\ toCopiers' = << >>
  /\ cpc' = [k \in Copiers |-> "idle"]
  /\ creq' = [k \in Copiers |-> NoRequest]
  /\ cerr' = [k \in Copiers |-> FALSE]
  /\ signal' = FALSE
  /\ worker' = "idle"
  /\ scan' = {}
  /\ UNCHANGED <<errChan, outcome, ack, dbVars, faults>>

Crash ==
  /\ up = "up"
  /\ crashes < MaxCrashes
  /\ crashes' = crashes + 1
  /\ Die

(* A send on a channel that Close has closed panics and ends the process.  *)
Panic ==
  /\ up = "closed"
  /\ \E m \in Metrics : rpc[m] \in {"signal", "copy"}
  /\ Die
  /\ UNCHANGED crashes

(* InsertData has returned to its caller.                                  *)
Returned(c) == pc[c] \in {"idle", "done", "lost"} \/ ack[c] # "none"

(* Close, called when no caller is inside InsertData any more.             *)
Close ==
  /\ up = "up"
  /\ \A c \in Calls : Returned(c)
  /\ up' = "closed"
  /\ UNCHANGED <<callVars, routineVars, bufferVars, copierVars, nameCache, workerVars,
                 dbVars, crashes, faults>>

-----------------------------------------------------------------------------
(* Callers.                                                                *)

(* InsertData up to the loop.                                              *)
InsertData(c) ==
  /\ up = "up"
  /\ pc[c] = "idle"
  /\ pc' = [pc EXCEPT ![c] = "send"]
  /\ todo' = [todo EXCEPT ![c] = Rows[c]]
  /\ wg' = [wg EXCEPT ![c] = Cardinality(Rows[c])]
  /\ UNCHANGED <<target, errChan, outcome, ack, routineVars, bufferVars, copierVars,
                 nameCache, workerVars, dbVars, procVars, faults>>

(* getMetricInserter, for some next key of the map.  The routine starts    *)
(* with the error channel of the call that created it, before that call's  *)
(* request is in its channel.                                              *)
GetMetricInserter(c, m) ==
  /\ pc[c] = "send"
  /\ m \in todo[c]
  /\ pc' = [pc EXCEPT ![c] = "enqueue"]
  /\ target' = [target EXCEPT ![c] = m]
  /\ IF rpc[m] = "none"
       THEN /\ rpc' = [rpc EXCEPT ![m] = "lookup"]
            /\ held' = [held EXCEPT ![m] = c]
       ELSE UNCHANGED <<rpc, held>>
  /\ UNCHANGED <<todo, wg, errChan, outcome, ack, hot, input, pending, seriesCache,
                 bufferVars, copierVars, nameCache, workerVars, dbVars, procVars, faults>>

(* inserter <- insertDataRequest{...}                                      *)
Enqueue(c) ==
  /\ up = "up"
  /\ pc[c] = "enqueue"
  /\ Len(input[target[c]]) < ChanCap
  /\ input' = [input EXCEPT ![target[c]] = Append(@, <<c, target[c]>>)]
  /\ todo' = [todo EXCEPT ![c] = @ \ {target[c]}]
  /\ target' = [target EXCEPT ![c] = None]
  /\ pc' = [pc EXCEPT ![c] = "send"]
  /\ UNCHANGED <<wg, errChan, outcome, ack, rpc, hot, held, pending, seriesCache,
                 bufferVars, copierVars, nameCache, workerVars, dbVars, procVars, faults>>

(* Mutant: the call does not wait for its WaitGroup.                       *)
WaitForNobody(c) ==
  /\ pc[c] = "send"
  /\ todo[c] = {}
  /\ pc' = [pc EXCEPT ![c] = "collect"]
  /\ UNCHANGED <<todo, target, wg, errChan, outcome, ack, routineVars, bufferVars,
                 copierVars, nameCache, workerVars, dbVars, procVars, faults>>

(* workFinished.Wait() returns, in the call or in its goroutine.           *)
Wait(c) ==
  /\ pc[c] = "send"
  /\ todo[c] = {}
  /\ wg[c] = 0
  /\ pc' = [pc EXCEPT ![c] = "collect"]
  /\ UNCHANGED <<todo, target, wg, errChan, outcome, ack, routineVars, bufferVars,
                 copierVars, nameCache, workerVars, dbVars, procVars, faults>>

(* The poll of errChan and its close; a synchronous call returns.          *)
Collect(c) ==
  LET found == IF errChan[c] = "full" THEN "err" ELSE "ok" IN
  /\ pc[c] = "collect"
  /\ pc' = [pc EXCEPT ![c] = "done"]
  /\ errChan' = [errChan EXCEPT ![c] = "closed"]
  /\ outcome' = [outcome EXCEPT ![c] = found]
  /\ ack' = IF AsyncAcks THEN ack ELSE [ack EXCEPT ![c] = found]
  /\ UNCHANGED <<todo, target, wg, routineVars, bufferVars, copierVars, nameCache,
                 workerVars, dbVars, procVars, faults>>

(* With AsyncAcks the call returns once everything is sent.  It reads err  *)
(* while the goroutine may be writing it, so a late failure may or may not *)
(* be seen.                                                                *)
ReturnAsync(c) ==
  /\ AsyncAcks
  /\ ack[c] = "none"
  /\ pc[c] \in {"send", "collect", "done"}
  /\ todo[c] = {}
  /\ \E a \in {"ok"} \cup ({outcome[c]} \ {"none"}) : ack' = [ack EXCEPT ![c] = a]
  /\ UNCHANGED <<pc, todo, target, wg, errChan, outcome, routineVars, bufferVars,
                 copierVars, nameCache, workerVars, dbVars, procVars, faults>>

-----------------------------------------------------------------------------
(* Inserter routines: runInserterRoutine.                                  *)

RoutineSame == <<callVars, copierVars, dbVars, procVars>>

(* A query caches the table name of an existing metric.                    *)
ReaderCachesName(m) ==
  /\ up = "up"
  /\ m \in tables \ nameCache
  /\ nameCache' = nameCache \cup {m}
  /\ UNCHANGED <<callVars, routineVars, bufferVars, copierVars, workerVars, dbVars,
                 procVars, faults>>

(* Mutant: the buffer stays in the pool.                                   *)
GetBufferShared(m) ==
  \E b \in pool : /\ pending' = [pending EXCEPT ![m] = b]
                  /\ UNCHANGED pool

(* pendingBuffers.Get(), which may hand out any buffer of the pool.        *)
GetBuffer(m) ==
  \E b \in pool : /\ pending' = [pending EXCEPT ![m] = b]
                  /\ pool' = pool \ {b}

(* The handler takes a buffer from the pool and enters its loop.           *)
StartLoop(m) ==
  /\ rpc' = [rpc EXCEPT ![m] = "recv"]
  /\ held' = [held EXCEPT ![m] = None]
  /\ GetBuffer(m)

(* metricTableNames.Get.                                                   *)
LookupName(m) ==
  /\ rpc[m] = "lookup"
  /\ \/ /\ m \in nameCache
        /\ StartLoop(m)
     \/ /\ m \notin nameCache
        /\ rpc' = [rpc EXCEPT ![m] = "create"]
        /\ UNCHANGED <<held, pending, pool>>
  /\ UNCHANGED <<RoutineSame, hot, input, seriesCache, needsResponse, batch, infos,
                 iterated, nameCache, workerVars, faults>>

(* getMetricTableName, which creates the metric when it is missing.  When  *)
(* it fails the metric may have been created all the same.                 *)
CreateMetric(m) ==
  /\ rpc[m] = "create"
  /\ \/ /\ m \in tables
        /\ StartLoop(m)
        /\ nameCache' = nameCache \cup {m}
        /\ UNCHANGED <<tables, faults>>
     \/ /\ m \notin tables
        /\ tables' = tables \cup {m}
        /\ rpc' = [rpc EXCEPT ![m] = "signal"]
        /\ nameCache' = nameCache \cup {m}
        /\ UNCHANGED <<held, pending, pool, faults>>
     \/ /\ \/ Fault("create") /\ UNCHANGED tables
           \/ Fault("lostCreate") /\ tables' = tables \cup {m}
        /\ rpc' = [rpc EXCEPT ![m] = "createErr"]
        /\ UNCHANGED <<held, pending, pool, nameCache>>
  /\ UNCHANGED <<callVars, copierVars, completed, stored, procVars, hot, input, seriesCache,
                 needsResponse, batch, infos, iterated, workerVars>>

(* Mutant: completeMetricCreation has no buffer, so a signal is lost while *)
(* the worker is busy.                                                     *)
SendSignalUnbuffered == signal' = (signal \/ worker = "idle")

(* select { case completeMetricCreationSignal <- struct{}{}: default: }    *)
SendSignal == signal' = TRUE

(* The metric is possibly new: signal the worker if there is space.        *)
SignalWorker(m) ==
  /\ up = "up"
  /\ rpc[m] = "signal"
  /\ SendSignal
  /\ StartLoop(m)
  /\ UNCHANGED <<RoutineSame, hot, input, seriesCache, needsResponse, batch, infos,
                 iterated, nameCache, worker, scan, faults>>

(* The creator learns of the error; from now on the routine only fails.    *)
CreateFailed(m) ==
  /\ rpc[m] = "createErr"
  /\ TrySendErr(held[m])
  /\ rpc' = [rpc EXCEPT ![m] = "failed"]
  /\ held' = [held EXCEPT ![m] = None]
  /\ UNCHANGED <<pc, todo, target, wg, outcome, ack, copierVars, dbVars, procVars, hot,
                 input, pending, seriesCache, bufferVars, nameCache, workerVars, faults>>

(* runInserterRoutineFailure: take a request and report the old error ...  *)
FailRequest(m) ==
  /\ rpc[m] = "failed"
  /\ input[m] # << >>
  /\ LET c == Head(input[m])[1] IN
       /\ held' = [held EXCEPT ![m] = c]
       /\ TrySendErr(c)
  /\ input' = [input EXCEPT ![m] = Tail(@)]
  /\ rpc' = [rpc EXCEPT ![m] = "failedDone"]
  /\ UNCHANGED <<pc, todo, target, wg, outcome, ack, copierVars, dbVars, procVars, hot,
                 pending, seriesCache, bufferVars, nameCache, workerVars, faults>>

(* ... and count it as finished.                                           *)
FailRequestDone(m) ==
  /\ rpc[m] = "failedDone"
  /\ Done(held[m])
  /\ held' = [held EXCEPT ![m] = None]
  /\ rpc' = [rpc EXCEPT ![m] = "failed"]
  /\ UNCHANGED <<pc, todo, target, errChan, outcome, ack, copierVars, dbVars, procVars,
                 hot, input, pending, seriesCache, bufferVars, nameCache, workerVars, faults>>

(* addReq.                                                                 *)
AddReq(b, r) ==
  /\ needsResponse' = [needsResponse EXCEPT ![b] = Append(@, r)]
  /\ batch' = [batch EXCEPT ![b] = @ \cup {r}]
  /\ infos' = [infos EXCEPT ![b] = @ + Size[r]]

(* handleReq in blockingHandleReq or nonblockingHandleReq.  addReq asks    *)
(* for a flush above FlushSize; the hot loop also ends at FlushSize.       *)
HandleReq(m) ==
  LET r == Head(input[m])
      b == pending[m]
      n == infos[b] + Size[r] IN
  /\ rpc[m] = "recv"
  /\ input[m] # << >>
  /\ input' = [input EXCEPT ![m] = Tail(@)]
  /\ AddReq(b, r)
  /\ rpc' = [rpc EXCEPT ![m] = IF n > FlushSize \/ (hot[m] /\ n = FlushSize)
                                 THEN "setIds" ELSE "recv"]
  /\ hot' = [hot EXCEPT ![m] = IF n > FlushSize THEN @ ELSE ~(@ /\ n = FlushSize)]
  /\ UNCHANGED <<RoutineSame, held, pending, seriesCache, pool, iterated, nameCache,
                 workerVars, faults>>

(* Mutant: a single samplesInfo does not count.                            *)
HasPendingReqsOffByOne(m) == infos[pending[m]] > 1

HasPendingReqs(m) == infos[pending[m]] > 0

(* The hot loop finds the channel empty: flush what is pending.            *)
HotReceiveEnds(m) ==
  /\ up # "closed"
  /\ rpc[m] = "recv"
  /\ hot[m]
  /\ input[m] = << >>
  /\ hot' = [hot EXCEPT ![m] = FALSE]
  /\ rpc' = [rpc EXCEPT ![m] = IF HasPendingReqs(m) THEN "setIds" ELSE "recv"]
  /\ UNCHANGED <<RoutineSame, held, input, pending, seriesCache, bufferVars, nameCache,
                 workerVars, faults>>

(* The channel is closed and empty.  blockingHandleReq and the failure     *)
(* loop end; the hot loop receives zero requests for ever.                 *)
RoutineExits(m) ==
  /\ up = "closed"
  /\ rpc[m] \in {"recv", "failed"}
  /\ input[m] = << >>
  /\ rpc' = [rpc EXCEPT ![m] = IF hot[m] THEN "spin" ELSE "exited"]
  /\ UNCHANGED <<RoutineSame, hot, held, input, pending, seriesCache, bufferVars, nameCache,
                 workerVars, faults>>

(* Mutant: no series is found to miss an id.                               *)
MissingSeriesNone(m) == {}

(* The label sets fillKnowSeriesIds finds no id for.                       *)
MissingSeries(m) ==
  (UNION {Labels[r] : r \in batch[pending[m]]}) \ seriesCache[m]

(* setSeriesIds.  One transaction per missing series, in one batch; an id  *)
(* is cached as soon as it is read, so a failure leaves some of them in    *)
(* the cache.                                                              *)
SetSeriesIds(m) ==
  /\ rpc[m] = "setIds"
  /\ \/ /\ rpc' = [rpc EXCEPT ![m] = "copy"]
        /\ seriesCache' = [seriesCache EXCEPT ![m] = @ \cup MissingSeries(m)]
        /\ UNCHANGED faults
     \/ /\ MissingSeries(m) # {}
        /\ Fault("series")
        /\ rpc' = [rpc EXCEPT ![m] = "report"]
        /\ \E S \in SUBSET MissingSeries(m) :
             seriesCache' = [seriesCache EXCEPT ![m] = @ \cup S]
  /\ UNCHANGED <<RoutineSame, hot, held, input, pending, bufferVars, nameCache, workerVars>>

(* flushPending: hand the buffer to the copiers and take another one.      *)
FlushPending(m) ==
  /\ up = "up"
  /\ rpc[m] = "copy"
  /\ Len(toCopiers) < CopyCap
  /\ toCopiers' = Append(toCopiers, [data |-> pending[m], table |-> m])
  /\ GetBuffer(m)
  /\ rpc' = [rpc EXCEPT ![m] = "recv"]
  /\ UNCHANGED <<callVars, cpc, creq, cerr, dbVars, procVars, hot, held, input, seriesCache,
                 needsResponse, batch, infos, iterated, nameCache, workerVars, faults>>

(* Mutant: the error is not passed on.                                     *)
SendResultDropped(b) == UNCHANGED errChan

(* reportResults: send the error to the next waiting call, ...             *)
SendResult(b) == TrySendErr(Head(needsResponse[b])[1])

(* Mutants: the task stays in needsResponse; the WaitGroup is not told.    *)
TaskDoneKept(b) ==
  /\ Done(Head(needsResponse[b])[1])
  /\ UNCHANGED needsResponse

TaskDoneUncounted(b) ==
  /\ needsResponse' = [needsResponse EXCEPT ![b] = Tail(@)]
  /\ UNCHANGED wg

(* ... count its request as finished, ...                                  *)
TaskDone(b) ==
  /\ Done(Head(needsResponse[b])[1])
  /\ needsResponse' = [needsResponse EXCEPT ![b] = Tail(@)]

(* Mutant: the samples of the last use stay in the batch.                  *)
ResetBatchKeepsRows(b) ==
  /\ infos' = [infos EXCEPT ![b] = 0]
  /\ iterated' = [iterated EXCEPT ![b] = FALSE]
  /\ UNCHANGED batch

(* ... and when nobody waits any more, empty and rewind the batch.         *)
ResetBatch(b) ==
  /\ batch' = [batch EXCEPT ![b] = {}]
  /\ infos' = [infos EXCEPT ![b] = 0]
  /\ iterated' = [iterated EXCEPT ![b] = FALSE]

(* flushPending reports that setSeriesIds failed.                          *)
ReportSend(m) ==
  /\ rpc[m] = "report"
  /\ needsResponse[pending[m]] # << >>
  /\ SendResult(pending[m])
  /\ rpc' = [rpc EXCEPT ![m] = "reportDone"]
  /\ UNCHANGED <<pc, todo, target, wg, outcome, ack, copierVars, dbVars, procVars, hot, held,
                 input, pending, seriesCache, bufferVars, nameCache, workerVars, faults>>

ReportDone(m) ==
  /\ rpc[m] = "reportDone"
  /\ TaskDone(pending[m])
  /\ rpc' = [rpc EXCEPT ![m] = "report"]
  /\ UNCHANGED <<pc, todo, target, errChan, outcome, ack, copierVars, dbVars, procVars, hot,
                 held, input, pending, seriesCache, pool, batch, infos, iterated, nameCache,
                 workerVars, faults>>

ReportEnd(m) ==
  /\ rpc[m] = "report"
  /\ needsResponse[pending[m]] = << >>
  /\ ResetBatch(pending[m])
  /\ rpc' = [rpc EXCEPT ![m] = "recv"]
  /\ UNCHANGED <<RoutineSame, hot, held, input, pending, seriesCache, pool, needsResponse,
                 nameCache, workerVars, faults>>

-----------------------------------------------------------------------------
(* Copiers: runInserter.                                                   *)

CopierSame == <<routineVars, nameCache, workerVars, tables, completed, procVars>>

TakeCopyRequest(k) ==
  /\ cpc[k] = "idle"
  /\ toCopiers # << >>
  /\ creq' = [creq EXCEPT ![k] = Head(toCopiers)]
  /\ toCopiers' = Tail(toCopiers)
  /\ cpc' = [cpc EXCEPT ![k] = "insert"]
  /\ UNCHANGED <<CopierSame, callVars, bufferVars, cerr, stored, faults>>

CopierExits(k) ==
  /\ up = "closed"
  /\ cpc[k] = "idle"
  /\ toCopiers = << >>
  /\ cpc' = [cpc EXCEPT ![k] = "exited"]
  /\ UNCHANGED <<CopierSame, callVars, bufferVars, toCopiers, creq, cerr, stored, faults>>

(* doInsert: one statement for the whole batch.  When it fails the rows    *)
(* may have been stored and only the answer lost.                          *)
InsertRows(b) == stored' = stored \cup batch[b]

DoInsert(k) ==
  LET b == creq[k].data IN
  /\ cpc[k] \in {"insert", "retry"}
  /\ iterated' = [iterated EXCEPT ![b] = TRUE]
  /\ \/ /\ InsertRows(b)
        /\ cpc' = [cpc EXCEPT ![k] = "report"]
        /\ cerr' = [cerr EXCEPT ![k] = FALSE]
        /\ UNCHANGED faults
     \/ /\ Fault("insert")
        /\ InsertRows(b) \/ UNCHANGED stored
        /\ cpc' = [cpc EXCEPT ![k] = "report"]
        /\ cerr' = [cerr EXCEPT ![k] = TRUE]
     \/ /\ Fault("compressed")
        /\ cpc' = [cpc EXCEPT ![k] = IF @ = "insert" THEN "recover" ELSE "report"]
        /\ cerr' = [cerr EXCEPT ![k] = TRUE]
        /\ UNCHANGED stored
  /\ UNCHANGED <<CopierSame, callVars, pool, needsResponse, batch, infos, toCopiers, creq>>

(* Mutant: the retry starts where the first attempt ended.                 *)
TryRecoveryNoRewind(k) ==
  /\ cpc[k] = "recover"
  /\ \/ /\ cpc' = [cpc EXCEPT ![k] = "retry"]
        /\ UNCHANGED faults
     \/ /\ Fault("decompress")
        /\ cpc' = [cpc EXCEPT ![k] = "report"]
  /\ UNCHANGED <<CopierSame, callVars, bufferVars, toCopiers, creq, cerr, stored>>

(* tryRecovery of an insert into a compressed chunk: decompress, rewind    *)
(* the batch and insert once more.                                         *)
TryRecovery(k) ==
  /\ cpc[k] = "recover"
  /\ \/ /\ iterated' = [iterated EXCEPT ![creq[k].data] = FALSE]
        /\ cpc' = [cpc EXCEPT ![k] = "retry"]
        /\ UNCHANGED faults
     \/ /\ Fault("decompress")
        /\ cpc' = [cpc EXCEPT ![k] = "report"]
        /\ UNCHANGED iterated
  /\ UNCHANGED <<CopierSame, callVars, pool, needsResponse, batch, infos, toCopiers, creq,
                 cerr, stored>>

CopierSend(k) ==
  /\ cpc[k] = "report"
  /\ cerr[k]
  /\ needsResponse[creq[k].data] # << >>
  /\ SendResult(creq[k].data)
  /\ cpc' = [cpc EXCEPT ![k] = "reportDone"]
  /\ UNCHANGED <<CopierSame, pc, todo, target, wg, outcome, ack, bufferVars, toCopiers,
                 creq, cerr, stored, faults>>

CopierDone(k) ==
  /\ cpc[k] = IF cerr[k] THEN "reportDone" ELSE "report"
  /\ needsResponse[creq[k].data] # << >>
  /\ TaskDone(creq[k].data)
  /\ cpc' = [cpc EXCEPT ![k] = "report"]
  /\ UNCHANGED <<CopierSame, pc, todo, target, errChan, outcome, ack, pool, batch, infos,
                 iterated, toCopiers, creq, cerr, stored, faults>>

(* The buffer goes back to the pool.                                       *)
CopierEnd(k) ==
  LET b == creq[k].data IN
  /\ cpc[k] = "report"
  /\ needsResponse[b] = << >>
  /\ ResetBatch(b)
  /\ pool' = pool \cup {b}
  /\ cpc' = [cpc EXCEPT ![k] = "idle"]
  /\ creq' = [creq EXCEPT ![k] = NoRequest]
  /\ cerr' = [cerr EXCEPT ![k] = FALSE]
  /\ UNCHANGED <<CopierSame, callVars, needsResponse, toCopiers, stored, faults>>

-----------------------------------------------------------------------------
(* runCompleteMetricCreationWorker and finalize_metric_creation.           *)

WorkerSame == <<callVars, routineVars, bufferVars, copierVars, nameCache, tables, stored,
                procVars>>

WorkerReceive ==
  /\ worker = "idle"
  /\ signal
  /\ signal' = FALSE
  /\ worker' = "call"
  /\ UNCHANGED <<WorkerSame, scan, completed, faults>>

WorkerExits ==
  /\ up = "closed"
  /\ worker = "idle"
  /\ ~signal
  /\ worker' = "exited"
  /\ UNCHANGED <<WorkerSame, signal, scan, completed, faults>>

(* The procedure's cursor is on the metrics incomplete when it opens.      *)
FinalizeOpen ==
  /\ worker = "call"
  /\ worker' = "scan"
  /\ scan' = tables \ completed
  /\ UNCHANGED <<WorkerSame, signal, completed, faults>>

(* Every metric is completed in a transaction of its own.                  *)
FinalizeMetric(m) ==
  /\ worker = "scan"
  /\ m \in scan
  /\ scan' = scan \ {m}
  /\ completed' = completed \cup {m}
  /\ UNCHANGED <<WorkerSame, signal, worker, faults>>

(* The worker only logs an error.                                          *)
FinalizeEnd ==
  /\ worker = "scan"
  /\ \/ scan = {} /\ UNCHANGED faults
     \/ Fault("finalize")
  /\ worker' = "idle"
  /\ scan' = {}
  /\ UNCHANGED <<WorkerSame, signal, completed>>

-----------------------------------------------------------------------------
Caller(c) ==
  \/ \E m \in Metrics : GetMetricInserter(c, m)
  \/ Enqueue(c)
  \/ Wait(c)
  \/ Collect(c)
  \/ ReturnAsync(c)

Routine(m) ==
  \/ LookupName(m)
  \/ CreateMetric(m)
  \/ SignalWorker(m)
  \/ CreateFailed(m)
  \/ FailRequest(m)
  \/ FailRequestDone(m)
  \/ HandleReq(m)
  \/ HotReceiveEnds(m)
  \/ RoutineExits(m)
  \/ SetSeriesIds(m)
  \/ FlushPending(m)
  \/ ReportSend(m)
  \/ ReportDone(m)
  \/ ReportEnd(m)

Copier(k) ==
  \/ TakeCopyRequest(k)
  \/ CopierExits(k)
  \/ DoInsert(k)
  \/ TryRecovery(k)
  \/ CopierSend(k)
  \/ CopierDone(k)
  \/ CopierEnd(k)

Worker ==
  \/ WorkerReceive
  \/ WorkerExits
  \/ FinalizeOpen
  \/ \E m \in Metrics : FinalizeMetric(m)
  \/ FinalizeEnd

(* The program may stop when it is closed, or rest when no call is open.   *)
Terminating ==
  /\ up = "closed" \/ \A c \in Calls : pc[c] \in {"idle", "done", "lost"}
  /\ UNCHANGED vars

Next ==
  \/ Startup
  \/ Crash
  \/ Panic
  \/ Close
  \/ \E c \in Calls : InsertData(c) \/ Caller(c)
  \/ \E m \in Metrics : ReaderCachesName(m) \/ Routine(m)
  \/ \E k \in Copiers : Copier(k)
  \/ Worker
  \/ Terminating

(* Goroutines are scheduled; the environment (new calls, queries, crashes, *)
(* Close) owes nothing.                                                    *)
Fairness ==
  /\ WF_vars(Startup)
  /\ \A c \in Calls : WF_vars(Caller(c))
  /\ \A m \in Metrics : WF_vars(Routine(m))
  /\ \A k \in Copiers : WF_vars(Copier(k))
  /\ WF_vars(Worker)

Spec == Init /\ [][Next]_vars

FairSpec == Spec /\ Fairness

-----------------------------------------------------------------------------
(* Properties.                                                             *)

CallTypes ==
  /\ pc \in [Calls -> {"idle", "send", "enqueue", "collect", "done", "lost"}]
  /\ todo \in [Calls -> SUBSET Metrics]
  /\ target \in [Calls -> Metrics \cup {None}]
  /\ wg \in [Calls -> Nat]
  /\ errChan \in [Calls -> {"empty", "full", "closed"}]
  /\ outcome \in [Calls -> {"none", "ok", "err"}]
  /\ ack \in [Calls -> {"none", "ok", "err"}]

RoutineTypes ==
  /\ rpc \in [Metrics -> {"none", "lookup", "create", "signal", "createErr", "failed",
                          "failedDone", "recv", "setIds", "copy", "report", "reportDone",
                          "spin", "exited"}]
  /\ hot \in [Metrics -> BOOLEAN]
  /\ held \in [Metrics -> Calls \cup {None}]
  /\ input \in [Metrics -> Seq(Requests)]
  /\ pending \in [Metrics -> Buffers \cup {None}]
  /\ seriesCache \in [Metrics -> SUBSET Series]

BufferTypes ==
  /\ pool \in SUBSET Buffers
  /\ needsResponse \in [Buffers -> Seq(Requests)]
  /\ batch \in [Buffers -> SUBSET Requests]
  /\ infos \in [Buffers -> Nat]
  /\ iterated \in [Buffers -> BOOLEAN]

CopierTypes ==
  /\ toCopiers \in Seq(CopyRequests)
  /\ cpc \in [Copiers -> {"idle", "insert", "recover", "retry", "report", "reportDone",
                          "exited"}]
  /\ creq \in [Copiers -> CopyRequests \cup {NoRequest}]
  /\ cerr \in [Copiers -> BOOLEAN]

OtherTypes ==
  /\ nameCache \in SUBSET Metrics
  /\ signal \in BOOLEAN
  /\ worker \in {"idle", "call", "scan", "exited"}
  /\ scan \in SUBSET Metrics
  /\ tables \in SUBSET Metrics
  /\ completed \in SUBSET Metrics
  /\ stored \in SUBSET Requests
  /\ up \in {"starting", "up", "closed"}
  /\ faults \in 0..MaxFaults
  /\ crashes \in 0..MaxCrashes

(* The type of every variable; in particular no WaitGroup is ever counted  *)
(* below zero, which panics.                                               *)
TypeOK == CallTypes /\ RoutineTypes /\ BufferTypes /\ CopierTypes /\ OtherTypes

(* The places where a request of an unfinished call can be.                *)
Unsent   == {r \in Requests : r[2] \in todo[r[1]]}
Queued   == {r \in Requests : r \in Range(input[r[2]])}
Failing  == {r \in Requests : rpc[r[2]] = "failedDone" /\ held[r[2]] = r[1]}
Buffered == {r \in Requests : \E b \in Buffers : r \in Range(needsResponse[b])}

Outstanding == Unsent \cup Queued \cup Failing \cup Buffered

OutstandingOf(c) == {m \in Rows[c] : <<c, m>> \in Outstanding}

(* The WaitGroup of a call counts exactly its requests that wait for an    *)
(* answer somewhere in the pipeline: no request is dropped, answered twice *)
(* or answered after the call has been told that all are (the counter      *)
(* never goes below zero).                                                 *)
WaitGroupExact ==
  \A c \in Calls : wg[c] = Cardinality(OutstandingOf(c))

(* Nobody is left holding a channel that has been closed: the error        *)
(* channel of a call stays open while a request of it is in the pipeline   *)
(* or a routine it created has still to report to it; and with synchronous *)
(* acks nobody is about to send a request, a buffer or a signal on the     *)
(* channels that Close has closed.                                         *)
NoSendOnClosedChannel ==
  /\ \A r \in Outstanding : errChan[r[1]] # "closed"
  /\ \A m \in Metrics :
       rpc[m] \in {"lookup", "create", "signal", "createErr"} => errChan[held[m]] # "closed"
  /\ up = "closed" /\ ~AsyncAcks =>
       /\ \A c \in Calls : pc[c] # "enqueue"
       /\ \A m \in Metrics : rpc[m] \notin {"signal", "copy"}

(* What InsertData reports as written is written: when a call found no     *)
(* error, the rows of every one of its requests are in the database.       *)
SuccessMeansStored ==
  \A c \in Calls :
    /\ outcome[c] = "ok" => \A m \in Rows[c] : <<c, m>> \in stored
    /\ ~AsyncAcks => ack[c] = outcome[c]

(* Every pooled buffer has at most one owner: the pool, one routine (as    *)
(* its pending buffer), one copy request in the channel or one copier.  A  *)
(* buffer in the pool carries nothing over from its last use.              *)
BufferHasOneOwner ==
  /\ \A m \in Metrics : pending[m] # None =>
       /\ pending[m] \notin pool
       /\ \A n \in Metrics : pending[n] = pending[m] => n = m
  /\ \A i \in DOMAIN toCopiers :
       /\ toCopiers[i].data \notin pool
       /\ \A m \in Metrics : pending[m] # toCopiers[i].data
       /\ \A j \in DOMAIN toCopiers : toCopiers[j].data = toCopiers[i].data => j = i
  /\ \A k \in Copiers : creq[k] # NoRequest =>
       /\ creq[k].data \notin pool
       /\ \A m \in Metrics : pending[m] # creq[k].data
       /\ \A i \in DOMAIN toCopiers : toCopiers[i].data # creq[k].data
       /\ \A l \in Copiers : creq[l].data = creq[k].data => l = k
  /\ \A b \in pool :
       needsResponse[b] = << >> /\ batch[b] = {} /\ infos[b] = 0 /\ ~iterated[b]

(* A copier inserts into a metric's table rows of that metric only, and    *)
(* the series id of every one of them has been resolved.                   *)
RowsReachTheirTable ==
  \A k \in Copiers : creq[k] # NoRequest =>
    \A r \in batch[creq[k].data] :
      /\ r[2] = creq[k].table
      /\ Labels[r] \subseteq seriesCache[creq[k].table]

(* doInsert walks the batch from its start, the first time and when it is  *)
(* retried (otherwise it panics), and the recovery of a compressed chunk   *)
(* knows the earliest time of a batch that has been walked.                *)
BatchPosition ==
  \A k \in Copiers :
    /\ cpc[k] \in {"insert", "retry"} => ~iterated[creq[k].data]
    /\ cpc[k] = "recover" => iterated[creq[k].data]

(* A routine that blocks on its channel leaves no request unanswered in    *)
(* its pending buffer.                                                     *)
BlockedRoutineOwesNothing ==
  \A m \in Metrics :
    rpc[m] = "recv" /\ ~hot[m] => needsResponse[pending[m]] = << >>

(* Every call of InsertData, and the goroutine that waits for it when acks *)
(* are asynchronous, comes to its end, unless the process dies or the      *)
(* inserter is closed under it.                                            *)
EveryCallReturns ==
  \A c \in Calls : pc[c] = "send" ~> (pc[c] \in {"done", "lost"} \/ up = "closed")

(* Every metric that is created is completed, although signals are dropped *)
(* when one is waiting and the process may die between the two.            *)
CreatedIsCompleted ==
  \A m \in Metrics : m \in tables ~> m \in completed

(* The pipeline implements WriteService.                                   *)
CallStatus == [c \in Calls |->
  CASE pc[c] \in {"send", "enqueue", "collect"} -> "active"
    [] pc[c] = "done" -> outcome[c]
    [] OTHER -> pc[c]]

Service == INSTANCE WriteService WITH status <- CallStatus, stored <- stored

(* InsertData with its routines, buffers, copiers, failures and crashes    *)
(* does what WriteService allows: rows of one metric are stored together   *)
(* and only while their calls are unanswered, and success is reported only *)
(* for calls whose rows are all stored.                                    *)
ImplementsWriteService == Service!Spec

=============================================================================
