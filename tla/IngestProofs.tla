---------------------------- MODULE IngestProofs ----------------------------
(***************************************************************************)
(* Theorems about Ingest: its safety invariants hold in every reachable    *)
(* state, and it implements WriteService.                                  *)
(***************************************************************************)
EXTENDS IngestCopiers

(* A leaf goes to Zenon unless it cites another prover.                    *)
USE Zenon

-----------------------------------------------------------------------------
(* Every step of a caller preserves the invariant of IngestInvariant.      *)

LEMMA InsertDataInv ==
  ASSUME IInv, NEW c \in Calls, InsertData(c)
  PROVE  IInv'
<1> USE DEF InsertData, routineVars, procVars, dbVars
<1>1. pc[c] = "idle" /\ todo[c] = {} /\ wg[c] = 0
  BY DEF IInv, CallInv, Active
<1>2. OutstandingOf(c) = {}
  BY <1>1, OutstandingFinite DEF IInv, WaitGroupExact
<1>3. /\ Unsent' = Unsent \cup {r \in Requests : r[1] = c}
      /\ Queued' = Queued /\ Failing' = Failing /\ Buffered' = Buffered
  <2>1. todo'[c] = Rows[c] /\ \A d \in Calls \ {c} : todo'[d] = todo[d]
    BY DEF IInv, TypeOK, CallTypes
  <2>2. Queued' = Queued /\ Failing' = Failing /\ Buffered' = Buffered
    BY DEF Queued, Failing, Buffered, bufferVars
  <2> QED
    BY <1>1, <2>1, <2>2, RequestPair DEF Unsent
<1>4. \A r \in Requests : r[1] = c => r \notin Outstanding
  BY <1>2, RequestPair DEF OutstandingOf
<1>5. Places'
  BY <1>3, <1>4 DEF IInv, Places, Outstanding, bufferVars
<1>6. WaitGroupExact'
  <2> SUFFICES ASSUME NEW d \in Calls PROVE wg'[d] = Cardinality(OutstandingOf(d)')
    BY DEF WaitGroupExact
  <2>1. CASE d = c
    <3>1. OutstandingOf(c)' = Rows[c]
      BY <1>3, RequestPair DEF OutstandingOf, Outstanding
    <3> QED
      BY <2>1, <3>1 DEF IInv, TypeOK, CallTypes
  <2>2. CASE d # c
    <3>1. OutstandingOf(d)' = OutstandingOf(d)
      BY <1>3, <2>2, RequestPair DEF OutstandingOf, Outstanding
    <3> QED
      BY <2>2, <3>1 DEF IInv, WaitGroupExact, TypeOK, CallTypes
  <2> QED
    BY <2>1, <2>2
<1>7. TypeOK'
  <2>1. Cardinality(Rows[c]) \in Nat /\ Rows[c] \in SUBSET Metrics
    BY OutstandingFinite, FS_CardinalityType, RequestPair
  <2>2. CallTypes'
    BY <2>1 DEF IInv, TypeOK, CallTypes
  <2> QED
    BY <2>2 DEF IInv, TypeOK, RoutineTypes, BufferTypes, CopierTypes, OtherTypes, bufferVars,
                copierVars, workerVars
<1>8. CallInv'
  BY DEF IInv, CallInv, Active, TypeOK, CallTypes
<1>9. ErrorsStay
  BY DEF ErrorsStay
<1>10. AllRoutines'
  <2> SUFFICES ASSUME NEW n \in Metrics PROVE RoutineOK(n)'
    BY DEF AllRoutines
  <2>1. rpc[n] \in Starting => <<held[n], n>> \in Unsent' \cup Queued'
    BY <1>3 DEF IInv, AllRoutines, RoutineOK
  <2> QED
    BY <1>9, <2>1, RoutineFrame DEF SameBuffer, bufferVars
<1>11. AnswerInv'
  BY <1>3, RequestPair DEF IInv, AnswerInv, Outstanding, TypeOK, CallTypes
<1>12. SuccessMeansStored' /\ CloseInv'
  BY DEF IInv, SuccessMeansStored, CloseInv
<1> QED
  BY <1>5, <1>6, <1>7, <1>8, <1>9, <1>10, <1>11, <1>12, SameBuffersFrame DEF IInv

LEMMA GetMetricInserterInv ==
  ASSUME IInv, NEW c \in Calls, NEW m \in Metrics, GetMetricInserter(c, m)
  PROVE  IInv'
<1> USE DEF GetMetricInserter, procVars, dbVars
<1>1. <<c, m>> \in Unsent /\ m \in todo[c] /\ pc[c] = "send"
  BY RequestPair DEF IInv, CallInv, Unsent
<1>2. \/ rpc[m] # "none" /\ rpc' = rpc /\ held' = held
      \/ rpc[m] = "none" /\ rpc' = [rpc EXCEPT ![m] = "lookup"] /\ held' = [held EXCEPT ![m] = c]
  OBVIOUS
<1>3. /\ \A n \in Metrics \ {m} : rpc'[n] = rpc[n] /\ held'[n] = held[n]
      /\ rpc[m] # "none" => rpc'[m] = rpc[m] /\ held'[m] = held[m]
      /\ rpc[m] = "none" => rpc'[m] = "lookup" /\ held'[m] = c
  BY <1>2 DEF IInv, TypeOK, RoutineTypes
<1>4. Failing' = Failing
  BY <1>3, RequestPair DEF Failing
<1>5. TypeOK'
  <2>1. CallTypes'
    BY DEF IInv, TypeOK, CallTypes
  <2>2. RoutineTypes'
    BY ZenonT(60), <1>2 DEF IInv, TypeOK, RoutineTypes
  <2> QED
    BY <2>1, <2>2 DEF IInv, TypeOK, BufferTypes, CopierTypes, OtherTypes, bufferVars, copierVars,
                      workerVars
<1>6. /\ Places' /\ WaitGroupExact'
      /\ Unsent' = Unsent /\ Queued' = Queued /\ Outstanding' = Outstanding
  BY <1>4, SamePlaces DEF bufferVars
<1>7. CallInv'
  BY DEF IInv, CallInv, Active, TypeOK, CallTypes
<1>8. ErrorsStay
  BY DEF ErrorsStay
<1>9. AllRoutines'
  <2> SUFFICES ASSUME NEW n \in Metrics PROVE RoutineOK(n)'
    BY DEF AllRoutines
  <2>1. CASE n = m /\ rpc[m] = "none"
    <3>1. pending[m] = None /\ ~hot[m]
      BY <2>1 DEF IInv, AllRoutines, RoutineOK, Handling
    <3> QED
      BY <1>1, <1>3, <1>6, <2>1, <3>1 DEF RoutineOK, Handling
  <2>2. CASE n # m \/ rpc[m] # "none"
    <3>1. rpc'[n] = rpc[n] /\ held'[n] = held[n]
      BY <1>3, <2>2
    <3>2. rpc[n] \in Starting => <<held[n], n>> \in Unsent' \cup Queued'
      BY <1>6 DEF IInv, AllRoutines, RoutineOK
    <3> QED
      BY <1>8, <3>1, <3>2, RoutineFrame DEF SameBuffer, bufferVars
  <2> QED
    BY <2>1, <2>2
<1>10. AnswerInv'
  BY <1>1, <1>6, AnswerFrame DEF IInv, Active, TypeOK, CallTypes
<1>11. SuccessMeansStored' /\ CloseInv'
  BY <1>1 DEF IInv, SuccessMeansStored, CloseInv
<1> QED
  BY <1>5, <1>6, <1>7, <1>8, <1>9, <1>10, <1>11, SameBuffersFrame DEF IInv

LEMMA EnqueueInv ==
  ASSUME IInv, NEW c \in Calls, Enqueue(c)
  PROVE  IInv'
<1> DEFINE m == target[c]
           r == <<c, m>>
<1> USE DEF Enqueue, procVars, dbVars
<1>1. m \in todo[c] /\ m \in Metrics /\ r \in Requests /\ r[1] = c /\ r[2] = m
  BY RequestPair DEF IInv, CallInv
<1>2. r \in Unsent /\ r \notin Queued /\ r \notin Range(input[m])
  BY <1>1 DEF Unsent, IInv, Places, Queued
<1>3. /\ input'[m] = Append(input[m], r)
      /\ \A n \in Metrics \ {m} : input'[n] = input[n]
      /\ input[m] \in Seq(Requests)
  BY <1>1 DEF IInv, TypeOK, RoutineTypes
<1>4. /\ input'[m] \in Seq(Requests) /\ Range(input'[m]) = Range(input[m]) \cup {r}
      /\ IsInjective(input'[m])
  <2>1. IsInjective(input[m])
    BY <1>1 DEF IInv, Places
  <2> HIDE DEF m, r, Enqueue
  <2> QED
    BY SMT, <1>1, <1>2, <1>3, <2>1, AppendRange
<1>5. /\ Unsent' = Unsent \ {r} /\ Queued' = Queued \cup {r}
      /\ Failing' = Failing /\ Buffered' = Buffered
  <2>1. todo'[c] = todo[c] \ {m} /\ \A d \in Calls \ {c} : todo'[d] = todo[d]
    BY DEF IInv, TypeOK, CallTypes
  <2>2. Unsent' = Unsent \ {r}
    BY <1>1, <2>1, RequestPair DEF Unsent
  <2>3. Queued' = Queued \cup {r}
    BY <1>1, <1>3, <1>4, RequestPair DEF Queued
  <2> QED
    BY <2>2, <2>3 DEF Failing, Buffered, bufferVars
<1>6. Outstanding' = Outstanding
  BY <1>2, <1>5 DEF Outstanding
<1>7. Places'
  <2>1. \A n \in Metrics : IsInjective(input'[n]) /\ \A q \in Range(input'[n]) : q[2] = n
    BY <1>1, <1>3, <1>4 DEF IInv, Places
  <2>2. /\ Unsent' \cap (Queued' \cup Failing' \cup Buffered') = {}
        /\ Queued' \cap (Failing' \cup Buffered') = {} /\ Failing' \cap Buffered' = {}
    BY <1>2, <1>5 DEF IInv, Places
  <2> QED
    BY <2>1, <2>2 DEF IInv, Places, bufferVars
<1>8. WaitGroupExact'
  BY <1>6, KeepCount DEF IInv
<1>9. TypeOK'
  <2>1. CallTypes'
    BY DEF IInv, TypeOK, CallTypes
  <2>2. RoutineTypes'
    BY <1>1, <1>3, <1>4 DEF IInv, TypeOK, RoutineTypes
  <2> QED
    BY <2>1, <2>2 DEF IInv, TypeOK, BufferTypes, CopierTypes, OtherTypes, bufferVars, copierVars,
                      workerVars
<1>10. CallInv'
  BY DEF IInv, CallInv, Active, TypeOK, CallTypes
<1>11. ErrorsStay
  BY DEF ErrorsStay
<1>12. AllRoutines'
  <2> SUFFICES ASSUME NEW n \in Metrics PROVE RoutineOK(n)'
    BY DEF AllRoutines
  <2>1. rpc[n] \in Starting => <<held[n], n>> \in Unsent' \cup Queued'
    BY <1>5 DEF IInv, AllRoutines, RoutineOK
  <2> QED
    BY <1>11, <2>1, RoutineFrame DEF SameBuffer, bufferVars
<1>13. AnswerInv'
  BY <1>6, AnswerFrame DEF IInv, Active, TypeOK, CallTypes
<1>14. SuccessMeansStored' /\ CloseInv'
  BY DEF IInv, SuccessMeansStored, CloseInv
<1> QED
  BY <1>7, <1>8, <1>9, <1>10, <1>11, <1>12, <1>13, <1>14, SameBuffersFrame DEF IInv

LEMMA WaitInv ==
  ASSUME IInv, NEW c \in Calls, Wait(c)
  PROVE  IInv'
<1> USE DEF Wait, procVars, dbVars, routineVars
<1>1. TypeOK'
  BY DEF IInv, TypeOK, CallTypes, RoutineTypes, BufferTypes, CopierTypes, OtherTypes, bufferVars,
         copierVars, workerVars
<1>2. Failing' = Failing
  BY DEF Failing
<1>3. Places' /\ WaitGroupExact' /\ Outstanding' = Outstanding /\ Unsent' = Unsent /\ Queued' = Queued
  BY <1>2, SamePlaces DEF bufferVars
<1>4. CallInv'
  BY DEF IInv, CallInv, Active, TypeOK, CallTypes
<1>5. ErrorsStay
  BY DEF ErrorsStay
<1>6. AllRoutines'
  BY <1>3, <1>5, RoutineFrame DEF SameBuffer, bufferVars, AllRoutines, IInv, RoutineOK
<1>7. AnswerInv'
  BY <1>3, AnswerFrame DEF IInv, Active, TypeOK, CallTypes
<1>8. SuccessMeansStored' /\ CloseInv'
  BY DEF IInv, SuccessMeansStored, CloseInv
<1> QED
  BY <1>1, <1>3, <1>4, <1>5, <1>6, <1>7, <1>8, SameBuffersFrame DEF IInv

LEMMA CollectInv ==
  ASSUME IInv, NEW c \in Calls, Collect(c)
  PROVE  IInv'
<1> USE DEF Collect, procVars, dbVars, routineVars
<1>1. TypeOK'
  BY DEF IInv, TypeOK, CallTypes, RoutineTypes, BufferTypes, CopierTypes, OtherTypes, bufferVars,
         copierVars, workerVars
<1>2. Failing' = Failing
  BY DEF Failing
<1>3. Places' /\ WaitGroupExact' /\ Outstanding' = Outstanding /\ Unsent' = Unsent /\ Queued' = Queued
  BY <1>2, SamePlaces DEF bufferVars
<1>4. CallInv'
  BY SMT DEF IInv, CallInv, Active, TypeOK, CallTypes
<1>5. ErrorsStay
  BY DEF ErrorsStay, Active, IInv, TypeOK, CallTypes
<1>6. AllRoutines'
  BY <1>3, <1>5, RoutineFrame DEF SameBuffer, bufferVars, AllRoutines, IInv, RoutineOK
<1>7. AnswerInv'
  BY <1>3, AnswerFrame DEF IInv, Active, TypeOK, CallTypes
<1>8. SuccessMeansStored'
  <2>1. OutstandingOf(c) = {}
    BY OutstandingFinite DEF IInv, WaitGroupExact, CallInv, Active
  <2>2. \A n \in Rows[c] : <<c, n>> \in stored \/ errChan[c] = "full"
    <3> TAKE n \in Rows[c]
    <3>1. <<c, n>> \in Requests /\ <<c, n>>[1] = c /\ <<c, n>> \notin Outstanding
      BY <2>1, RequestPair DEF OutstandingOf
    <3> QED
      BY <3>1 DEF IInv, AnswerInv
  <2>3. outcome'[c] = "ok" => errChan[c] # "full"
    BY DEF IInv, TypeOK, CallTypes
  <2>4. \A d \in Calls \ {c} : outcome'[d] = outcome[d] /\ ack'[d] = ack[d]
    BY DEF IInv, TypeOK, CallTypes
  <2>5. ~AsyncAcks => ack'[c] = outcome'[c]
    BY DEF IInv, TypeOK, CallTypes
  <2> QED
    BY <2>2, <2>3, <2>4, <2>5 DEF IInv, SuccessMeansStored
<1>9. CloseInv'
  BY DEF IInv, CloseInv
<1> QED
  BY <1>1, <1>3, <1>4, <1>5, <1>6, <1>7, <1>8, <1>9, SameBuffersFrame DEF IInv

LEMMA ReturnAsyncInv ==
  ASSUME IInv, NEW c \in Calls, ReturnAsync(c)
  PROVE  IInv'
<1> USE DEF ReturnAsync, procVars, dbVars, routineVars
<1>1. PICK a \in {"ok", "err"} : ack' = [ack EXCEPT ![c] = a]
  BY DEF IInv, TypeOK, CallTypes
<1>2. TypeOK'
  BY <1>1 DEF IInv, TypeOK, CallTypes, RoutineTypes, BufferTypes, CopierTypes, OtherTypes,
              bufferVars, copierVars, workerVars
<1>3. Failing' = Failing
  BY DEF Failing
<1>4. Places' /\ WaitGroupExact' /\ Outstanding' = Outstanding /\ Unsent' = Unsent /\ Queued' = Queued
  BY <1>3, SamePlaces DEF bufferVars
<1>5. CallInv' /\ SuccessMeansStored' /\ CloseInv'
  BY DEF IInv, CallInv, SuccessMeansStored, CloseInv
<1>6. ErrorsStay
  BY DEF ErrorsStay
<1>7. AllRoutines'
  BY <1>4, <1>6, RoutineFrame DEF SameBuffer, bufferVars, AllRoutines, IInv, RoutineOK
<1>8. AnswerInv'
  BY <1>4, AnswerFrame DEF IInv
<1> QED
  BY <1>2, <1>4, <1>5, <1>6, <1>7, <1>8, SameBuffersFrame DEF IInv

-----------------------------------------------------------------------------
(* The remaining steps.                                                    *)

(* Steps that do not touch the pipeline: the worker, a query, the start    *)
(* and the end of the process.                                             *)
LEMMA QuietInv ==
  ASSUME IInv, UNCHANGED <<callVars, routineVars, bufferVars, copierVars, stored>>,
         OtherTypes', up' = up \/ up' # "closed" \/ \A c \in Calls : Returned(c)
  PROVE  IInv'
<1>1. TypeOK'
  BY DEF IInv, TypeOK, CallTypes, RoutineTypes, BufferTypes, CopierTypes, callVars, routineVars,
         bufferVars, copierVars
<1>2. Failing' = Failing
  BY DEF Failing, routineVars
<1>3. Places' /\ WaitGroupExact' /\ Outstanding' = Outstanding /\ Unsent' = Unsent /\ Queued' = Queued
  BY <1>2, SamePlaces DEF callVars, routineVars, bufferVars
<1>4. ErrorsStay
  BY DEF ErrorsStay, callVars
<1>5. AllBuffers' /\ AllQueued' /\ AllCopiers' /\ BufferHasOneOwner'
  BY <1>4, SameBuffersFrame DEF routineVars
<1>6. AllRoutines'
  BY <1>3, <1>4, RoutineFrame DEF SameBuffer, bufferVars, routineVars, AllRoutines, IInv, RoutineOK
<1>7. AnswerInv'
  BY <1>3, AnswerFrame DEF IInv, callVars
<1>8. CallInv' /\ SuccessMeansStored'
  BY DEF IInv, CallInv, SuccessMeansStored, callVars
<1>9. CloseInv'
  BY DEF IInv, CloseInv, CallInv, Returned, callVars, TypeOK, CallTypes
<1> QED
  BY <1>1, <1>3, <1>5, <1>6, <1>7, <1>8, <1>9 DEF IInv

LEMMA QuietSteps ==
  ASSUME IInv,
         Startup \/ Close \/ Worker \/ (\E m \in Metrics : ReaderCachesName(m))
  PROVE  IInv'
<1> USE DEF procVars, dbVars
<1>1. CASE Startup
  <2>1. OtherTypes'
    BY SMT, <1>1, ConstantsAssumption DEF Startup, Fault, IInv, TypeOK, OtherTypes, workerVars
  <2> QED
    BY <1>1, <2>1, QuietInv DEF Startup
<1>2. CASE Close
  <2>1. OtherTypes'
    BY <1>2 DEF Close, IInv, TypeOK, OtherTypes, workerVars
  <2> QED
    BY <1>2, <2>1, QuietInv DEF Close
<1>3. CASE Worker
  <2> USE DEF WorkerSame, workerVars
  <2>1. CASE WorkerReceive
    BY <2>1, QuietInv DEF WorkerReceive, IInv, TypeOK, OtherTypes
  <2>2. CASE WorkerExits
    BY <2>2, QuietInv DEF WorkerExits, IInv, TypeOK, OtherTypes
  <2>3. CASE FinalizeOpen
    BY <2>3, QuietInv DEF FinalizeOpen, IInv, TypeOK, OtherTypes
  <2>4. CASE \E m \in Metrics : FinalizeMetric(m)
    BY <2>4, QuietInv DEF FinalizeMetric, IInv, TypeOK, OtherTypes
  <2>5. CASE FinalizeEnd
    BY SMT, <2>5, QuietInv, ConstantsAssumption DEF FinalizeEnd, Fault, IInv, TypeOK, OtherTypes
  <2> QED
    BY <1>3, <2>1, <2>2, <2>3, <2>4, <2>5 DEF Worker
<1>4. CASE \E m \in Metrics : ReaderCachesName(m)
  <2>1. PICK m \in Metrics : ReaderCachesName(m)
    BY <1>4
  <2>2. OtherTypes'
    BY <2>1 DEF ReaderCachesName, IInv, TypeOK, OtherTypes, workerVars
  <2> QED
    BY <2>1, <2>2, QuietInv DEF ReaderCachesName
<1> QED
  BY <1>1, <1>2, <1>3, <1>4

(* A process that has just been started.                                   *)
Fresh ==
  /\ todo = [c \in Calls |-> {}] /\ wg = [c \in Calls |-> 0]
  /\ input = [m \in Metrics |-> << >>]
  /\ rpc = [m \in Metrics |-> "none"] /\ hot = [m \in Metrics |-> FALSE]
  /\ pending = [m \in Metrics |-> None]
  /\ pool = Buffers /\ needsResponse = [b \in Buffers |-> << >>]
  /\ batch = [b \in Buffers |-> {}] /\ infos = [b \in Buffers |-> 0]
  /\ iterated = [b \in Buffers |-> FALSE] /\ toCopiers = << >>
  /\ cpc = [k \in Copiers |-> "idle"] /\ creq = [k \in Copiers |-> NoRequest]

(* Its pipeline is empty, ...                                              *)
LEMMA FreshIsEmpty == Fresh => Outstanding = {} /\ Places /\ WaitGroupExact
<1> SUFFICES ASSUME Fresh PROVE Outstanding = {} /\ Places /\ WaitGroupExact
  OBVIOUS
<1> USE DEF Fresh
<1>1. Range(<< >>) = {} /\ IsInjective(<< >>)
  BY SMT DEF Range, IsInjective
<1>2. /\ \A c \in Calls : todo[c] = {}
      /\ \A m \in Metrics : input[m] = << >> /\ rpc[m] = "none"
      /\ \A b \in Buffers : needsResponse[b] = << >>
  OBVIOUS
<1>3. Unsent = {} /\ Queued = {} /\ Failing = {} /\ Buffered = {}
  BY <1>1, <1>2, RequestPair DEF Unsent, Queued, Failing, Buffered
<1>4. Outstanding = {}
  BY <1>3 DEF Outstanding
<1>5. Places
  BY <1>1, <1>2, <1>3 DEF Places
<1>6. WaitGroupExact
  <2> SUFFICES ASSUME NEW c \in Calls PROVE wg[c] = Cardinality(OutstandingOf(c))
    BY DEF WaitGroupExact
  <2>1. OutstandingOf(c) = {}
    BY <1>4 DEF OutstandingOf
  <2> QED
    BY <2>1, FS_EmptySet
<1> QED
  BY <1>4, <1>5, <1>6

(* ... and all its goroutines are at their start.                          *)
LEMMA FreshIsIdle ==
  Fresh => AllRoutines /\ AllBuffers /\ AllQueued /\ AllCopiers /\ BufferHasOneOwner
<1> SUFFICES ASSUME Fresh
             PROVE  AllRoutines /\ AllBuffers /\ AllQueued /\ AllCopiers /\ BufferHasOneOwner
  OBVIOUS
<1> USE DEF Fresh
<1>1. Range(<< >>) = {} /\ DOMAIN << >> = {}
  BY SMT DEF Range
<1>2. AllRoutines
  BY DEF AllRoutines, RoutineOK, Starting, Handling
<1>3. AllBuffers
  BY SMT, <1>1 DEF AllBuffers, BufferOK
<1>4. AllQueued
  BY <1>1 DEF AllQueued
<1>5. AllCopiers
  BY DEF AllCopiers, CopierOK
<1>6. BufferHasOneOwner
  BY <1>1 DEF BufferHasOneOwner
<1> QED
  BY <1>2, <1>3, <1>4, <1>5, <1>6

LEMMA InitInv == Init => IInv
<1> SUFFICES ASSUME Init PROVE IInv
  OBVIOUS
<1>1. TypeOK
  <2>1. CallTypes
    BY ConstantsAssumption DEF Init, CallTypes
  <2>2. RoutineTypes
    BY SMT, ConstantsAssumption DEF Init, RoutineTypes
  <2>3. BufferTypes
    BY SMT DEF Init, BufferTypes
  <2>4. CopierTypes
    BY SMT DEF Init, CopierTypes
  <2>5. OtherTypes
    <3>1. 0 \in 0..MaxFaults /\ 0 \in 0..MaxCrashes
      BY SMT, ConstantsAssumption
    <3>2. tables \in SUBSET Metrics /\ completed \in SUBSET Metrics
      BY DEF Init
    <3>3. stored \in SUBSET Requests /\ nameCache \in SUBSET Metrics /\ scan \in SUBSET Metrics
      BY DEF Init
    <3> QED
      BY <3>1, <3>2, <3>3 DEF Init, OtherTypes
  <2> QED
    BY <2>1, <2>2, <2>3, <2>4, <2>5 DEF TypeOK
<1>2. Outstanding = {} /\ Places /\ WaitGroupExact
  BY FreshIsEmpty DEF Init, Fresh
<1>3. AllRoutines /\ AllBuffers /\ AllQueued /\ AllCopiers /\ BufferHasOneOwner
  BY FreshIsIdle DEF Init, Fresh
<1>4. CallInv /\ SuccessMeansStored /\ CloseInv
  BY DEF Init, CallInv, Active, SuccessMeansStored, CloseInv
<1>5. AnswerInv
  BY RequestPair DEF Init, AnswerInv, Active
<1> QED
  BY <1>1, <1>2, <1>3, <1>4, <1>5 DEF IInv

(* The process dies.                                                       *)
LEMMA DieInv ==
  ASSUME IInv, Die, crashes' \in 0..MaxCrashes
  PROVE  IInv'
<1>1. TypeOK'
  <2>1. CallTypes'
    BY ConstantsAssumption DEF Die, IInv, TypeOK, CallTypes
  <2>2. RoutineTypes'
    BY SMT, ConstantsAssumption DEF Die, RoutineTypes
  <2>3. BufferTypes'
    BY SMT DEF Die, BufferTypes
  <2>4. CopierTypes'
    BY SMT DEF Die, CopierTypes
  <2>5. OtherTypes'
    BY DEF Die, IInv, TypeOK, OtherTypes, dbVars
  <2> QED
    BY <2>1, <2>2, <2>3, <2>4, <2>5 DEF TypeOK
<1>2. Fresh'
  BY DEF Die, Fresh
<1>3. /\ Places' /\ WaitGroupExact'
      /\ AllRoutines' /\ AllBuffers' /\ AllQueued' /\ AllCopiers' /\ BufferHasOneOwner'
  BY <1>2, FreshIsEmpty, FreshIsIdle, PTL
<1>4. /\ \A c \in Calls : pc'[c] \in {"idle", "done", "lost"} /\ (pc'[c] = "done" <=> pc[c] = "done")
      /\ UNCHANGED <<errChan, outcome, ack, stored>> /\ up' = "starting"
      /\ \A c \in Calls : todo'[c] = {} /\ wg'[c] = 0
  BY DEF Die, IInv, TypeOK, CallTypes, dbVars
<1>5. CallInv' /\ SuccessMeansStored' /\ CloseInv'
  BY <1>4 DEF IInv, CallInv, Active, SuccessMeansStored, CloseInv
<1>6. AnswerInv'
  BY <1>4, RequestPair DEF AnswerInv, Active
<1> QED
  BY <1>1, <1>3, <1>5, <1>6 DEF IInv

(* Every step preserves the invariant.                                     *)
LEMMA NextInv == IInv /\ [Next]_vars => IInv'
<1> SUFFICES ASSUME IInv, [Next]_vars PROVE IInv'
  OBVIOUS
<1>1. CASE Startup \/ Close \/ Worker \/ (\E m \in Metrics : ReaderCachesName(m))
  BY <1>1, QuietSteps
<1>2. CASE Crash \/ Panic
  <2>1. crashes' \in 0..MaxCrashes
    BY SMT, <1>2, ConstantsAssumption DEF Crash, Panic, IInv, TypeOK, OtherTypes
  <2> QED
    BY <1>2, <2>1, DieInv DEF Crash, Panic
<1>3. CASE \E c \in Calls : InsertData(c) \/ Caller(c)
  <2>1. PICK c \in Calls : InsertData(c) \/ Caller(c)
    BY <1>3
  <2> QED
    BY <2>1, InsertDataInv, GetMetricInserterInv, EnqueueInv, WaitInv, CollectInv, ReturnAsyncInv
       DEF Caller
<1>4. CASE \E m \in Metrics : Routine(m)
  <2>1. PICK m \in Metrics : Routine(m)
    BY <1>4
  <2> QED
    BY <2>1, LookupNameInv, CreateMetricInv, SignalWorkerInv, CreateFailedInv, FailRequestInv,
       FailRequestDoneInv, HandleReqInv, HotReceiveEndsInv, RoutineExitsInv, SetSeriesIdsInv,
       FlushPendingInv, ReportSendInv, ReportDoneInv, ReportEndInv
       DEF Routine
<1>5. CASE \E k \in Copiers : Copier(k)
  <2>1. PICK k \in Copiers : Copier(k)
    BY <1>5
  <2> QED
    BY <2>1, TakeCopyRequestInv, CopierExitsInv, DoInsertInv, TryRecoveryInv, CopierSendInv,
       CopierDoneInv, CopierEndInv
       DEF Copier
<1>6. CASE UNCHANGED vars
  <2>1. UNCHANGED <<callVars, routineVars, bufferVars, copierVars, stored, up>> /\ OtherTypes'
    BY <1>6 DEF vars, IInv, TypeOK, OtherTypes, workerVars, dbVars, procVars
  <2> QED
    BY <2>1, QuietInv
<1> QED
  BY <1>1, <1>2, <1>3, <1>4, <1>5, <1>6 DEF Next, Terminating

-----------------------------------------------------------------------------
(* Theorems.                                                               *)

(* The inductive invariant holds in every reachable state of the pipeline. *)
THEOREM InductiveInvariant == Spec => []IInv
<1>1. Init => IInv
  BY InitInv
<1>2. IInv /\ [Next]_vars => IInv'
  BY NextInv
<1> QED
  BY <1>1, <1>2, PTL DEF Spec

(* Every variable keeps its type: in particular no WaitGroup of a call of  *)
(* InsertData is ever counted below zero.                                  *)
THEOREM TypeCorrect == Spec => []TypeOK
<1>1. IInv => TypeOK
  BY DEF IInv
<1> QED
  BY <1>1, InductiveInvariant, PTL

(* The WaitGroup of every call counts exactly the requests of the call     *)
(* that are still in the pipeline.                                         *)
THEOREM WaitGroupsAreExact == Spec => []WaitGroupExact
<1>1. IInv => WaitGroupExact
  BY DEF IInv
<1> QED
  BY <1>1, InductiveInvariant, PTL

(* A call that InsertData reports as written has all its rows stored.      *)
THEOREM SuccessIsDurable == Spec => []SuccessMeansStored
<1>1. IInv => SuccessMeansStored
  BY DEF IInv
<1> QED
  BY <1>1, InductiveInvariant, PTL

(* No pooled buffer is shared by two goroutines, and none in the pool      *)
(* carries rows over.                                                      *)
THEOREM BuffersAreNotShared == Spec => []BufferHasOneOwner
<1>1. IInv => BufferHasOneOwner
  BY DEF IInv
<1> QED
  BY <1>1, InductiveInvariant, PTL

(* No goroutine sends on an error channel its call has closed, and with    *)
(* synchronous acks none is about to send on a channel Close has closed.   *)
THEOREM ChannelsAreOpen == Spec => []NoSendOnClosedChannel
<1>1. IInv => NoSendOnClosedChannel
  <2> SUFFICES ASSUME IInv PROVE NoSendOnClosedChannel
    OBVIOUS
  <2>1. \A r \in Outstanding : r \in Requests /\ pc[r[1]] \in Active /\ errChan[r[1]] # "closed"
    BY OutstandingActive DEF IInv
  <2>2. ASSUME NEW m \in Metrics, rpc[m] \in {"lookup", "create", "signal", "createErr"}
        PROVE  <<held[m], m>> \in Outstanding /\ held[m] \in Calls
    BY <2>2 DEF IInv, AllRoutines, RoutineOK, Starting, Outstanding
  <2>3. ASSUME NEW m \in Metrics, rpc[m] \in {"lookup", "create", "signal", "createErr"}
        PROVE  errChan[held[m]] # "closed"
    <3>1. <<held[m], m>> \in Outstanding
      BY <2>2, <2>3
    <3>2. errChan[<<held[m], m>>[1]] # "closed"
      BY <2>1, <3>1
    <3> QED
      BY <3>2
  <2>4. ASSUME up = "closed", ~AsyncAcks
        PROVE  /\ \A c \in Calls : pc[c] # "enqueue"
               /\ \A m \in Metrics : rpc[m] \notin {"signal", "copy"}
    <3>1. \A c \in Calls : pc[c] \notin Active
      BY <2>4 DEF IInv, CloseInv, Active
    <3>2. \A r \in Outstanding : FALSE
      BY <2>1, <3>1, RequestPair
    <3>3. \A m \in Metrics : rpc[m] # "signal"
      BY <2>2, <3>2
    <3>4. ASSUME NEW m \in Metrics, rpc[m] = "copy"
          PROVE  FALSE
      <4>0. RoutineOK(m) /\ pending[m] \in Buffers \cup {None}
        BY DEF IInv, AllRoutines, TypeOK, RoutineTypes
      <4>1. pending[m] \in Buffers /\ needsResponse[pending[m]] # << >>
        BY <3>4, <4>0 DEF RoutineOK, Handling
      <4>2. TypeOK /\ WaitGroupExact /\ CallInv
        BY DEF IInv
      <4>3. Head(needsResponse[pending[m]]) \in Buffered
        BY <4>1, <4>2, HeadWaits
      <4> QED
        BY <3>2, <4>3 DEF Outstanding
    <3> QED
      BY <3>1, <3>3, <3>4 DEF Active
  <2> QED
    BY <2>1, <2>3, <2>4 DEF NoSendOnClosedChannel
<1> QED
  BY <1>1, InductiveInvariant, PTL

(* Copiers insert rows of a metric into the table of that metric only,     *)
(* with resolved series ids (setSeriesIds, doInsert).                      *)
THEOREM CopiersAreSound == Spec => []RowsReachTheirTable
<1>1. IInv => RowsReachTheirTable
  BY DEF IInv, AllCopiers, CopierOK, Resolved, RowsReachTheirTable
<1> QED
  BY <1>1, InductiveInvariant, PTL

(* Every insertion, the one after a decompression included, walks its batch *)
(* from the start (tryRecovery, SampleInfoIterator).                       *)
THEOREM BatchesAreWhole == Spec => []BatchPosition
<1>1. IInv => BatchPosition
  BY DEF IInv, AllCopiers, CopierOK, BatchPosition
<1> QED
  BY <1>1, InductiveInvariant, PTL

(* A routine that blocks on its channel leaves no request unanswered.      *)
THEOREM BlockedRoutinesOweNothing == Spec => []BlockedRoutineOwesNothing
<1>1. IInv => BlockedRoutineOwesNothing
  BY DEF IInv, AllRoutines, RoutineOK, BlockedRoutineOwesNothing
<1> QED
  BY <1>1, InductiveInvariant, PTL

-----------------------------------------------------------------------------
(* The pipeline implements WriteService.                                   *)

(* The status of a call, by its program counter.                           *)
LEMMA StatusOf ==
  ASSUME TypeOK
  PROVE  /\ CallStatus = [c \in Calls |-> CallStatus[c]]
         /\ \A c \in Calls :
              /\ pc[c] \in {"send", "enqueue", "collect"} => CallStatus[c] = "active"
              /\ pc[c] = "done" => CallStatus[c] = outcome[c]
              /\ pc[c] \in {"idle", "lost"} => CallStatus[c] = pc[c]
BY DEF TypeOK, CallTypes, CallStatus

(* A step that changes neither a program counter nor an outcome changes no *)
(* status.                                                                 *)
LEMMA SameStatus ==
  ASSUME UNCHANGED <<pc, outcome>>
  PROVE  CallStatus' = CallStatus
BY DEF CallStatus

(* The calls whose rows a copier is inserting are all waiting.             *)
LEMMA InsertsWait ==
  ASSUME IInv, NEW k \in Copiers, cpc[k] \in {"insert", "retry"}
  PROVE  /\ creq[k].table \in Metrics
         /\ \A r \in batch[creq[k].data] :
              r \in Requests /\ r = <<r[1], creq[k].table>> /\ pc[r[1]] \in Active
<1>1. CopierOK(k) /\ creq[k] # NoRequest
  BY DEF IInv, AllCopiers, CopierOK
<1>2. creq[k].data \in Buffers /\ creq[k].table \in Metrics
  BY <1>1, CopyApart
<1>3. ASSUME NEW r \in batch[creq[k].data]
      PROVE  r \in Requests /\ r[2] = creq[k].table /\ pc[r[1]] \in Active
  <2>1. r \in Requests /\ r \in Range(needsResponse[creq[k].data]) /\ r[2] = creq[k].table
    BY <1>1, <1>2 DEF CopierOK, Resolved, IInv, TypeOK, BufferTypes
  <2>2. r \in Outstanding
    BY <1>2, <2>1 DEF Outstanding, Buffered
  <2> QED
    BY <2>1, <2>2, OutstandingActive DEF IInv
<1> QED
  BY <1>2, <1>3, RequestPair

(* Every step of the pipeline is a step of WriteService or changes nothing *)
(* a caller can see.                                                       *)
LEMMA StepImplements ==
  IInv /\ IInv' /\ [Next]_vars => [Service!Next]_(Service!svars)
<1> SUFFICES ASSUME IInv, IInv', [Next]_vars
             PROVE  Service!Next \/ (CallStatus' = CallStatus /\ stored' = stored)
  BY DEF Service!svars
<1>0. /\ CallStatus = [c \in Calls |-> CallStatus[c]]
      /\ \A c \in Calls :
           /\ pc[c] \in {"send", "enqueue", "collect"} => CallStatus[c] = "active"
           /\ pc[c] = "done" => CallStatus[c] = outcome[c]
           /\ pc[c] \in {"idle", "lost"} => CallStatus[c] = pc[c]
  BY StatusOf DEF IInv
<1>1. /\ CallStatus' = [c \in Calls |-> CallStatus'[c]]
      /\ \A c \in Calls :
           /\ pc'[c] \in {"send", "enqueue", "collect"} => CallStatus'[c] = "active"
           /\ pc'[c] = "done" => CallStatus'[c] = outcome'[c]
           /\ pc'[c] \in {"idle", "lost"} => CallStatus'[c] = pc'[c]
  BY DEF IInv, TypeOK, CallTypes, CallStatus
<1>2. CASE UNCHANGED <<pc, outcome, stored>>
  BY <1>2, SameStatus
<1>3. CASE Die
  <2>1. \A c \in Calls : pc'[c] = (IF pc[c] \in {"idle", "done"} THEN pc[c] ELSE "lost")
    BY <1>3 DEF Die
  <2>2. UNCHANGED <<outcome, stored>>
    BY <1>3 DEF Die, dbVars
  <2>3. \A c \in Calls : pc[c] = "done" => outcome[c] \in {"ok", "err"}
    BY DEF IInv, TypeOK, CallTypes, CallInv
  <2>4. \A c \in Calls :
          CallStatus'[c] = IF CallStatus[c] = "active" THEN "lost" ELSE CallStatus[c]
    BY SMT, <1>0, <1>1, <2>1, <2>2, <2>3 DEF IInv, TypeOK, CallTypes
  <2>5. Service!Lose
    BY <1>1, <2>2, <2>4 DEF Service!Lose
  <2> QED
    BY <2>5 DEF Service!Next
<1>4. CASE \E c \in Calls : InsertData(c)
  <2>1. PICK c \in Calls : InsertData(c)
    BY <1>4
  <2>2. /\ pc[c] = "idle" /\ pc'[c] = "send" /\ \A d \in Calls \ {c} : pc'[d] = pc[d]
        /\ UNCHANGED <<outcome, stored>>
    BY SMT, <2>1 DEF InsertData, dbVars, IInv, TypeOK, CallTypes
  <2>3. CallStatus'[c] = "active" /\ \A d \in Calls \ {c} : CallStatus'[d] = CallStatus[d]
    BY SMT, <1>0, <1>1, <2>2 DEF IInv, TypeOK, CallTypes
  <2>4. Service!Begin(c)
    BY <1>0, <1>1, <2>2, <2>3 DEF Service!Begin
  <2> QED
    BY <2>4 DEF Service!Next
<1>5. CASE \E c \in Calls : Caller(c)
  <2>1. PICK c \in Calls : Caller(c)
    BY <1>5
  <2>2. CASE Collect(c)
    <3>1. /\ pc[c] = "collect" /\ pc'[c] = "done" /\ \A d \in Calls \ {c} : pc'[d] = pc[d]
          /\ \A d \in Calls \ {c} : outcome'[d] = outcome[d]
          /\ outcome'[c] \in {"ok", "err"} /\ stored' = stored
      BY SMT, <2>2 DEF Collect, dbVars, IInv, TypeOK, CallTypes
    <3>2. /\ CallStatus[c] = "active" /\ CallStatus'[c] = outcome'[c]
          /\ \A d \in Calls \ {c} : CallStatus'[d] = CallStatus[d]
      BY SMT, <1>0, <1>1, <3>1 DEF IInv, TypeOK, CallTypes
    <3>3. CASE outcome'[c] = "ok"
      <4>1. \A m \in Rows[c] : <<c, m>> \in stored
        BY <3>1, <3>3 DEF IInv, SuccessMeansStored
      <4>2. Service!Succeed(c)
        BY <1>0, <1>1, <3>1, <3>2, <3>3, <4>1 DEF Service!Succeed
      <4> QED
        BY <4>2 DEF Service!Next
    <3>4. CASE outcome'[c] = "err"
      <4>1. Service!Fail(c)
        BY <1>0, <1>1, <3>1, <3>2, <3>4 DEF Service!Fail
      <4> QED
        BY <4>1 DEF Service!Next
    <3> QED
      BY <3>1, <3>3, <3>4
  <2>3. CASE ~Collect(c)
    <3>1. /\ \/ pc[c] \in {"send", "enqueue"} /\ pc'[c] \in {"send", "enqueue", "collect"}
             \/ pc'[c] = pc[c]
          /\ \A d \in Calls \ {c} : pc'[d] = pc[d]
          /\ UNCHANGED <<outcome, stored>>
      BY SMTT(60), <2>1, <2>3 DEF Caller, GetMetricInserter, Enqueue, Wait, ReturnAsync, dbVars, IInv, TypeOK,
                        CallTypes
    <3>2. \A d \in Calls : CallStatus'[d] = CallStatus[d]
      BY SMT, <1>0, <1>1, <3>1 DEF IInv, TypeOK, CallTypes
    <3> QED
      BY <1>0, <1>1, <3>1, <3>2
  <2> QED
    BY <2>2, <2>3
<1>6. CASE \E k \in Copiers : DoInsert(k)
  <2>1. PICK k \in Copiers : DoInsert(k)
    BY <1>6
  <2> DEFINE S == {r[1] : r \in batch[creq[k].data]}
             m == creq[k].table
  <2>2. /\ cpc[k] \in {"insert", "retry"} /\ UNCHANGED <<pc, outcome>>
        /\ stored' = stored \/ stored' = stored \cup batch[creq[k].data]
    BY <2>1 DEF DoInsert, InsertRows, callVars
  <2>3. /\ m \in Metrics
        /\ \A r \in batch[creq[k].data] : r \in Requests /\ r = <<r[1], m>> /\ pc[r[1]] \in Active
    BY <2>2, InsertsWait
  <2>4. batch[creq[k].data] = {<<c, m>> : c \in S}
    BY <2>3
  <2>5. S \in SUBSET Calls /\ \A c \in S : CallStatus[c] = "active" /\ m \in Rows[c]
    BY SMT, <1>0, <2>3, RequestPair DEF Active
  <2>6. CallStatus' = CallStatus
    BY <2>2, SameStatus
  <2>7. CASE stored' = stored \cup batch[creq[k].data]
    <3>1. Service!Store(m, S)
      BY <2>4, <2>5, <2>6, <2>7 DEF Service!Store
    <3> QED
      BY <2>3, <2>5, <3>1 DEF Service!Next
  <2> QED
    BY <2>2, <2>6, <2>7
<1>7. CASE \E k \in Copiers : Copier(k) /\ ~DoInsert(k)
  <2>1. UNCHANGED <<pc, outcome, stored>>
    BY <1>7 DEF Copier, TakeCopyRequest, CopierExits, TryRecovery, CopierSend, CopierDone, CopierEnd,
                callVars
  <2> QED
    BY <1>2, <2>1
<1>8. CASE \E m \in Metrics : ReaderCachesName(m) \/ Routine(m)
  <2>1. UNCHANGED <<pc, outcome, stored>>
    BY ZenonT(60), <1>8 DEF ReaderCachesName, Routine, LookupName, CreateMetric, SignalWorker, CreateFailed,
       FailRequest, FailRequestDone, HandleReq, HotReceiveEnds, RoutineExits, SetSeriesIds,
       FlushPending, ReportSend, ReportDone, ReportEnd, RoutineSame, callVars, dbVars
  <2> QED
    BY <1>2, <2>1
<1>9. CASE Startup \/ Close \/ Worker \/ UNCHANGED vars
  <2>1. UNCHANGED <<pc, outcome, stored>>
    BY <1>9 DEF Startup, Close, Worker, WorkerReceive, WorkerExits, FinalizeOpen, FinalizeMetric,
                FinalizeEnd, WorkerSame, vars, callVars, dbVars
  <2> QED
    BY <1>2, <2>1
<1> QED
  BY <1>3, <1>4, <1>5, <1>6, <1>7, <1>8, <1>9 DEF Next, Terminating, Crash, Panic

(* InsertData with its routines, buffers, copiers, failures and crashes    *)
(* does only what WriteService allows.                                     *)
THEOREM PipelineImplementsWriteService == Spec => ImplementsWriteService
<1>1. Init => Service!Init
  BY ZenonT(60) DEF Init, Service!Init, CallStatus
<1>2. IInv /\ IInv' /\ [Next]_vars => [Service!Next]_(Service!svars)
  BY StepImplements
<1> QED
  BY <1>1, <1>2, InductiveInvariant, PTL DEF Spec, ImplementsWriteService, Service!Spec

=============================================================================
