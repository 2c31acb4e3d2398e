--------------------------- MODULE IngestRoutines ---------------------------
(***************************************************************************)
(* Every step of an inserter routine preserves the invariant of            *)
(* IngestInvariant.                                                        *)
(***************************************************************************)
EXTENDS IngestInvariant

(* A leaf goes to Zenon unless it cites another prover.                    *)
USE Zenon

(* A step of a routine that moves no request and no buffer.                *)
LEMMA RoutineMoves ==
  ASSUME IInv, NEW m \in Metrics,
         UNCHANGED <<callVars, copierVars, input, pending, bufferVars, stored, up>>,
         RoutineTypes', OtherTypes',
         \A n \in Metrics : seriesCache[n] \subseteq seriesCache'[n],
         \A n \in Metrics \ {m} : rpc'[n] = rpc[n] /\ hot'[n] = hot[n] /\ held'[n] = held[n],
         rpc[m] # "failedDone", rpc'[m] # "failedDone",
         rpc'[m] \in Starting => rpc[m] \in Starting /\ held'[m] = held[m],
         rpc'[m] \notin Starting \/ (Unsent' = Unsent /\ Queued' = Queued) => RoutineOK(m)'
  PROVE  IInv'
<1>1. Failing' = Failing
  BY FailingFrame
<1>2. Places' /\ WaitGroupExact' /\ Outstanding' = Outstanding /\ Unsent' = Unsent /\ Queued' = Queued
  BY <1>1, SamePlaces DEF callVars, bufferVars
<1>3. TypeOK'
  BY DEF IInv, TypeOK, CallTypes, BufferTypes, CopierTypes, callVars, bufferVars, copierVars
<1>4. ErrorsStay
  BY DEF ErrorsStay, callVars
<1>5. AllRoutines'
  <2> SUFFICES ASSUME NEW n \in Metrics PROVE RoutineOK(n)'
    BY DEF AllRoutines
  <2>1. CASE n = m
    BY <1>2, <2>1
  <2>2. CASE n # m
    <3>1. rpc[n] \in Starting => <<held[n], n>> \in Unsent' \cup Queued'
      BY <1>2 DEF IInv, AllRoutines, RoutineOK
    <3> QED
      BY <1>4, <2>2, <3>1, RoutineFrame DEF SameBuffer, bufferVars
  <2> QED
    BY <2>1, <2>2
<1>6. AnswerInv'
  BY <1>2, AnswerFrame DEF IInv, callVars
<1>7. CallInv' /\ SuccessMeansStored' /\ CloseInv'
  BY DEF IInv, CallInv, SuccessMeansStored, CloseInv, callVars
<1> QED
  BY <1>2, <1>3, <1>4, <1>5, <1>6, <1>7, SameBuffersFrame DEF IInv

(* A routine that has its table takes a buffer and enters its loop.        *)
LEMMA StartLoopInv ==
  ASSUME IInv, NEW m \in Metrics, rpc[m] \in {"lookup", "create", "signal"}, StartLoop(m),
         UNCHANGED <<callVars, copierVars, hot, input, seriesCache, needsResponse, batch, infos,
                     iterated, stored, up>>,
         OtherTypes'
  PROVE  IInv'
<1>1. PICK b \in pool : pending' = [pending EXCEPT ![m] = b] /\ pool' = pool \ {b}
  BY DEF StartLoop, GetBuffer
<1>2. /\ b \in Buffers /\ b # None
      /\ pending'[m] = b /\ \A n \in Metrics \ {m} : pending'[n] = pending[n]
      /\ rpc'[m] = "recv" /\ \A n \in Metrics \ {m} : rpc'[n] = rpc[n]
      /\ held'[m] = None /\ \A n \in Metrics \ {m} : held'[n] = held[n]
  BY <1>1, ConstantsAssumption DEF IInv, TypeOK, RoutineTypes, BufferTypes, StartLoop
<1>3. ~hot[m] /\ pending[m] = None
  BY DEF IInv, AllRoutines, RoutineOK, Handling
<1>4. needsResponse[b] = << >> /\ batch[b] = {} /\ ~iterated[b]
  BY <1>1 DEF IInv, BufferHasOneOwner
<1>5. Failing' = Failing
  BY <1>2, FailingFrame
<1>6. Places' /\ WaitGroupExact' /\ Outstanding' = Outstanding /\ Unsent' = Unsent /\ Queued' = Queued
  BY <1>5, SamePlaces DEF callVars
<1>7. TypeOK'
  <2>1. RoutineTypes'
    BY <1>1, <1>2 DEF IInv, TypeOK, RoutineTypes, StartLoop
  <2>2. BufferTypes'
    BY <1>1 DEF IInv, TypeOK, BufferTypes
  <2> QED
    BY <2>1, <2>2 DEF IInv, TypeOK, CallTypes, CopierTypes, callVars, copierVars
<1>8. ErrorsStay
  BY DEF ErrorsStay, callVars
<1>9. AllRoutines'
  <2> SUFFICES ASSUME NEW n \in Metrics PROVE RoutineOK(n)'
    BY DEF AllRoutines
  <2>1. CASE n = m
    BY <1>2, <1>3, <1>4, <2>1 DEF RoutineOK, PendingOK, Starting, Handling
  <2>2. CASE n # m
    <3>1. rpc[n] \in Starting => <<held[n], n>> \in Unsent' \cup Queued'
      BY <1>6 DEF IInv, AllRoutines, RoutineOK
    <3> QED
      BY <1>2, <1>8, <2>2, <3>1, RoutineFrame DEF SameBuffer
  <2> QED
    BY <2>1, <2>2
<1>10. AllBuffers' /\ AllQueued' /\ AllCopiers'
  <2>1. \A x \in CopyData : SameBuffer(x)
    BY DEF SameBuffer
  <2> QED
    BY <1>8, <2>1, CopySideFrame DEF IInv, AllBuffers, BufferOK
<1>11. BufferHasOneOwner'
  BY SMT, <1>1, <1>2, <1>3 DEF IInv, BufferHasOneOwner, copierVars
<1>12. AnswerInv'
  BY <1>6, AnswerFrame DEF IInv, callVars
<1>13. CallInv' /\ SuccessMeansStored' /\ CloseInv'
  BY DEF IInv, CallInv, SuccessMeansStored, CloseInv, callVars
<1> QED
  BY <1>6, <1>7, <1>9, <1>10, <1>11, <1>12, <1>13 DEF IInv

LEMMA LookupNameInv ==
  ASSUME IInv, NEW m \in Metrics, LookupName(m)
  PROVE  IInv'
<1> USE DEF LookupName, RoutineSame, procVars, dbVars
<1>1. OtherTypes'
  BY DEF IInv, TypeOK, OtherTypes, workerVars
<1>2. CASE StartLoop(m)
  BY <1>1, <1>2, StartLoopInv
<1>3. CASE rpc' = [rpc EXCEPT ![m] = "create"] /\ UNCHANGED <<held, pending, pool>>
  <2>1. /\ rpc'[m] = "create" /\ \A n \in Metrics \ {m} : rpc'[n] = rpc[n]
        /\ RoutineTypes'
    BY <1>3 DEF IInv, TypeOK, RoutineTypes
  <2>2. Unsent' = Unsent /\ Queued' = Queued => RoutineOK(m)'
    BY <1>3, <2>1 DEF IInv, AllRoutines, RoutineOK, PendingOK, Starting, Handling
  <2> QED
    BY <1>1, <1>3, <2>1, <2>2, RoutineMoves DEF Starting, bufferVars
<1> QED
  BY <1>2, <1>3

LEMMA CreateMetricInv ==
  ASSUME IInv, NEW m \in Metrics, CreateMetric(m)
  PROVE  IInv'
<1> USE DEF CreateMetric, procVars
<1>1. OtherTypes'
  BY SMT, ConstantsAssumption DEF IInv, TypeOK, OtherTypes, workerVars, Fault
<1>2. CASE StartLoop(m)
  BY <1>1, <1>2, StartLoopInv
<1>3. CASE /\ rpc' = [rpc EXCEPT ![m] = "signal"] \/ rpc' = [rpc EXCEPT ![m] = "createErr"]
           /\ UNCHANGED <<held, pending, pool>>
  <2>1. /\ rpc'[m] \in {"signal", "createErr"} /\ \A n \in Metrics \ {m} : rpc'[n] = rpc[n]
        /\ RoutineTypes'
    BY <1>3 DEF IInv, TypeOK, RoutineTypes
  <2>2. Unsent' = Unsent /\ Queued' = Queued => RoutineOK(m)'
    BY <1>3, <2>1 DEF IInv, AllRoutines, RoutineOK, PendingOK, Starting, Handling
  <2> QED
    BY <1>1, <1>3, <2>1, <2>2, RoutineMoves DEF Starting, bufferVars
<1> QED
  BY <1>2, <1>3

LEMMA SignalWorkerInv ==
  ASSUME IInv, NEW m \in Metrics, SignalWorker(m)
  PROVE  IInv'
<1> USE DEF SignalWorker, SendSignal, RoutineSame, procVars, dbVars
<1>1. OtherTypes'
  BY DEF IInv, TypeOK, OtherTypes
<1> QED
  BY <1>1, StartLoopInv

LEMMA HotReceiveEndsInv ==
  ASSUME IInv, NEW m \in Metrics, HotReceiveEnds(m)
  PROVE  IInv'
<1> USE DEF HotReceiveEnds, HasPendingReqs, RoutineSame, procVars, dbVars
<1>1. OtherTypes'
  BY DEF IInv, TypeOK, OtherTypes, workerVars
<1>2. /\ pending[m] \in Buffers /\ RoutineOK(m) /\ PendingOK(m) /\ BufferOK(pending[m])
      /\ infos[pending[m]] \in Nat
  BY SMT DEF IInv, AllRoutines, AllBuffers, RoutineOK, Handling, TypeOK, RoutineTypes, BufferTypes
<1>3. /\ rpc'[m] = IF infos[pending[m]] > 0 THEN "setIds" ELSE "recv"
      /\ ~hot'[m]
      /\ \A n \in Metrics \ {m} : rpc'[n] = rpc[n] /\ hot'[n] = hot[n]
      /\ RoutineTypes'
  BY DEF IInv, TypeOK, RoutineTypes
<1>4. infos[pending[m]] > 0 => needsResponse[pending[m]] # << >>
  <2>1. Range(<< >>) = {}
    BY SMT DEF Range
  <2> QED
    BY <1>2, <2>1 DEF BufferOK, PendingOK
<1>5. RoutineOK(m)'
  BY SMTT(60), <1>2, <1>3, <1>4 DEF RoutineOK, PendingOK, BufferOK, Starting, Handling, bufferVars
<1>6. rpc'[m] \in {"setIds", "recv"} /\ rpc[m] = "recv"
  BY <1>3
<1> QED
  BY <1>1, <1>3, <1>5, <1>6, RoutineMoves DEF Starting

LEMMA RoutineExitsInv ==
  ASSUME IInv, NEW m \in Metrics, RoutineExits(m)
  PROVE  IInv'
<1> USE DEF RoutineExits, RoutineSame, procVars, dbVars
<1>1. OtherTypes'
  BY DEF IInv, TypeOK, OtherTypes, workerVars
<1>2. RoutineOK(m)
  BY DEF IInv, AllRoutines
<1>3. /\ rpc'[m] \in {"spin", "exited"} /\ rpc[m] \in {"recv", "failed"}
      /\ rpc'[m] = "spin" => rpc[m] = "recv"
      /\ \A n \in Metrics \ {m} : rpc'[n] = rpc[n]
      /\ RoutineTypes'
  BY <1>2 DEF IInv, TypeOK, RoutineTypes, RoutineOK, Handling
<1>4. RoutineOK(m)'
  BY <1>2, <1>3 DEF RoutineOK, PendingOK, Starting, Handling, bufferVars
<1> QED
  BY <1>1, <1>3, <1>4, RoutineMoves DEF Starting

LEMMA SetSeriesIdsInv ==
  ASSUME IInv, NEW m \in Metrics, SetSeriesIds(m)
  PROVE  IInv'
<1> USE DEF SetSeriesIds, RoutineSame, procVars, dbVars
<1>1. OtherTypes'
  BY SMT, ConstantsAssumption DEF IInv, TypeOK, OtherTypes, workerVars, Fault
<1>2. /\ RoutineOK(m) /\ PendingOK(m) /\ pending[m] \in Buffers
      /\ batch[pending[m]] \subseteq Requests
  BY SMT DEF IInv, AllRoutines, RoutineOK, Handling, TypeOK, RoutineTypes, BufferTypes
<1>3. PICK S \in SUBSET MissingSeries(m) :
        /\ seriesCache' = [seriesCache EXCEPT ![m] = @ \cup S]
        /\ \/ rpc' = [rpc EXCEPT ![m] = "copy"] /\ S = MissingSeries(m)
           \/ rpc' = [rpc EXCEPT ![m] = "report"]
  OBVIOUS
<1>4. S \subseteq Series
  BY SMT, <1>2, ConstantsAssumption DEF MissingSeries
<1>5. /\ rpc'[m] \in {"copy", "report"} /\ \A n \in Metrics \ {m} : rpc'[n] = rpc[n]
      /\ seriesCache'[m] = seriesCache[m] \cup S
      /\ \A n \in Metrics : seriesCache[n] \subseteq seriesCache'[n]
      /\ RoutineTypes'
  BY <1>3, <1>4 DEF IInv, TypeOK, RoutineTypes
<1>6. rpc'[m] = "copy" => \A r \in batch[pending[m]] : Labels[r] \subseteq seriesCache'[m]
  <2> SUFFICES ASSUME rpc'[m] = "copy", NEW r \in batch[pending[m]]
               PROVE  Labels[r] \subseteq seriesCache'[m]
    OBVIOUS
  <2>1. rpc' # [rpc EXCEPT ![m] = "report"]
    BY DEF IInv, TypeOK, RoutineTypes
  <2>2. S = MissingSeries(m)
    BY <1>3, <2>1
  <2> QED
    BY <1>5, <2>2 DEF MissingSeries
<1>7. RoutineOK(m)'
  BY <1>2, <1>5, <1>6 DEF RoutineOK, PendingOK, Starting, Handling, bufferVars
<1>8. rpc[m] = "setIds" /\ UNCHANGED <<hot, held>>
  OBVIOUS
<1> QED
  BY <1>1, <1>5, <1>7, <1>8, RoutineMoves DEF Starting

(* Sending the error of a call that is waiting.                            *)
LEMMA SendErrInv ==
  ASSUME IInv, NEW c \in Calls, pc[c] \in Active, TrySendErr(c),
         UNCHANGED <<pc, todo, target, wg, outcome, ack>>
  PROVE  /\ errChan'[c] = "full" /\ ErrorsStay
         /\ \A d \in Calls : errChan[d] = "full" => errChan'[d] = "full"
         /\ CallTypes' /\ CallInv'
<1>1. errChan[c] \in {"empty", "full"} /\ errChan \in [Calls -> {"empty", "full", "closed"}]
  BY DEF IInv, TypeOK, CallTypes, CallInv, Active
<1>2. /\ errChan'[c] = "full" /\ \A d \in Calls \ {c} : errChan'[d] = errChan[d]
      /\ errChan' \in [Calls -> {"empty", "full", "closed"}]
  BY <1>1 DEF TrySendErr
<1>3. CallTypes'
  BY <1>2 DEF IInv, TypeOK, CallTypes
<1>4. CallInv'
  BY <1>2 DEF IInv, CallInv
<1> QED
  BY <1>2, <1>3, <1>4 DEF ErrorsStay

LEMMA CreateFailedInv ==
  ASSUME IInv, NEW m \in Metrics, CreateFailed(m)
  PROVE  IInv'
<1> USE DEF CreateFailed, procVars, dbVars
<1>1. held[m] \in Calls /\ <<held[m], m>> \in Outstanding /\ ~hot[m] /\ pending[m] = None
  BY DEF IInv, AllRoutines, RoutineOK, Starting, Handling, Outstanding
<1>2. pc[held[m]] \in Active
  BY <1>1, OutstandingActive DEF IInv
<1>3. /\ ErrorsStay /\ CallTypes' /\ CallInv'
      /\ \A d \in Calls : errChan[d] = "full" => errChan'[d] = "full"
  BY <1>1, <1>2, SendErrInv
<1>4. /\ rpc'[m] = "failed" /\ \A n \in Metrics \ {m} : rpc'[n] = rpc[n] /\ held'[n] = held[n]
      /\ RoutineTypes'
  BY DEF IInv, TypeOK, RoutineTypes
<1>5. TypeOK'
  BY <1>3, <1>4 DEF IInv, TypeOK, BufferTypes, CopierTypes, OtherTypes, bufferVars, copierVars,
                    workerVars
<1>6. Failing' = Failing
  BY <1>4, FailingFrame
<1>7. Places' /\ WaitGroupExact' /\ Outstanding' = Outstanding /\ Unsent' = Unsent /\ Queued' = Queued
  BY <1>6, SamePlaces DEF bufferVars
<1>8. AllRoutines'
  <2> SUFFICES ASSUME NEW n \in Metrics PROVE RoutineOK(n)'
    BY DEF AllRoutines
  <2>1. CASE n = m
    BY <1>1, <1>4, <2>1 DEF RoutineOK, Starting, Handling
  <2>2. CASE n # m
    <3>1. rpc[n] \in Starting => <<held[n], n>> \in Unsent' \cup Queued'
      BY <1>7 DEF IInv, AllRoutines, RoutineOK
    <3> QED
      BY <1>3, <1>4, <2>2, <3>1, RoutineFrame DEF SameBuffer, bufferVars
  <2> QED
    BY <2>1, <2>2
<1>9. AnswerInv'
  BY <1>3, <1>7, AnswerFrame DEF IInv
<1>10. SuccessMeansStored' /\ CloseInv'
  BY DEF IInv, SuccessMeansStored, CloseInv
<1> QED
  BY <1>3, <1>5, <1>7, <1>8, <1>9, <1>10, SameBuffersFrame DEF IInv

LEMMA FailRequestInv ==
  ASSUME IInv, NEW m \in Metrics, FailRequest(m)
  PROVE  IInv'
<1> DEFINE r == Head(input[m])
           c == r[1]
<1> USE DEF FailRequest, procVars, dbVars
<1>1. /\ input[m] \in Seq(Requests) /\ IsInjective(input[m])
      /\ input'[m] = Tail(input[m]) /\ \A n \in Metrics \ {m} : input'[n] = input[n]
  BY DEF IInv, TypeOK, RoutineTypes, Places
<1>2. /\ r \in Requests /\ r \in Range(input[m])
      /\ input'[m] \in Seq(Requests) /\ IsInjective(input'[m])
      /\ Range(input'[m]) = Range(input[m]) \ {r}
  BY SMTT(60), <1>1, TailRange
<1>3. r[2] = m /\ c \in Calls /\ r = <<c, m>> /\ m \in Rows[c] /\ r \in Queued
  BY <1>2, RequestPair DEF IInv, Places, Queued
<1> HIDE DEF r
<1>4. r \in Outstanding /\ pc[c] \in Active
  BY <1>3, OutstandingActive DEF IInv, Outstanding
<1>5. TrySendErr(c) /\ held' = [held EXCEPT ![m] = c] /\ rpc' = [rpc EXCEPT ![m] = "failedDone"]
  BY DEF r
<1>6. /\ errChan'[c] = "full" /\ ErrorsStay /\ CallTypes' /\ CallInv'
      /\ \A d \in Calls : errChan[d] = "full" => errChan'[d] = "full"
  BY <1>3, <1>4, <1>5, SendErrInv
<1>7. /\ rpc'[m] = "failedDone" /\ held'[m] = c
      /\ \A n \in Metrics \ {m} : rpc'[n] = rpc[n] /\ held'[n] = held[n]
      /\ rpc[m] = "failed" /\ ~hot[m] /\ pending[m] = None
  BY <1>5 DEF IInv, TypeOK, RoutineTypes, AllRoutines, RoutineOK, Handling
<1>8. RoutineTypes'
  BY SMT, <1>1, <1>2, <1>3, <1>5 DEF IInv, TypeOK, RoutineTypes
<1>9. TypeOK'
  BY <1>6, <1>8 DEF IInv, TypeOK, BufferTypes, CopierTypes, OtherTypes, bufferVars, copierVars,
                    workerVars
<1>10. /\ Unsent' = Unsent /\ Queued' = Queued \ {r} /\ Failing' = Failing \cup {r}
       /\ Buffered' = Buffered
  <2>1. Queued' = Queued \ {r}
    BY <1>1, <1>2, <1>3, RequestPair DEF Queued
  <2> HIDE DEF FailRequest
  <2>2. \A q \in Requests : q \in Failing' <=> q \in Failing \/ q = r
    <3> TAKE q \in Requests
    <3>1. CASE q[2] = m
      BY <1>2, <1>3, <1>7, <3>1, RequestPair DEF Failing
    <3>2. CASE q[2] # m
      BY <1>3, <1>7, <3>2, RequestPair DEF Failing
    <3> QED
      BY <3>1, <3>2
  <2>3. Failing' = Failing \cup {r}
    BY <1>2, <2>2 DEF Failing
  <2> QED
    BY <2>1, <2>3 DEF FailRequest, Unsent, Buffered, bufferVars
<1>11. Outstanding' = Outstanding
  BY <1>3, <1>10 DEF Outstanding
<1>12. Places' /\ WaitGroupExact'
  <2>1. \A n \in Metrics : IsInjective(input'[n]) /\ \A q \in Range(input'[n]) : q[2] = n
    BY <1>1, <1>2 DEF IInv, Places
  <2>2. /\ Unsent' \cap (Queued' \cup Failing' \cup Buffered') = {}
        /\ Queued' \cap (Failing' \cup Buffered') = {} /\ Failing' \cap Buffered' = {}
    BY <1>3, <1>10 DEF IInv, Places
  <2>3. Places'
    BY <2>1, <2>2 DEF IInv, Places, bufferVars
  <2> QED
    BY <1>11, <2>3, KeepCount DEF IInv
<1>13. AllRoutines'
  <2> SUFFICES ASSUME NEW n \in Metrics PROVE RoutineOK(n)'
    BY DEF AllRoutines
  <2>1. CASE n = m
    BY <1>3, <1>6, <1>7, <2>1 DEF RoutineOK, Starting, Handling
  <2>2. CASE n # m
    <3>1. rpc[n] \in Starting => <<held[n], n>> \in Unsent' \cup Queued'
      BY SMT, <1>3, <1>10, <2>2 DEF IInv, AllRoutines, RoutineOK
    <3> QED
      BY <1>6, <1>7, <2>2, <3>1, RoutineFrame DEF SameBuffer, bufferVars
  <2> QED
    BY <2>1, <2>2
<1>14. AnswerInv'
  BY <1>6, <1>11, AnswerFrame DEF IInv
<1>15. SuccessMeansStored' /\ CloseInv'
  BY DEF IInv, SuccessMeansStored, CloseInv
<1> QED
  BY <1>6, <1>9, <1>12, <1>13, <1>14, <1>15, SameBuffersFrame DEF IInv

(* A waiting request is answered and its call's WaitGroup counted down.    *)
LEMMA AnsweredInv ==
  ASSUME IInv, NEW r \in Requests, r \in Outstanding, Outstanding' = Outstanding \ {r},
         Done(r[1]), UNCHANGED <<pc, todo, target, errChan, outcome, ack, stored>>,
         r \in stored \/ errChan[r[1]] = "full"
  PROVE  WaitGroupExact' /\ CallTypes' /\ CallInv' /\ AnswerInv' /\ ErrorsStay
<1>1. r[1] \in Calls /\ pc[r[1]] \in Active
  BY OutstandingActive, RequestPair DEF IInv
<1>2. WaitGroupExact'
  BY DropCount DEF IInv, Done
<1>3. /\ wg' = [wg EXCEPT ![r[1]] = @ - 1] /\ wg \in [Calls -> Nat]
      /\ wg[r[1]] = Cardinality(OutstandingOf(r[1]))
  BY <1>1 DEF Done, IInv, TypeOK, CallTypes, WaitGroupExact
<1>4. wg[r[1]] # 0
  <2>1. r[2] \in OutstandingOf(r[1])
    BY RequestPair DEF OutstandingOf
  <2> QED
    BY <1>1, <1>3, <2>1, OutstandingFinite
<1>5. CallTypes'
  BY SMT, <1>1, <1>3, <1>4 DEF IInv, TypeOK, CallTypes
<1>6. CallInv'
  BY <1>1, <1>3 DEF IInv, CallInv
<1>7. AnswerInv'
  BY DEF IInv, AnswerInv
<1>8. ErrorsStay
  BY DEF ErrorsStay
<1> QED
  BY <1>2, <1>5, <1>6, <1>7, <1>8

LEMMA FailRequestDoneInv ==
  ASSUME IInv, NEW m \in Metrics, FailRequestDone(m)
  PROVE  IInv'
<1> DEFINE c == held[m]
           r == <<c, m>>
<1> USE DEF FailRequestDone, procVars, dbVars
<1>1. /\ c \in Calls /\ r \in Requests /\ errChan[c] = "full" /\ r[1] = c /\ r[2] = m
      /\ ~hot[m] /\ pending[m] = None
  BY RequestPair DEF IInv, AllRoutines, RoutineOK, Handling
<1>2. r \in Failing /\ r \in Outstanding
  BY <1>1 DEF Failing, Outstanding
<1>3. /\ rpc'[m] = "failed" /\ \A n \in Metrics \ {m} : rpc'[n] = rpc[n] /\ held'[n] = held[n]
      /\ RoutineTypes'
  BY DEF IInv, TypeOK, RoutineTypes
<1>4. Unsent' = Unsent /\ Queued' = Queued /\ Failing' = Failing \ {r} /\ Buffered' = Buffered
  <2>1. Failing' = Failing \ {r}
    BY ZenonT(60), <1>1, <1>3, RequestPair DEF Failing
  <2> QED
    BY <2>1 DEF Unsent, Queued, Buffered, bufferVars
<1>5. Outstanding' = Outstanding \ {r} /\ Places'
  BY <1>2, <1>4 DEF IInv, Places, Outstanding, bufferVars
<1>6. WaitGroupExact' /\ CallTypes' /\ CallInv' /\ AnswerInv' /\ ErrorsStay
  <2>1. Done(r[1]) /\ errChan[r[1]] = "full"
    BY <1>1
  <2> QED
    BY <1>1, <1>2, <1>5, <2>1, AnsweredInv
<1>7. TypeOK'
  BY <1>3, <1>6 DEF IInv, TypeOK, BufferTypes, CopierTypes, OtherTypes, bufferVars, copierVars,
                    workerVars
<1>8. AllRoutines'
  <2> SUFFICES ASSUME NEW n \in Metrics PROVE RoutineOK(n)'
    BY DEF AllRoutines
  <2>1. CASE n = m
    BY <1>1, <1>3, <2>1 DEF RoutineOK, Starting, Handling
  <2>2. CASE n # m
    <3>1. rpc[n] \in Starting => <<held[n], n>> \in Unsent' \cup Queued'
      BY <1>4 DEF IInv, AllRoutines, RoutineOK
    <3> QED
      BY <1>3, <1>6, <2>2, <3>1, RoutineFrame DEF SameBuffer, bufferVars
  <2> QED
    BY <2>1, <2>2
<1>9. SuccessMeansStored' /\ CloseInv'
  BY DEF IInv, SuccessMeansStored, CloseInv
<1> QED
  BY <1>5, <1>6, <1>7, <1>8, <1>9, SameBuffersFrame DEF IInv

(* A routine's pending buffer is on nobody else's side.                    *)
LEMMA PendingApart ==
  ASSUME IInv, NEW m \in Metrics, pending[m] # None
  PROVE  /\ pending[m] \in Buffers /\ pending[m] \notin pool /\ pending[m] \notin CopyData
         /\ \A n \in Metrics \ {m} : pending[n] # pending[m]
<1>1. pending[m] \in Buffers
  BY DEF IInv, TypeOK, RoutineTypes
<1> QED
  BY <1>1 DEF IInv, BufferHasOneOwner, CopyData

(* Nobody but the routine sees what it does to its pending buffer.         *)
LEMMA OwnBufferFrame ==
  ASSUME IInv, NEW m \in Metrics, pending[m] # None, ErrorsStay,
         UNCHANGED <<pending, pool, copierVars, seriesCache, stored>>,
         \A b \in Buffers \ {pending[m]} : SameBuffer(b),
         \A n \in Metrics \ {m} : rpc'[n] = rpc[n] /\ hot'[n] = hot[n] /\ held'[n] = held[n],
         \A n \in Metrics \ {m} :
           rpc[n] \in Starting => <<held[n], n>> \in Unsent' \cup Queued',
         BufferOK(pending[m])', RoutineOK(m)'
  PROVE  AllRoutines' /\ AllBuffers' /\ AllQueued' /\ AllCopiers' /\ BufferHasOneOwner'
<1>1. /\ pending[m] \in Buffers /\ pending[m] \notin pool /\ pending[m] \notin CopyData
      /\ \A n \in Metrics \ {m} : pending[n] # pending[m]
  BY PendingApart
<1>2. CopyData \subseteq Buffers /\ pool \subseteq Buffers
  BY ZenonT(60), RequestParts DEF CopyData, IInv, TypeOK, BufferTypes
<1>3. AllQueued' /\ AllCopiers'
  BY <1>1, <1>2, CopySideFrame
<1>4. AllRoutines'
  <2> SUFFICES ASSUME NEW n \in Metrics, n # m PROVE RoutineOK(n)'
    BY DEF AllRoutines
  <2>1. pending[n] # None => SameBuffer(pending[n])
    BY <1>1 DEF IInv, TypeOK, RoutineTypes
  <2> QED
    BY <2>1, RoutineFrame
<1>5. AllBuffers'
  BY DEF IInv, AllBuffers, BufferOK, SameBuffer
<1>6. BufferHasOneOwner'
  BY SMT, <1>1, <1>2 DEF IInv, BufferHasOneOwner, copierVars, SameBuffer
<1> QED
  BY <1>3, <1>4, <1>5, <1>6

LEMMA HandleReqInv ==
  ASSUME IInv, NEW m \in Metrics, HandleReq(m)
  PROVE  IInv'
<1> DEFINE r == Head(input[m])
           b == pending[m]
           n == infos[b] + Size[r]
<1>1. /\ rpc[m] = "recv" /\ input[m] # << >>
      /\ input' = [input EXCEPT ![m] = Tail(@)]
      /\ AddReq(b, r)
      /\ rpc' = [rpc EXCEPT ![m] = IF n > FlushSize \/ (hot[m] /\ n = FlushSize)
                                     THEN "setIds" ELSE "recv"]
      /\ hot' = [hot EXCEPT ![m] = IF n > FlushSize THEN @ ELSE ~(@ /\ n = FlushSize)]
      /\ UNCHANGED <<callVars, copierVars, held, pending, seriesCache, pool, iterated, stored, up,
                     nameCache, workerVars, tables, completed, crashes, faults>>
  BY DEF HandleReq, RoutineSame, procVars, dbVars
<1>2. /\ input[m] \in Seq(Requests) /\ IsInjective(input[m])
      /\ input'[m] = Tail(input[m]) /\ \A x \in Metrics \ {m} : input'[x] = input[x]
  BY <1>1 DEF IInv, TypeOK, RoutineTypes, Places
<1>3. /\ r \in Requests /\ r \in Range(input[m])
      /\ input'[m] \in Seq(Requests) /\ IsInjective(input'[m])
      /\ Range(input'[m]) = Range(input[m]) \ {r}
  BY SMT, <1>1, <1>2, TailRange
<1>4. r[2] = m /\ r \in Queued
  BY <1>3 DEF IInv, Places, Queued
<1>5. /\ b \in Buffers /\ b # None /\ RoutineOK(m) /\ PendingOK(m) /\ BufferOK(b)
      /\ needsResponse[b] \in Seq(Requests) /\ IsInjective(needsResponse[b])
      /\ infos[b] \in Nat /\ Size[r] \in Nat \ {0} /\ n \in Nat /\ n > 0
  <2>1. b \in Buffers /\ b # None /\ RoutineOK(m) /\ PendingOK(m)
    <3>1. rpc[m] \in Handling
      BY <1>1 DEF Handling
    <3> QED
      BY <3>1, HandlingFacts
  <2>2. /\ BufferOK(b) /\ infos[b] \in Nat
        /\ needsResponse[b] \in Seq(Requests) /\ IsInjective(needsResponse[b])
    BY <2>1 DEF IInv, AllBuffers, TypeOK, BufferTypes, Places
  <2>3. Size[r] \in Nat \ {0}
    BY <1>3, ConstantsAssumption
  <2> QED
    BY SMTT(60), <2>1, <2>2, <2>3
<1> HIDE DEF r, b
<1>6. r \notin Buffered /\ r \notin Unsent /\ r \notin Failing /\ r \notin Range(needsResponse[b])
  BY <1>3, <1>4, <1>5 DEF IInv, Places, Buffered
<1>7. /\ needsResponse'[b] = Append(needsResponse[b], r)
      /\ batch'[b] = batch[b] \cup {r} /\ infos'[b] = n
      /\ \A x \in Buffers \ {b} : SameBuffer(x)
      /\ iterated'[b] = iterated[b]
  BY <1>1, <1>5 DEF AddReq, IInv, TypeOK, BufferTypes, SameBuffer
<1>8. /\ needsResponse'[b] \in Seq(Requests) /\ needsResponse'[b] # << >>
      /\ Range(needsResponse'[b]) = Range(needsResponse[b]) \cup {r}
      /\ IsInjective(needsResponse'[b])
  BY SMTT(60), <1>3, <1>5, <1>6, <1>7, AppendRange
<1>9. /\ rpc'[m] = IF n > FlushSize \/ (hot[m] /\ n = FlushSize) THEN "setIds" ELSE "recv"
      /\ rpc'[m] = "recv" => hot'[m]
      /\ \A x \in Metrics \ {m} : rpc'[x] = rpc[x] /\ hot'[x] = hot[x]
      /\ held' = held /\ pending' = pending
  <2>1. rpc'[m] = "recv" => hot'[m]
    BY <1>1 DEF IInv, TypeOK, RoutineTypes
  <2> QED
    BY <1>1, <2>1 DEF IInv, TypeOK, RoutineTypes
<1>10. rpc'[m] \in {"setIds", "recv"}
  BY <1>9
<1>11. TypeOK'
  <2>1. RoutineTypes'
    <3>1. /\ hot' \in [Metrics -> BOOLEAN]
          /\ rpc' \in [Metrics -> {"none", "lookup", "create", "signal", "createErr", "failed",
                          "failedDone", "recv", "setIds", "copy", "report", "reportDone",
                          "spin", "exited"}]
      BY <1>1 DEF IInv, TypeOK, RoutineTypes
    <3>2. input' \in [Metrics -> Seq(Requests)]
      BY <1>1, <1>2, <1>3 DEF IInv, TypeOK, RoutineTypes
    <3> QED
      BY <1>1, <3>1, <3>2 DEF IInv, TypeOK, RoutineTypes
  <2>2. BufferTypes'
    <3>1. needsResponse' \in [Buffers -> Seq(Requests)]
      BY <1>1, <1>5, <1>7, <1>8 DEF AddReq, IInv, TypeOK, BufferTypes
    <3> QED
      BY <1>1, <1>3, <1>5, <3>1 DEF AddReq, IInv, TypeOK, BufferTypes
  <2> QED
    BY <1>1, <2>1, <2>2 DEF IInv, TypeOK, CallTypes, CopierTypes, OtherTypes, callVars, copierVars,
                            workerVars
<1>12. /\ Unsent' = Unsent /\ Queued' = Queued \ {r} /\ Failing' = Failing
       /\ Buffered' = Buffered \cup {r}
  <2>1. Queued' = Queued \ {r}
    BY <1>2, <1>3, <1>4, RequestPair DEF Queued
  <2>2. Failing' = Failing
    BY <1>1, <1>9, <1>10, FailingFrame
  <2>3. Buffered' = Buffered \cup {r}
    BY <1>3, <1>5, <1>7, <1>8 DEF Buffered, SameBuffer
  <2> QED
    BY <1>1, <2>1, <2>2, <2>3 DEF Unsent, callVars
<1>13. Outstanding' = Outstanding
  BY <1>4, <1>12 DEF Outstanding
<1>14. Places' /\ WaitGroupExact'
  <2>1. \A x \in Metrics : IsInjective(input'[x]) /\ \A q \in Range(input'[x]) : q[2] = x
    BY <1>2, <1>3 DEF IInv, Places
  <2>2. \A x \in Buffers : IsInjective(needsResponse'[x])
    BY <1>7, <1>8 DEF IInv, Places, SameBuffer
  <2>3. \A x, y \in Buffers :
          x # y => Range(needsResponse'[x]) \cap Range(needsResponse'[y]) = {}
    <3> TAKE x, y \in Buffers
    <3>1. \A z \in Buffers : r \notin Range(needsResponse[z])
      BY <1>3, <1>6 DEF Buffered
    <3>2. \A z \in Buffers \ {b} : needsResponse'[z] = needsResponse[z]
      BY <1>7 DEF SameBuffer
    <3>3. x # y => Range(needsResponse[x]) \cap Range(needsResponse[y]) = {}
      BY DEF IInv, Places
    <3> QED
      BY SMT, <1>8, <3>1, <3>2, <3>3
  <2>4. /\ Unsent' \cap (Queued' \cup Failing' \cup Buffered') = {}
        /\ Queued' \cap (Failing' \cup Buffered') = {} /\ Failing' \cap Buffered' = {}
    BY <1>6, <1>12 DEF IInv, Places
  <2>5. Places'
    BY <2>1, <2>2, <2>3, <2>4 DEF Places
  <2> QED
    BY <1>1, <1>13, <2>5, KeepCount DEF IInv, callVars
<1>15. BufferOK(pending[m])'
  <2>1. pending'[m] = b
    BY <1>1 DEF b
  <2>2. Range(needsResponse'[b]) \subseteq batch'[b] /\ infos'[b] > 0 /\ batch'[b] # {}
    BY <1>5, <1>7, <1>8 DEF BufferOK
  <2> QED
    BY <2>1, <2>2 DEF BufferOK
<1>16. RoutineOK(m)'
  <2>1. pending[m] = b
    BY DEF b
  <2>2. PendingOK(m)'
    BY <1>1, <1>4, <1>5, <1>7, <1>8, <1>9, <1>10, <2>1 DEF PendingOK
  <2> QED
    BY <1>5, <1>8, <1>9, <1>10, <2>1, <2>2 DEF RoutineOK, Starting, Handling
<1>17. ErrorsStay
  BY <1>1 DEF ErrorsStay, callVars
<1>18. AllRoutines' /\ AllBuffers' /\ AllQueued' /\ AllCopiers' /\ BufferHasOneOwner'
  <2>1. \A x \in Metrics \ {m} : rpc[x] \in Starting => <<held[x], x>> \in Unsent' \cup Queued'
    BY SMT, <1>4, <1>12 DEF IInv, AllRoutines, RoutineOK
  <2>2. pending[m] = b
    BY DEF b
  <2> QED
    BY <1>1, <1>5, <1>7, <1>9, <1>15, <1>16, <1>17, <2>1, <2>2, OwnBufferFrame
<1>19. AnswerInv'
  BY <1>1, <1>13, AnswerFrame DEF IInv, callVars
<1>20. CallInv' /\ SuccessMeansStored' /\ CloseInv'
  BY <1>1 DEF IInv, CallInv, SuccessMeansStored, CloseInv, callVars
<1> QED
  BY <1>11, <1>14, <1>18, <1>19, <1>20 DEF IInv

LEMMA FlushPendingInv ==
  ASSUME IInv, NEW m \in Metrics, FlushPending(m)
  PROVE  IInv'
<1> DEFINE q == [data |-> pending[m], table |-> m]
<1>1. /\ rpc[m] = "copy" /\ up = "up"
      /\ toCopiers' = Append(toCopiers, q)
      /\ rpc' = [rpc EXCEPT ![m] = "recv"]
      /\ UNCHANGED <<callVars, cpc, creq, cerr, hot, held, input, seriesCache, needsResponse, batch,
                     infos, iterated, stored, up, tables, completed, crashes, nameCache, workerVars,
                     faults>>
  BY DEF FlushPending, procVars, dbVars
<1>2. PICK b \in pool : pending' = [pending EXCEPT ![m] = b] /\ pool' = pool \ {b}
  BY DEF FlushPending, GetBuffer
<1>3. /\ b \in Buffers /\ b # None
      /\ pending'[m] = b /\ \A n \in Metrics \ {m} : pending'[n] = pending[n]
      /\ rpc'[m] = "recv" /\ \A n \in Metrics \ {m} : rpc'[n] = rpc[n]
  BY <1>1, <1>2, ConstantsAssumption DEF IInv, TypeOK, RoutineTypes, BufferTypes
<1>4. RoutineOK(m) /\ PendingOK(m) /\ pending[m] # None
  BY <1>1 DEF IInv, AllRoutines, RoutineOK, Handling
<1>5. /\ pending[m] \in Buffers /\ pending[m] \notin pool /\ pending[m] \notin CopyData
      /\ \A n \in Metrics \ {m} : pending[n] # pending[m]
  BY <1>4, PendingApart
<1>6. /\ q \in CopyRequests /\ q.data = pending[m] /\ q.table = m
      /\ toCopiers \in Seq(CopyRequests)
  BY <1>5 DEF CopyRequests, IInv, TypeOK, CopierTypes
<1> HIDE DEF q
<1>7. /\ toCopiers' \in Seq(CopyRequests)
      /\ DOMAIN toCopiers' = DOMAIN toCopiers \cup {Len(toCopiers) + 1}
      /\ Len(toCopiers) + 1 \notin DOMAIN toCopiers
      /\ toCopiers'[Len(toCopiers) + 1] = q
      /\ \A i \in DOMAIN toCopiers : toCopiers'[i] = toCopiers[i]
  <2>1. /\ toCopiers' \in Seq(CopyRequests) /\ Len(toCopiers') = Len(toCopiers) + 1
        /\ toCopiers'[Len(toCopiers) + 1] = q
        /\ \A i \in 1..Len(toCopiers) : toCopiers'[i] = toCopiers[i]
    BY SMT, <1>1, <1>6, AppendProperties
  <2>2. /\ DOMAIN toCopiers = 1..Len(toCopiers) /\ Len(toCopiers) \in Nat
        /\ DOMAIN toCopiers' = 1..(Len(toCopiers) + 1)
    BY <1>6, <2>1, LenProperties
  <2> QED
    BY SMT, <2>1, <2>2
<1>8. needsResponse[b] = << >> /\ batch[b] = {} /\ ~iterated[b]
  BY <1>2 DEF IInv, BufferHasOneOwner
<1>9. Failing' = Failing
  BY <1>1, <1>3, FailingFrame
<1>10. Places' /\ WaitGroupExact' /\ Outstanding' = Outstanding /\ Unsent' = Unsent /\ Queued' = Queued
  BY <1>1, <1>9, SamePlaces DEF callVars
<1>11. TypeOK'
  <2>1. RoutineTypes'
    BY <1>1, <1>2, <1>3 DEF IInv, TypeOK, RoutineTypes
  <2>2. BufferTypes'
    BY <1>1, <1>2 DEF IInv, TypeOK, BufferTypes
  <2>3. CopierTypes'
    BY <1>1, <1>7 DEF IInv, TypeOK, CopierTypes
  <2> QED
    BY <1>1, <2>1, <2>2, <2>3 DEF IInv, TypeOK, CallTypes, OtherTypes, callVars, workerVars
<1>12. ErrorsStay
  BY <1>1 DEF ErrorsStay, callVars
<1>13. AllRoutines'
  <2> SUFFICES ASSUME NEW n \in Metrics PROVE RoutineOK(n)'
    BY DEF AllRoutines
  <2>1. CASE n = m
    <3>1. PendingOK(m)'
      BY <1>1, <1>3, <1>8 DEF PendingOK
    <3> QED
      BY <1>1, <1>3, <1>8, <2>1, <3>1 DEF RoutineOK, Starting, Handling
  <2>2. CASE n # m
    <3>1. rpc[n] \in Starting => <<held[n], n>> \in Unsent' \cup Queued'
      BY <1>10 DEF IInv, AllRoutines, RoutineOK
    <3> QED
      BY <1>1, <1>3, <1>12, <2>2, <3>1, RoutineFrame DEF SameBuffer
  <2> QED
    BY <2>1, <2>2
<1>14. AllQueued'
  <2> SUFFICES ASSUME NEW i \in DOMAIN toCopiers' PROVE ChannelOK(toCopiers[i])'
    BY DEF AllQueued
  <2>1. CASE i \in DOMAIN toCopiers
    <3>1. ChannelOK(toCopiers[i])
      BY <2>1 DEF IInv, AllQueued
    <3> QED
      BY <1>1, <1>7, <2>1, <3>1 DEF ChannelOK, Resolved
  <2>2. CASE i = Len(toCopiers) + 1
    BY <1>1, <1>4, <1>6, <1>7, <2>2 DEF ChannelOK, Resolved, PendingOK
  <2> QED
    BY <1>7, <2>1, <2>2
<1>15. AllBuffers' /\ AllCopiers'
  <2>1. AllCopiers'
    <3> SUFFICES ASSUME NEW k \in Copiers PROVE CopierOK(k)'
      BY DEF AllCopiers
    <3> QED
      BY <1>1, <1>12, CopierFrame DEF SameBuffer
  <2> QED
    BY <1>1, <2>1 DEF IInv, AllBuffers, BufferOK
<1>16. BufferHasOneOwner'
  <2>1. \A n \in Metrics : pending'[n] # None =>
          pending'[n] \notin pool' /\ \A l \in Metrics : pending'[l] = pending'[n] => l = n
    BY SMT, <1>2, <1>3, <1>5 DEF IInv, BufferHasOneOwner
  <2>2. \A i \in DOMAIN toCopiers' :
          /\ toCopiers'[i].data \notin pool'
          /\ \A n \in Metrics : pending'[n] # toCopiers'[i].data
          /\ \A j \in DOMAIN toCopiers' : toCopiers'[j].data = toCopiers'[i].data => j = i
    <3> TAKE i \in DOMAIN toCopiers'
    <3>1. CASE i \in DOMAIN toCopiers
      <4>1. toCopiers'[i].data # pending[m]
        BY <1>5, <1>7, <3>1 DEF CopyData
      <4> QED
        BY SMT, <1>2, <1>3, <1>6, <1>7, <3>1, <4>1 DEF IInv, BufferHasOneOwner
    <3>2. CASE i = Len(toCopiers) + 1
      <4>1. \A j \in DOMAIN toCopiers : toCopiers'[j].data # pending[m]
        BY <1>5, <1>7 DEF CopyData
      <4> QED
        BY SMT, <1>2, <1>3, <1>5, <1>6, <1>7, <3>2, <4>1
    <3> QED
      BY <1>7, <3>1, <3>2
  <2>3. \A k \in Copiers : creq[k] # NoRequest =>
          /\ creq[k].data \notin pool'
          /\ \A n \in Metrics : pending'[n] # creq[k].data
          /\ \A i \in DOMAIN toCopiers' : toCopiers'[i].data # creq[k].data
          /\ \A l \in Copiers : creq[l].data = creq[k].data => l = k
    <3> SUFFICES ASSUME NEW k \in Copiers, creq[k] # NoRequest
                 PROVE  /\ creq[k].data \notin pool'
                        /\ \A n \in Metrics : pending'[n] # creq[k].data
                        /\ \A i \in DOMAIN toCopiers' : toCopiers'[i].data # creq[k].data
                        /\ \A l \in Copiers : creq[l].data = creq[k].data => l = k
      OBVIOUS
    <3>1. creq[k].data # pending[m]
      BY <1>5 DEF CopyData
    <3> QED
      BY SMTT(60), <1>2, <1>3, <1>6, <1>7, <3>1 DEF IInv, BufferHasOneOwner
  <2>4. \A x \in pool' : needsResponse[x] = << >> /\ batch[x] = {} /\ infos[x] = 0 /\ ~iterated[x]
    BY <1>2 DEF IInv, BufferHasOneOwner
  <2> QED
    BY <1>1, <2>1, <2>2, <2>3, <2>4 DEF BufferHasOneOwner
<1>17. AnswerInv'
  BY <1>1, <1>10, AnswerFrame DEF IInv, callVars
<1>18. CallInv' /\ SuccessMeansStored' /\ CloseInv'
  BY <1>1 DEF IInv, CallInv, SuccessMeansStored, CloseInv, callVars
<1> QED
  BY <1>10, <1>11, <1>13, <1>14, <1>15, <1>16, <1>17, <1>18 DEF IInv

LEMMA ReportSendInv ==
  ASSUME IInv, NEW m \in Metrics, ReportSend(m)
  PROVE  IInv'
<1> DEFINE b == pending[m]
           c == Head(needsResponse[b])[1]
<1>1. /\ rpc[m] = "report" /\ needsResponse[b] # << >> /\ TrySendErr(c)
      /\ rpc' = [rpc EXCEPT ![m] = "reportDone"]
      /\ UNCHANGED <<pc, todo, target, wg, outcome, ack, copierVars, stored, up, hot, held, input,
                     pending, seriesCache, bufferVars, tables, completed, crashes, nameCache,
                     workerVars, faults>>
  BY DEF ReportSend, SendResult, procVars, dbVars
<1>2. RoutineOK(m) /\ PendingOK(m) /\ b \in Buffers /\ b # None
  <2>1. rpc[m] \in Handling
    BY <1>1 DEF Handling
  <2> QED
    BY <2>1, HandlingFacts
<1>3. c \in Calls /\ pc[c] \in Active
  BY <1>1, <1>2, HeadWaits DEF IInv
<1>4. /\ errChan'[c] = "full" /\ ErrorsStay /\ CallTypes' /\ CallInv'
      /\ \A d \in Calls : errChan[d] = "full" => errChan'[d] = "full"
  <2> HIDE DEF c
  <2> QED
    BY <1>1, <1>3, SendErrInv
<1>5. /\ rpc'[m] = "reportDone" /\ \A n \in Metrics \ {m} : rpc'[n] = rpc[n]
      /\ RoutineTypes'
  BY <1>1 DEF IInv, TypeOK, RoutineTypes
<1>6. TypeOK'
  BY <1>1, <1>4, <1>5 DEF IInv, TypeOK, BufferTypes, CopierTypes, OtherTypes, bufferVars,
                          copierVars, workerVars
<1>7. Failing' = Failing
  BY <1>1, <1>5, FailingFrame
<1>8. Places' /\ WaitGroupExact' /\ Outstanding' = Outstanding /\ Unsent' = Unsent /\ Queued' = Queued
  BY <1>1, <1>7, SamePlaces DEF bufferVars
<1>9. AllRoutines'
  <2> SUFFICES ASSUME NEW n \in Metrics PROVE RoutineOK(n)'
    BY DEF AllRoutines
  <2>1. CASE n = m
    <3>1. PendingOK(m)'
      BY <1>1, <1>2, <1>5 DEF PendingOK, bufferVars
    <3> QED
      BY <1>1, <1>2, <1>4, <1>5, <2>1, <3>1 DEF RoutineOK, Starting, Handling, bufferVars
  <2>2. CASE n # m
    <3>1. rpc[n] \in Starting => <<held[n], n>> \in Unsent' \cup Queued'
      BY <1>8 DEF IInv, AllRoutines, RoutineOK
    <3> QED
      BY <1>1, <1>4, <1>5, <2>2, <3>1, RoutineFrame DEF SameBuffer, bufferVars
  <2> QED
    BY <2>1, <2>2
<1>10. AnswerInv'
  BY <1>1, <1>4, <1>8, AnswerFrame DEF IInv
<1>11. SuccessMeansStored' /\ CloseInv'
  BY <1>1 DEF IInv, SuccessMeansStored, CloseInv
<1> QED
  BY <1>1, <1>4, <1>6, <1>8, <1>9, <1>10, <1>11, SameBuffersFrame DEF IInv

(* A reporter answers the first waiting request of a buffer.               *)
LEMMA TaskDoneInv ==
  ASSUME IInv, NEW b \in Buffers, needsResponse[b] # << >>, TaskDone(b),
         UNCHANGED <<pc, todo, target, errChan, outcome, ack, input, stored>>,
         Failing' = Failing,
         Head(needsResponse[b]) \in stored \/ errChan[Head(needsResponse[b])[1]] = "full"
  PROVE  /\ needsResponse'[b] \in Seq(Requests)
         /\ Range(needsResponse'[b]) \subseteq Range(needsResponse[b])
         /\ \A x \in Buffers \ {b} : needsResponse'[x] = needsResponse[x]
         /\ needsResponse' \in [Buffers -> Seq(Requests)]
         /\ Unsent' = Unsent /\ Queued' = Queued
         /\ Places' /\ WaitGroupExact' /\ CallTypes' /\ CallInv' /\ AnswerInv' /\ ErrorsStay
<1> DEFINE r == Head(needsResponse[b])
<1>1. /\ needsResponse[b] \in Seq(Requests) /\ IsInjective(needsResponse[b])
      /\ needsResponse'[b] = Tail(needsResponse[b])
      /\ \A x \in Buffers \ {b} : needsResponse'[x] = needsResponse[x]
  BY DEF IInv, TypeOK, BufferTypes, Places, TaskDone
<1>2. /\ needsResponse'[b] \in Seq(Requests) /\ IsInjective(needsResponse'[b])
      /\ Range(needsResponse'[b]) = Range(needsResponse[b]) \ {r}
      /\ r \in Requests /\ r \in Range(needsResponse[b])
  BY SMTT(60), <1>1, TailRange
<1>3. Done(r[1]) /\ (r \in stored \/ errChan[r[1]] = "full")
  BY DEF TaskDone
<1> HIDE DEF r
<1>4. needsResponse' \in [Buffers -> Seq(Requests)]
  BY <1>1, <1>2 DEF IInv, TypeOK, BufferTypes, TaskDone
<1>5. \A x \in Buffers \ {b} : r \notin Range(needsResponse[x])
  BY <1>2 DEF IInv, Places
<1>6. r \in Buffered /\ Buffered' = Buffered \ {r} /\ Unsent' = Unsent /\ Queued' = Queued
  <2>1. r \in Buffered
    BY <1>2 DEF Buffered
  <2>2. Buffered' = Buffered \ {r}
    BY ZenonT(60), <1>1, <1>2, <1>5 DEF Buffered
  <2> QED
    BY <2>1, <2>2 DEF Unsent, Queued
<1>7. Outstanding' = Outstanding \ {r} /\ r \in Outstanding
  BY <1>6 DEF IInv, Places, Outstanding
<1>8. Places'
  <2>1. \A x \in Buffers : /\ IsInjective(needsResponse'[x])
                           /\ Range(needsResponse'[x]) \subseteq Range(needsResponse[x])
    BY <1>1, <1>2 DEF IInv, Places
  <2>2. \A x, y \in Buffers :
          x # y => Range(needsResponse'[x]) \cap Range(needsResponse'[y]) = {}
    BY <2>1 DEF IInv, Places
  <2> QED
    BY <1>6, <2>1, <2>2 DEF IInv, Places
<1>9. WaitGroupExact' /\ CallTypes' /\ CallInv' /\ AnswerInv' /\ ErrorsStay
  BY <1>2, <1>3, <1>7, AnsweredInv
<1> QED
  BY <1>1, <1>2, <1>4, <1>6, <1>8, <1>9

LEMMA ReportDoneInv ==
  ASSUME IInv, NEW m \in Metrics, ReportDone(m)
  PROVE  IInv'
<1>1. /\ rpc[m] = "reportDone" /\ TaskDone(pending[m])
      /\ rpc' = [rpc EXCEPT ![m] = "report"]
      /\ UNCHANGED <<pc, todo, target, errChan, outcome, ack, copierVars, stored, up, hot, held, input,
                     pending, seriesCache, pool, batch, infos, iterated, tables, completed, crashes,
                     nameCache, workerVars, faults>>
  BY DEF ReportDone, procVars, dbVars
<1>2. /\ RoutineOK(m) /\ PendingOK(m) /\ pending[m] \in Buffers /\ pending[m] # None
      /\ BufferOK(pending[m]) /\ infos[pending[m]] \in Nat
      /\ needsResponse[pending[m]] # << >>
      /\ errChan[Head(needsResponse[pending[m]])[1]] = "full"
  <2>1. rpc[m] = "reportDone" /\ rpc[m] \in Handling
    BY <1>1 DEF Handling
  <2>2. /\ RoutineOK(m) /\ PendingOK(m) /\ pending[m] \in Buffers /\ pending[m] # None
        /\ BufferOK(pending[m]) /\ infos[pending[m]] \in Nat
    BY <2>1, HandlingFacts
  <2>3. /\ needsResponse[pending[m]] # << >>
        /\ errChan[Head(needsResponse[pending[m]])[1]] = "full"
    BY <2>1, <2>2 DEF RoutineOK
  <2> QED
    BY <2>2, <2>3
<1>3. /\ rpc'[m] = "report" /\ \A n \in Metrics \ {m} : rpc'[n] = rpc[n]
      /\ RoutineTypes'
  BY <1>1 DEF IInv, TypeOK, RoutineTypes
<1>4. Failing' = Failing
  BY <1>1, <1>3, FailingFrame
<1>5. /\ Range(needsResponse'[pending[m]]) \subseteq Range(needsResponse[pending[m]])
      /\ \A x \in Buffers \ {pending[m]} : needsResponse'[x] = needsResponse[x]
      /\ needsResponse' \in [Buffers -> Seq(Requests)]
      /\ Unsent' = Unsent /\ Queued' = Queued
      /\ Places' /\ WaitGroupExact' /\ CallTypes' /\ CallInv' /\ AnswerInv' /\ ErrorsStay
  BY <1>1, <1>2, <1>4, TaskDoneInv
<1>6. TypeOK'
  BY <1>1, <1>3, <1>5 DEF IInv, TypeOK, BufferTypes, CopierTypes, OtherTypes, copierVars, workerVars
<1>7. RoutineOK(m)' /\ BufferOK(pending[m])'
  <2>1. BufferOK(pending[m])'
    <3>1. infos[pending[m]] > 0 
      BY <1>2 DEF BufferOK
    <3> QED
      BY <1>1, <1>2, <1>5, <3>1 DEF BufferOK
  <2>2. PendingOK(m)'
    BY <1>1, <1>2, <1>3 DEF PendingOK
  <2> QED
    BY <1>1, <1>2, <1>3, <2>1, <2>2 DEF RoutineOK, Starting, Handling
<1>8. AllRoutines' /\ AllBuffers' /\ AllQueued' /\ AllCopiers' /\ BufferHasOneOwner'
  <2>1. \A x \in Metrics \ {m} : rpc[x] \in Starting => <<held[x], x>> \in Unsent' \cup Queued'
    BY <1>5 DEF IInv, AllRoutines, RoutineOK
  <2>2. \A x \in Buffers \ {pending[m]} : SameBuffer(x)
    BY <1>1, <1>5 DEF SameBuffer
  <2> QED
    BY <1>1, <1>2, <1>3, <1>5, <1>7, <2>1, <2>2, OwnBufferFrame
<1>9. SuccessMeansStored' /\ CloseInv'
  BY <1>1 DEF IInv, SuccessMeansStored, CloseInv
<1> QED
  BY <1>5, <1>6, <1>8, <1>9 DEF IInv

LEMMA ReportEndInv ==
  ASSUME IInv, NEW m \in Metrics, ReportEnd(m)
  PROVE  IInv'
<1>1. /\ rpc[m] = "report" /\ needsResponse[pending[m]] = << >> /\ ResetBatch(pending[m])
      /\ rpc' = [rpc EXCEPT ![m] = "recv"]
      /\ UNCHANGED <<callVars, copierVars, stored, up, hot, held, input, pending, seriesCache, pool,
                     needsResponse, tables, completed, crashes, nameCache, workerVars, faults>>
  BY DEF ReportEnd, RoutineSame, procVars, dbVars
<1>2. RoutineOK(m) /\ pending[m] \in Buffers /\ pending[m] # None
  <2>1. rpc[m] \in Handling
    BY <1>1 DEF Handling
  <2> QED
    BY <2>1, HandlingFacts
<1>3. /\ rpc'[m] = "recv" /\ \A n \in Metrics \ {m} : rpc'[n] = rpc[n]
      /\ RoutineTypes'
  BY <1>1 DEF IInv, TypeOK, RoutineTypes
<1>4. /\ batch'[pending[m]] = {} /\ infos'[pending[m]] = 0 /\ ~iterated'[pending[m]]
      /\ \A x \in Buffers \ {pending[m]} : SameBuffer(x)
      /\ BufferTypes'
  BY <1>1, <1>2 DEF ResetBatch, SameBuffer, IInv, TypeOK, BufferTypes
<1>5. TypeOK'
  BY <1>1, <1>3, <1>4 DEF IInv, TypeOK, CallTypes, CopierTypes, OtherTypes, callVars, copierVars,
                          workerVars
<1>6. Failing' = Failing
  BY <1>1, <1>3, FailingFrame
<1>7. Places' /\ WaitGroupExact' /\ Outstanding' = Outstanding /\ Unsent' = Unsent /\ Queued' = Queued
  BY <1>1, <1>6, SamePlaces DEF callVars
<1>8. BufferOK(pending[m])'
  <2>1. Range(<< >>) = {}
    BY SMT DEF Range
  <2>2. ~(0 > 0)
    BY SMT
  <2>3. needsResponse'[pending'[m]] = << >> /\ batch'[pending'[m]] = {} /\ infos'[pending'[m]] = 0
    BY <1>1, <1>4
  <2> QED
    BY <2>1, <2>2, <2>3 DEF BufferOK
<1>9. RoutineOK(m)'
  <2>1. PendingOK(m)'
    BY <1>1, <1>3, <1>4 DEF PendingOK
  <2> QED
    BY <1>1, <1>2, <1>3, <2>1 DEF RoutineOK, Starting, Handling
<1>10. ErrorsStay
  BY <1>1 DEF ErrorsStay, callVars
<1>11. AllRoutines' /\ AllBuffers' /\ AllQueued' /\ AllCopiers' /\ BufferHasOneOwner'
  <2>1. \A x \in Metrics \ {m} : rpc[x] \in Starting => <<held[x], x>> \in Unsent' \cup Queued'
    BY <1>7 DEF IInv, AllRoutines, RoutineOK
  <2> QED
    BY <1>1, <1>2, <1>3, <1>4, <1>8, <1>9, <1>10, <2>1, OwnBufferFrame
<1>12. AnswerInv'
  BY <1>1, <1>7, AnswerFrame DEF IInv, callVars
<1>13. CallInv' /\ SuccessMeansStored' /\ CloseInv'
  BY <1>1 DEF IInv, CallInv, SuccessMeansStored, CloseInv, callVars
<1> QED
  BY <1>5, <1>7, <1>11, <1>12, <1>13 DEF IInv

=============================================================================
