--------------------------- MODULE IngestCopiers ----------------------------
(***************************************************************************)
(* Every step of a copier preserves the invariant of IngestInvariant.      *)
(***************************************************************************)
EXTENDS IngestRoutines

(* A leaf goes to Zenon unless it cites another prover.                    *)
USE Zenon

(* The buffer a copier works on is on nobody else's side.                  *)
LEMMA CopyApart ==
  ASSUME IInv, NEW k \in Copiers, creq[k] # NoRequest
  PROVE  /\ creq[k].data \in Buffers /\ creq[k].table \in Metrics
         /\ creq[k].data \notin pool
         /\ \A m \in Metrics : pending[m] # creq[k].data
         /\ \A i \in DOMAIN toCopiers : toCopiers[i].data # creq[k].data
         /\ \A l \in Copiers \ {k} : creq[l].data # creq[k].data
BY RequestParts DEF IInv, BufferHasOneOwner

(* Nobody but the copier sees what it does to the buffer it works on.      *)
LEMMA OwnCopyFrame ==
  ASSUME IInv, NEW k \in Copiers, creq[k] # NoRequest, ErrorsStay,
         UNCHANGED <<routineVars, todo, toCopiers>>, stored \subseteq stored',
         \A b \in Buffers \ {creq[k].data} : SameBuffer(b),
         \A l \in Copiers \ {k} : cpc'[l] = cpc[l] /\ creq'[l] = creq[l] /\ cerr'[l] = cerr[l],
         CopierOK(k)'
  PROVE  AllRoutines' /\ AllQueued' /\ AllCopiers'
<1>1. /\ creq[k].data \in Buffers /\ creq[k].table \in Metrics
      /\ \A m \in Metrics : pending[m] # creq[k].data
      /\ \A i \in DOMAIN toCopiers : toCopiers[i].data # creq[k].data
      /\ \A l \in Copiers \ {k} : creq[l].data # creq[k].data
  BY CopyApart
<1>2. AllRoutines'
  <2> SUFFICES ASSUME NEW n \in Metrics PROVE RoutineOK(n)'
    BY DEF AllRoutines
  <2>1. pending[n] # None => SameBuffer(pending[n])
    BY <1>1 DEF IInv, TypeOK, RoutineTypes
  <2>2. Unsent' = Unsent /\ Queued' = Queued
    BY DEF Unsent, Queued, routineVars
  <2>3. rpc[n] \in Starting => <<held[n], n>> \in Unsent' \cup Queued'
    BY <2>2 DEF IInv, AllRoutines, RoutineOK
  <2> QED
    BY <2>1, <2>3, RoutineFrame DEF routineVars
<1>3. AllQueued'
  <2> SUFFICES ASSUME NEW i \in DOMAIN toCopiers PROVE ChannelOK(toCopiers[i])'
    BY DEF AllQueued
  <2>1. ChannelOK(toCopiers[i]) /\ SameBuffer(toCopiers[i].data)
    BY <1>1, RequestParts DEF IInv, AllQueued
  <2> QED
    BY <2>1 DEF ChannelOK, Resolved, SameBuffer, routineVars
<1>4. AllCopiers'
  <2> SUFFICES ASSUME NEW l \in Copiers, l # k PROVE CopierOK(l)'
    BY DEF AllCopiers
  <2>1. creq[l] # NoRequest => SameBuffer(creq[l].data)
    BY <1>1, RequestParts DEF IInv
  <2> QED
    BY <2>1, CopierFrame DEF routineVars
<1> QED
  BY <1>2, <1>3, <1>4

LEMMA TakeCopyRequestInv ==
  ASSUME IInv, NEW k \in Copiers, TakeCopyRequest(k)
  PROVE  IInv'
<1> DEFINE q == Head(toCopiers)
<1>1. /\ cpc[k] = "idle" /\ toCopiers # << >>
      /\ creq' = [creq EXCEPT ![k] = q] /\ toCopiers' = Tail(toCopiers)
      /\ cpc' = [cpc EXCEPT ![k] = "insert"]
      /\ UNCHANGED <<callVars, routineVars, bufferVars, cerr, stored, up, tables, completed, crashes,
                     nameCache, workerVars, faults>>
  BY DEF TakeCopyRequest, CopierSame, procVars
<1>2. creq[k] = NoRequest /\ toCopiers \in Seq(CopyRequests)
  BY <1>1 DEF IInv, AllCopiers, CopierOK, TypeOK, CopierTypes
<1>3. /\ q \in CopyRequests /\ q = toCopiers[1] /\ 1 \in DOMAIN toCopiers
      /\ toCopiers' \in Seq(CopyRequests)
      /\ \A i \in DOMAIN toCopiers' :
           i + 1 \in DOMAIN toCopiers /\ i + 1 # 1 /\ toCopiers'[i] = toCopiers[i + 1]
      /\ \A i, j \in DOMAIN toCopiers' : i + 1 = j + 1 => i = j
  <2>1. /\ q \in CopyRequests /\ q = toCopiers[1] /\ toCopiers' \in Seq(CopyRequests)
        /\ Len(toCopiers') = Len(toCopiers) - 1
        /\ \A i \in 1..Len(toCopiers') : toCopiers'[i] = toCopiers[i + 1]
    BY SMT, <1>1, <1>2, HeadTailProperties
  <2>2. /\ DOMAIN toCopiers = 1..Len(toCopiers) /\ Len(toCopiers) \in Nat /\ Len(toCopiers) > 0
        /\ DOMAIN toCopiers' = 1..(Len(toCopiers) - 1)
    BY SMT, <1>1, <1>2, <2>1, LenProperties, EmptySeq
  <2> QED
    BY SMT, <2>1, <2>2
<1> HIDE DEF q
<1>4. q.data \in Buffers /\ q.table \in Metrics /\ q # NoRequest
  BY <1>3, RequestParts DEF IInv
<1>5. /\ creq'[k] = q /\ cpc'[k] = "insert"
      /\ \A l \in Copiers \ {k} : creq'[l] = creq[l] /\ cpc'[l] = cpc[l]
      /\ CopierTypes'
  BY <1>1, <1>3 DEF IInv, TypeOK, CopierTypes
<1>6. TypeOK'
  BY <1>1, <1>5 DEF IInv, TypeOK, CallTypes, RoutineTypes, BufferTypes, OtherTypes, callVars,
                    routineVars, bufferVars, workerVars
<1>7. Failing' = Failing
  BY <1>1 DEF Failing, routineVars
<1>8. Places' /\ WaitGroupExact' /\ Outstanding' = Outstanding /\ Unsent' = Unsent /\ Queued' = Queued
  BY <1>1, <1>7, SamePlaces DEF callVars, routineVars, bufferVars
<1>9. ErrorsStay
  BY <1>1 DEF ErrorsStay, callVars
<1>10. AllRoutines' /\ AllBuffers'
  <2>1. AllRoutines'
    BY <1>1, <1>8, <1>9, RoutineFrame
       DEF SameBuffer, bufferVars, routineVars, AllRoutines, IInv, RoutineOK
  <2> QED
    BY <1>1, <2>1 DEF IInv, AllBuffers, BufferOK, bufferVars
<1>11. AllQueued'
  <2> SUFFICES ASSUME NEW i \in DOMAIN toCopiers' PROVE ChannelOK(toCopiers[i])'
    BY DEF AllQueued
  <2>1. ChannelOK(toCopiers[i + 1])
    BY <1>3 DEF IInv, AllQueued
  <2> QED
    BY <1>1, <1>3, <2>1 DEF ChannelOK, Resolved, bufferVars, routineVars
<1>12. AllCopiers'
  <2> SUFFICES ASSUME NEW l \in Copiers PROVE CopierOK(l)'
    BY DEF AllCopiers
  <2>1. CASE l = k
    <3>1. ChannelOK(q)
      BY <1>3 DEF IInv, AllQueued
    <3> QED
      BY <1>1, <1>4, <1>5, <2>1, <3>1 DEF ChannelOK, CopierOK, Resolved, bufferVars, routineVars
  <2>2. CASE l # k
    BY <1>1, <1>5, <1>9, <2>2, CopierFrame DEF SameBuffer, bufferVars, routineVars
  <2> QED
    BY <2>1, <2>2
<1>13. BufferHasOneOwner'
  <2>1. \A i \in DOMAIN toCopiers' :
          /\ toCopiers'[i].data \notin pool
          /\ \A n \in Metrics : pending[n] # toCopiers'[i].data
          /\ \A j \in DOMAIN toCopiers' : toCopiers'[j].data = toCopiers'[i].data => j = i
          /\ toCopiers'[i].data # q.data
    BY SMT, <1>3 DEF IInv, BufferHasOneOwner
  <2>2. /\ q.data \notin pool /\ \A n \in Metrics : pending[n] # q.data
        /\ \A l \in Copiers : creq[l].data # q.data
    <3>1. \A l \in Copiers : creq[l] # NoRequest => creq[l].data # q.data
      BY SMT, <1>3 DEF IInv, BufferHasOneOwner
    <3>2. NoRequest.data # q.data
      BY <1>4, ConstantsAssumption DEF NoRequest
    <3> QED
      BY <1>3, <3>1, <3>2 DEF IInv, BufferHasOneOwner
  <2>3. \A l \in Copiers : creq'[l] # NoRequest =>
          /\ creq'[l].data \notin pool
          /\ \A n \in Metrics : pending[n] # creq'[l].data
          /\ \A i \in DOMAIN toCopiers' : toCopiers'[i].data # creq'[l].data
          /\ \A j \in Copiers : creq'[j].data = creq'[l].data => j = l
    <3> SUFFICES ASSUME NEW l \in Copiers, creq'[l] # NoRequest
                 PROVE  /\ creq'[l].data \notin pool
                        /\ \A n \in Metrics : pending[n] # creq'[l].data
                        /\ \A i \in DOMAIN toCopiers' : toCopiers'[i].data # creq'[l].data
                        /\ \A j \in Copiers : creq'[j].data = creq'[l].data => j = l
      OBVIOUS
    <3>1. CASE l = k
      BY <1>5, <2>1, <2>2, <3>1
    <3>2. CASE l # k
      BY SMT, <1>3, <1>5, <2>2, <3>2 DEF IInv, BufferHasOneOwner
    <3> QED
      BY <3>1, <3>2
  <2> QED
    BY <1>1, <2>1, <2>3 DEF IInv, BufferHasOneOwner, bufferVars, routineVars
<1>14. AnswerInv'
  BY <1>1, <1>8, AnswerFrame DEF IInv, callVars
<1>15. CallInv' /\ SuccessMeansStored' /\ CloseInv'
  BY <1>1 DEF IInv, CallInv, SuccessMeansStored, CloseInv, callVars
<1> QED
  BY <1>6, <1>8, <1>10, <1>11, <1>12, <1>13, <1>14, <1>15 DEF IInv

LEMMA CopierExitsInv ==
  ASSUME IInv, NEW k \in Copiers, CopierExits(k)
  PROVE  IInv'
<1>1. /\ cpc[k] = "idle" /\ cpc' = [cpc EXCEPT ![k] = "exited"]
      /\ UNCHANGED <<callVars, routineVars, bufferVars, toCopiers, creq, cerr, stored, up, tables,
                     completed, crashes, nameCache, workerVars, faults>>
  BY DEF CopierExits, CopierSame, procVars
<1>2. /\ cpc'[k] = "exited" /\ \A l \in Copiers \ {k} : cpc'[l] = cpc[l]
      /\ CopierTypes'
  BY <1>1 DEF IInv, TypeOK, CopierTypes
<1>3. TypeOK'
  BY <1>1, <1>2 DEF IInv, TypeOK, CallTypes, RoutineTypes, BufferTypes, OtherTypes, callVars,
                    routineVars, bufferVars, workerVars
<1>4. Failing' = Failing
  BY <1>1 DEF Failing, routineVars
<1>5. Places' /\ WaitGroupExact' /\ Outstanding' = Outstanding /\ Unsent' = Unsent /\ Queued' = Queued
  BY <1>1, <1>4, SamePlaces DEF callVars, routineVars, bufferVars
<1>6. ErrorsStay
  BY <1>1 DEF ErrorsStay, callVars
<1>7. AllRoutines'
  BY <1>1, <1>5, <1>6, RoutineFrame
     DEF SameBuffer, bufferVars, routineVars, AllRoutines, IInv, RoutineOK
<1>8. AllBuffers' /\ AllQueued' /\ BufferHasOneOwner'
  BY SMT, <1>1 DEF IInv, AllBuffers, BufferOK, AllQueued, ChannelOK, Resolved, BufferHasOneOwner,
              bufferVars, routineVars
<1>9. AllCopiers'
  <2> SUFFICES ASSUME NEW l \in Copiers PROVE CopierOK(l)'
    BY DEF AllCopiers
  <2>1. CASE l = k
    BY <1>1, <1>2, <2>1 DEF IInv, AllCopiers, CopierOK
  <2>2. CASE l # k
    BY <1>1, <1>2, <1>6, <2>2, CopierFrame DEF SameBuffer, bufferVars, routineVars
  <2> QED
    BY <2>1, <2>2
<1>10. AnswerInv'
  BY <1>1, <1>5, AnswerFrame DEF IInv, callVars
<1>11. CallInv' /\ SuccessMeansStored' /\ CloseInv'
  BY <1>1 DEF IInv, CallInv, SuccessMeansStored, CloseInv, callVars
<1> QED
  BY <1>3, <1>5, <1>7, <1>8, <1>9, <1>10, <1>11 DEF IInv

(* A step of a copier that answers no request and keeps its buffer.        *)
LEMMA CopierMoves ==
  ASSUME IInv, NEW k \in Copiers, creq[k] # NoRequest,
         UNCHANGED <<pc, todo, wg, outcome, ack, routineVars, pool, needsResponse, batch, infos,
                     toCopiers, creq, up>>,
         \A c \in Calls : errChan[c] = "full" => errChan'[c] = "full",
         CallTypes', CallInv', CopierTypes', OtherTypes', iterated' \in [Buffers -> BOOLEAN],
         \A b \in Buffers \ {creq[k].data} : iterated'[b] = iterated[b],
         \A l \in Copiers \ {k} : cpc'[l] = cpc[l] /\ cerr'[l] = cerr[l],
         stored \subseteq stored', CopierOK(k)'
  PROVE  IInv'
<1>1. TypeOK'
  BY DEF IInv, TypeOK, RoutineTypes, BufferTypes, routineVars
<1>2. Failing' = Failing
  BY DEF Failing, routineVars
<1>3. Places' /\ WaitGroupExact' /\ Outstanding' = Outstanding
  BY <1>2, SamePlaces DEF routineVars
<1>4. ErrorsStay
  BY DEF ErrorsStay
<1>5. creq[k].data \in Buffers /\ creq[k].data \notin pool
  BY CopyApart
<1>6. AllBuffers'
  BY DEF IInv, AllBuffers, BufferOK
<1>7. AllRoutines' /\ AllQueued' /\ AllCopiers'
  <2>1. \A b \in Buffers \ {creq[k].data} : SameBuffer(b)
    BY DEF SameBuffer
  <2> QED
    BY <1>4, <2>1, OwnCopyFrame
<1>8. BufferHasOneOwner'
  BY SMT, <1>5 DEF IInv, BufferHasOneOwner, routineVars, TypeOK, BufferTypes
<1>9. AnswerInv'
  BY <1>3, AnswerFrame DEF IInv
<1>10. SuccessMeansStored' /\ CloseInv'
  BY DEF IInv, SuccessMeansStored, CloseInv
<1> QED
  BY <1>1, <1>3, <1>6, <1>7, <1>8, <1>9, <1>10 DEF IInv

LEMMA DoInsertInv ==
  ASSUME IInv, NEW k \in Copiers, DoInsert(k)
  PROVE  IInv'
<1> DEFINE b == creq[k].data
<1>1. /\ cpc[k] \in {"insert", "retry"} /\ iterated' = [iterated EXCEPT ![b] = TRUE]
      /\ UNCHANGED <<callVars, routineVars, pool, needsResponse, batch, infos, toCopiers, creq, up,
                     tables, completed, crashes, nameCache, workerVars>>
  BY DEF DoInsert, CopierSame, procVars
<1>2. CopierOK(k) /\ creq[k] # NoRequest
  BY <1>1 DEF IInv, AllCopiers, CopierOK
<1>3. b \in Buffers /\ batch[b] \subseteq Requests
  BY <1>2, CopyApart DEF IInv, TypeOK, BufferTypes
<1>4. PICK t \in {"report", "recover"}, e \in BOOLEAN :
        /\ cpc' = [cpc EXCEPT ![k] = t] /\ cerr' = [cerr EXCEPT ![k] = e]
        /\ stored' = stored \cup batch[b] \/ (stored' = stored /\ e)
        /\ t = "recover" => e /\ cpc[k] = "insert"
        /\ ~e => stored' = stored \cup batch[b]
        /\ faults' = faults \/ (faults < MaxFaults /\ faults' = faults + 1)
  <2>1. CASE InsertRows(b) /\ cpc' = [cpc EXCEPT ![k] = "report"] /\ UNCHANGED faults
             /\ cerr' = [cerr EXCEPT ![k] = FALSE]
    BY <2>1 DEF InsertRows
  <2>2. CASE /\ Fault("insert") /\ (InsertRows(b) \/ UNCHANGED stored)
             /\ cpc' = [cpc EXCEPT ![k] = "report"] /\ cerr' = [cerr EXCEPT ![k] = TRUE]
    BY <2>2 DEF InsertRows, Fault
  <2>3. CASE /\ Fault("compressed") /\ UNCHANGED stored
             /\ cpc' = [cpc EXCEPT ![k] = IF @ = "insert" THEN "recover" ELSE "report"]
             /\ cerr' = [cerr EXCEPT ![k] = TRUE]
    <3>1. CASE cpc[k] = "insert"
      BY <2>3, <3>1 DEF Fault
    <3>2. CASE cpc[k] # "insert"
      BY <2>3, <3>2 DEF Fault
    <3> QED
      BY <3>1, <3>2
  <2> QED
    BY <2>1, <2>2, <2>3 DEF DoInsert
<1>5. /\ cpc'[k] = t /\ cerr'[k] = e /\ iterated'[b]
      /\ \A l \in Copiers \ {k} : cpc'[l] = cpc[l] /\ cerr'[l] = cerr[l]
      /\ \A x \in Buffers \ {b} : iterated'[x] = iterated[x]
      /\ CopierTypes' /\ iterated' \in [Buffers -> BOOLEAN]
  BY <1>1, <1>3, <1>4 DEF IInv, TypeOK, CopierTypes, BufferTypes
<1>6. OtherTypes' /\ stored \subseteq stored'
  BY SMT, <1>1, <1>3, <1>4, ConstantsAssumption DEF IInv, TypeOK, OtherTypes, workerVars
<1>7. CallTypes' /\ CallInv'
  BY <1>1 DEF IInv, TypeOK, CallTypes, CallInv, callVars
<1>8. CopierOK(k)'
  <2>1. Resolved(creq[k])'
    BY <1>1, <1>2 DEF CopierOK, Resolved, routineVars
  <2>2. batch[b] \subseteq Range(needsResponse[b])
    BY <1>1, <1>2 DEF CopierOK
  <2>3. ~e => batch[b] \subseteq stored'
    BY <1>4
  <2> QED
    BY <1>1, <1>2, <1>4, <1>5, <2>1, <2>2, <2>3 DEF CopierOK
<1> QED
  BY <1>1, <1>2, <1>5, <1>6, <1>7, <1>8, CopierMoves DEF callVars

LEMMA TryRecoveryInv ==
  ASSUME IInv, NEW k \in Copiers, TryRecovery(k)
  PROVE  IInv'
<1> DEFINE b == creq[k].data
<1>1. /\ cpc[k] = "recover"
      /\ UNCHANGED <<callVars, routineVars, pool, needsResponse, batch, infos, toCopiers, creq, cerr,
                     stored, up, tables, completed, crashes, nameCache, workerVars>>
  BY DEF TryRecovery, CopierSame, procVars
<1>2. CopierOK(k) /\ creq[k] # NoRequest
  BY <1>1 DEF IInv, AllCopiers, CopierOK
<1>3. b \in Buffers
  BY <1>2, CopyApart
<1>4. PICK t \in {"report", "retry"} :
        /\ cpc' = [cpc EXCEPT ![k] = t]
        /\ iterated' = iterated \/ iterated' = [iterated EXCEPT ![b] = FALSE]
        /\ t = "retry" => iterated' = [iterated EXCEPT ![b] = FALSE]
        /\ faults' = faults \/ (faults < MaxFaults /\ faults' = faults + 1)
  BY DEF TryRecovery, Fault
<1>5. /\ cpc'[k] = t /\ (t = "retry" => ~iterated'[b])
      /\ \A l \in Copiers \ {k} : cpc'[l] = cpc[l]
      /\ \A x \in Buffers \ {b} : iterated'[x] = iterated[x]
      /\ CopierTypes' /\ iterated' \in [Buffers -> BOOLEAN]
  BY <1>1, <1>3, <1>4 DEF IInv, TypeOK, CopierTypes, BufferTypes
<1>6. OtherTypes'
  BY SMT, <1>1, <1>4, ConstantsAssumption DEF IInv, TypeOK, OtherTypes, workerVars
<1>7. CallTypes' /\ CallInv'
  BY <1>1 DEF IInv, TypeOK, CallTypes, CallInv, callVars
<1>8. CopierOK(k)'
  <2>1. Resolved(creq[k])'
    BY <1>1, <1>2 DEF CopierOK, Resolved, routineVars
  <2> QED
    BY <1>1, <1>2, <1>5, <2>1 DEF CopierOK
<1> QED
  BY <1>1, <1>2, <1>5, <1>6, <1>7, <1>8, CopierMoves DEF callVars

LEMMA CopierSendInv ==
  ASSUME IInv, NEW k \in Copiers, CopierSend(k)
  PROVE  IInv'
<1> DEFINE b == creq[k].data
           c == Head(needsResponse[b])[1]
<1>1. /\ cpc[k] = "report" /\ cerr[k] /\ needsResponse[b] # << >> /\ TrySendErr(c)
      /\ cpc' = [cpc EXCEPT ![k] = "reportDone"]
      /\ UNCHANGED <<pc, todo, target, wg, outcome, ack, routineVars, bufferVars, toCopiers, creq,
                     cerr, stored, up, tables, completed, crashes, nameCache, workerVars, faults>>
  BY DEF CopierSend, SendResult, CopierSame, procVars
<1>2. CopierOK(k) /\ creq[k] # NoRequest
  BY <1>1 DEF IInv, AllCopiers, CopierOK
<1>3. b \in Buffers
  BY <1>2, CopyApart
<1>4. c \in Calls /\ pc[c] \in Active
  BY <1>1, <1>3, HeadWaits DEF IInv
<1>5. /\ errChan'[c] = "full" /\ CallTypes' /\ CallInv'
      /\ \A d \in Calls : errChan[d] = "full" => errChan'[d] = "full"
  <2> HIDE DEF c
  <2> QED
    BY <1>1, <1>4, SendErrInv
<1>6. /\ cpc'[k] = "reportDone" /\ \A l \in Copiers \ {k} : cpc'[l] = cpc[l]
      /\ CopierTypes'
  BY <1>1 DEF IInv, TypeOK, CopierTypes
<1>7. OtherTypes' /\ iterated' \in [Buffers -> BOOLEAN]
  BY <1>1 DEF IInv, TypeOK, OtherTypes, BufferTypes, workerVars, bufferVars
<1>8. CopierOK(k)'
  <2>1. Resolved(creq[k])'
    BY <1>1, <1>2 DEF CopierOK, Resolved, routineVars, bufferVars
  <2> QED
    BY <1>1, <1>2, <1>5, <1>6, <2>1 DEF CopierOK, bufferVars
<1> QED
  BY <1>1, <1>2, <1>5, <1>6, <1>7, <1>8, CopierMoves DEF bufferVars

LEMMA CopierDoneInv ==
  ASSUME IInv, NEW k \in Copiers, CopierDone(k)
  PROVE  IInv'
<1> DEFINE b == creq[k].data
<1>1. /\ cpc[k] = (IF cerr[k] THEN "reportDone" ELSE "report")
      /\ needsResponse[b] # << >> /\ TaskDone(b)
      /\ cpc' = [cpc EXCEPT ![k] = "report"]
      /\ UNCHANGED <<pc, todo, target, errChan, outcome, ack, routineVars, pool, batch, infos,
                     iterated, toCopiers, creq, cerr, stored, up, tables, completed, crashes,
                     nameCache, workerVars, faults>>
  BY DEF CopierDone, CopierSame, procVars
<1>2. CopierOK(k) /\ creq[k] # NoRequest
  BY <1>1 DEF IInv, AllCopiers, CopierOK
<1>3. b \in Buffers /\ BufferOK(b) /\ infos[b] \in Nat /\ b \notin pool
  BY <1>2, CopyApart DEF IInv, AllBuffers, TypeOK, BufferTypes
<1>4. Head(needsResponse[b]) \in stored \/ errChan[Head(needsResponse[b])[1]] = "full"
  <2>1. CASE cerr[k]
    BY <1>1, <1>2, <2>1 DEF CopierOK
  <2>2. CASE ~cerr[k]
    <3>1. Head(needsResponse[b]) \in Range(needsResponse[b])
      BY <1>1, <1>3, HeadWaits DEF IInv
    <3> QED
      BY <1>1, <1>2, <1>3, <2>2, <3>1 DEF CopierOK, BufferOK
  <2> QED
    BY <2>1, <2>2
<1>5. Failing' = Failing
  BY <1>1 DEF Failing, routineVars
<1>6. /\ Range(needsResponse'[b]) \subseteq Range(needsResponse[b])
      /\ \A x \in Buffers \ {b} : needsResponse'[x] = needsResponse[x]
      /\ needsResponse' \in [Buffers -> Seq(Requests)]
      /\ Places' /\ WaitGroupExact' /\ CallTypes' /\ CallInv' /\ AnswerInv' /\ ErrorsStay
  BY <1>1, <1>3, <1>4, <1>5, TaskDoneInv DEF routineVars
<1>7. /\ cpc'[k] = "report" /\ \A l \in Copiers \ {k} : cpc'[l] = cpc[l]
      /\ CopierTypes'
  BY <1>1 DEF IInv, TypeOK, CopierTypes
<1>8. TypeOK'
  BY <1>1, <1>6, <1>7 DEF IInv, TypeOK, RoutineTypes, BufferTypes, OtherTypes, routineVars,
                          workerVars
<1>9. /\ BufferOK(b)' /\ \A x \in Buffers \ {b} : SameBuffer(x)
      /\ AllBuffers'
  <2>1. infos[b] > 0
    BY <1>1, <1>3 DEF BufferOK
  <2>2. BufferOK(b)'
    BY <1>1, <1>3, <1>6, <2>1 DEF BufferOK
  <2>3. \A x \in Buffers \ {b} : SameBuffer(x)
    BY <1>1, <1>6 DEF SameBuffer
  <2> QED
    BY <1>1, <2>2, <2>3 DEF IInv, AllBuffers, BufferOK, SameBuffer
<1>10. CopierOK(k)'
  <2>1. Resolved(creq[k])'
    BY <1>1, <1>2 DEF CopierOK, Resolved, routineVars
  <2>2. ~cerr[k] => batch[b] \subseteq stored
    BY <1>1, <1>2 DEF CopierOK
  <2> QED
    BY <1>1, <1>2, <1>7, <2>1, <2>2 DEF CopierOK
<1>11. AllRoutines' /\ AllQueued' /\ AllCopiers'
  BY <1>1, <1>2, <1>6, <1>7, <1>9, <1>10, OwnCopyFrame
<1>12. BufferHasOneOwner'
  BY ZenonT(60), <1>1, <1>3, <1>6 DEF IInv, BufferHasOneOwner, routineVars, TypeOK, BufferTypes
<1>13. SuccessMeansStored' /\ CloseInv'
  BY <1>1 DEF IInv, SuccessMeansStored, CloseInv
<1> QED
  BY <1>6, <1>8, <1>9, <1>11, <1>12, <1>13 DEF IInv

LEMMA CopierEndInv ==
  ASSUME IInv, NEW k \in Copiers, CopierEnd(k)
  PROVE  IInv'
<1> DEFINE b == creq[k].data
<1>1. /\ cpc[k] = "report" /\ needsResponse[b] = << >> /\ ResetBatch(b) /\ pool' = pool \cup {b}
      /\ cpc' = [cpc EXCEPT ![k] = "idle"] /\ creq' = [creq EXCEPT ![k] = NoRequest]
      /\ cerr' = [cerr EXCEPT ![k] = FALSE]
      /\ UNCHANGED <<callVars, routineVars, needsResponse, toCopiers, stored, up, tables, completed,
                     crashes, nameCache, workerVars, faults>>
  BY DEF CopierEnd, CopierSame, procVars
<1>2. CopierOK(k) /\ creq[k] # NoRequest
  BY <1>1 DEF IInv, AllCopiers, CopierOK
<1>3. /\ b \in Buffers /\ b \notin pool /\ \A m \in Metrics : pending[m] # b
      /\ \A i \in DOMAIN toCopiers : toCopiers[i].data # b
      /\ \A l \in Copiers \ {k} : creq[l].data # b
  BY <1>2, CopyApart
<1>4. /\ batch'[b] = {} /\ infos'[b] = 0 /\ ~iterated'[b]
      /\ \A x \in Buffers \ {b} : SameBuffer(x)
      /\ BufferTypes'
  BY <1>1, <1>3 DEF ResetBatch, SameBuffer, IInv, TypeOK, BufferTypes
<1>5. /\ cpc'[k] = "idle" /\ creq'[k] = NoRequest
      /\ \A l \in Copiers \ {k} : cpc'[l] = cpc[l] /\ creq'[l] = creq[l] /\ cerr'[l] = cerr[l]
      /\ CopierTypes'
  BY <1>1 DEF IInv, TypeOK, CopierTypes
<1>6. TypeOK'
  BY <1>1, <1>4, <1>5 DEF IInv, TypeOK, CallTypes, RoutineTypes, OtherTypes, callVars, routineVars,
                          workerVars
<1>7. Failing' = Failing
  BY <1>1 DEF Failing, routineVars
<1>8. Places' /\ WaitGroupExact' /\ Outstanding' = Outstanding
  BY <1>1, <1>7, SamePlaces DEF callVars, routineVars
<1>9. ErrorsStay
  BY <1>1 DEF ErrorsStay, callVars
<1>10. needsResponse'[b] = << >> /\ Range(<< >>) = {}
  <2>1. Range(<< >>) = {}
    BY SMT DEF Range
  <2> QED
    BY <1>1, <2>1
<1>11. AllBuffers'
  <2> SUFFICES ASSUME NEW x \in Buffers
               PROVE  /\ Range(needsResponse'[x]) \subseteq batch'[x]
                      /\ infos'[x] > 0 => batch'[x] # {}
                      /\ needsResponse'[x] # << >> => infos'[x] > 0
    BY DEF AllBuffers, BufferOK
  <2>1. CASE x = b
    BY SMT, <1>4, <1>10, <2>1
  <2>2. CASE x # b
    <3>1. BufferOK(x) /\ SameBuffer(x)
      BY <1>4, <2>2 DEF IInv, AllBuffers
    <3> QED
      BY <3>1 DEF BufferOK, SameBuffer
  <2> QED
    BY <2>1, <2>2
<1>12. AllRoutines' /\ AllQueued' /\ AllCopiers'
  <2>1. CopierOK(k)'
    BY <1>5 DEF CopierOK
  <2>2. UNCHANGED <<routineVars, todo, toCopiers>> /\ stored \subseteq stored'
    BY <1>1 DEF callVars
  <2> QED
    BY <1>2, <1>4, <1>5, <1>9, <2>1, <2>2, OwnCopyFrame
<1>13. BufferHasOneOwner'
  <2>1. \A l \in Copiers \ {k} : creq'[l] = creq[l] /\ creq[l].data # b
    BY <1>3, <1>5
  <2>2. \A l \in Copiers : creq'[l] # NoRequest =>
          /\ l # k
          /\ \A j \in Copiers : creq'[j].data = creq'[l].data => j = l
    <3> SUFFICES ASSUME NEW l \in Copiers, creq'[l] # NoRequest, NEW j \in Copiers,
                        creq'[j].data = creq'[l].data
                 PROVE  l # k /\ j = l
      BY <1>5
    <3>1. l # k /\ creq'[l] = creq[l]
      BY <1>5
    <3>2. creq[l].data \in Buffers
      BY <3>1, CopyApart
    <3>3. NoRequest.data = None
      BY DEF NoRequest
    <3>4. j # k
      BY <1>5, <3>1, <3>2, <3>3, ConstantsAssumption
    <3> QED
      BY SMT, <1>5, <3>1, <3>4 DEF IInv, BufferHasOneOwner
  <2>3. \A x \in pool' :
          needsResponse'[x] = << >> /\ batch'[x] = {} /\ infos'[x] = 0 /\ ~iterated'[x]
    BY ZenonT(60), <1>1, <1>3, <1>4 DEF IInv, BufferHasOneOwner, SameBuffer, TypeOK, BufferTypes
  <2>4. \A m \in Metrics : pending'[m] # None =>
          pending'[m] \notin pool' /\ \A n \in Metrics : pending'[n] = pending'[m] => n = m
    BY <1>1, <1>3 DEF IInv, BufferHasOneOwner, routineVars
  <2>5. \A i \in DOMAIN toCopiers' :
          /\ toCopiers'[i].data \notin pool'
          /\ \A m \in Metrics : pending'[m] # toCopiers'[i].data
          /\ \A j \in DOMAIN toCopiers' : toCopiers'[j].data = toCopiers'[i].data => j = i
    BY <1>1, <1>3 DEF IInv, BufferHasOneOwner, routineVars
  <2>6. \A l \in Copiers : creq'[l] # NoRequest =>
          /\ creq'[l].data \notin pool'
          /\ \A m \in Metrics : pending'[m] # creq'[l].data
          /\ \A i \in DOMAIN toCopiers' : toCopiers'[i].data # creq'[l].data
    <3> SUFFICES ASSUME NEW l \in Copiers, creq'[l] # NoRequest
                 PROVE  /\ creq'[l].data \notin pool'
                        /\ \A m \in Metrics : pending'[m] # creq'[l].data
                        /\ \A i \in DOMAIN toCopiers' : toCopiers'[i].data # creq'[l].data
      OBVIOUS
    <3>1. creq'[l] = creq[l] /\ creq[l].data # b
      BY <2>1, <2>2
    <3>2. /\ creq[l].data \notin pool
          /\ \A m \in Metrics : pending[m] # creq[l].data
          /\ \A i \in DOMAIN toCopiers : toCopiers[i].data # creq[l].data
      BY <3>1 DEF IInv, BufferHasOneOwner
    <3>3. pool' = pool \cup {b} /\ pending' = pending /\ toCopiers' = toCopiers
      BY <1>1 DEF routineVars
    <3> QED
      BY <3>1, <3>2, <3>3
  <2> QED
    BY <2>2, <2>3, <2>4, <2>5, <2>6 DEF BufferHasOneOwner
<1>14. AnswerInv'
  BY <1>1, <1>8, AnswerFrame DEF IInv, callVars
<1>15. CallInv' /\ SuccessMeansStored' /\ CloseInv'
  BY <1>1 DEF IInv, CallInv, SuccessMeansStored, CloseInv, callVars
<1> QED
  BY <1>6, <1>8, <1>11, <1>12, <1>13, <1>14, <1>15 DEF IInv

=============================================================================
