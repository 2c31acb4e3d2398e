-------------------------- MODULE IngestInvariant ---------------------------
(***************************************************************************)
(* The inductive invariant of Ingest, for every set of calls, metrics,     *)
(* copiers and buffers, every capacity and flush size and any number of    *)
(* failures and crashes, and the lemmas about what a step leaves alone.    *)
(***************************************************************************)
EXTENDS Ingest, FiniteSetTheorems, SequenceTheorems, TLAPS

(* A leaf goes to Zenon unless it cites another prover.                    *)
USE Zenon

Active == {"send", "enqueue"}
Starting == {"lookup", "create", "signal", "createErr"}
Handling == {"recv", "setIds", "copy", "report", "reportDone", "spin"}

(* Every outstanding request is in one place, once.                        *)
Places ==
  /\ \A m \in Metrics :
       /\ IsInjective(input[m])
       /\ \A r \in Range(input[m]) : r[2] = m
  /\ \A b \in Buffers : IsInjective(needsResponse[b])
  /\ \A b1, b2 \in Buffers :
       b1 # b2 => Range(needsResponse[b1]) \cap Range(needsResponse[b2]) = {}
  /\ Unsent \cap (Queued \cup Failing \cup Buffered) = {}
  /\ Queued \cap (Failing \cup Buffered) = {}
  /\ Failing \cap Buffered = {}

(* What a call's program counter says about its state.                     *)
CallInv ==
  \A c \in Calls :
    /\ todo[c] \subseteq Rows[c]
    /\ pc[c] = "enqueue" => target[c] \in todo[c]
    /\ pc[c] \notin Active => todo[c] = {} /\ wg[c] = 0
    /\ errChan[c] = "closed" => pc[c] = "done"
    /\ pc[c] = "done" <=> outcome[c] # "none"
    /\ ~AsyncAcks => ack[c] = outcome[c]

(* What a routine's pending buffer holds: rows of its metric, each of them *)
(* of a call that waits, unless the routine is reporting a failure.        *)
PendingOK(m) ==
  /\ ~iterated[pending[m]]
  /\ \A r \in batch[pending[m]] : r[2] = m
  /\ rpc[m] \notin {"report", "reportDone"} =>
       batch[pending[m]] \subseteq Range(needsResponse[pending[m]])
  /\ rpc[m] = "copy" => \A r \in batch[pending[m]] : Labels[r] \subseteq seriesCache[m]

(* What a routine holds: the error channel of a call that is waiting for   *)
(* it, or a buffer.                                                        *)
RoutineOK(m) ==
  /\ rpc[m] \in Starting => held[m] \in Calls /\ <<held[m], m>> \in Unsent \cup Queued
  /\ rpc[m] = "failedDone" =>
       held[m] \in Calls /\ m \in Rows[held[m]] /\ errChan[held[m]] = "full"
  /\ rpc[m] \in Handling => pending[m] # None
  /\ rpc[m] \in {"setIds", "copy", "reportDone"} => needsResponse[pending[m]] # << >>
  /\ rpc[m] = "reportDone" => errChan[Head(needsResponse[pending[m]])[1]] = "full"
  /\ rpc[m] \notin Handling \cup {"exited"} => ~hot[m] /\ pending[m] = None
  /\ rpc[m] = "recv" /\ ~hot[m] => needsResponse[pending[m]] = << >>
  /\ pending[m] # None => PendingOK(m)

(* Who waits for an answer has rows in the buffer, and a buffer that is    *)
(* not empty has rows of some request.                                     *)
BufferOK(b) ==
  /\ Range(needsResponse[b]) \subseteq batch[b]
  /\ infos[b] > 0 => batch[b] # {}
  /\ needsResponse[b] # << >> => infos[b] > 0

(* A copy request carries rows of its metric with resolved series ids.     *)
Resolved(q) ==
  \A r \in batch[q.data] : r[2] = q.table /\ Labels[r] \subseteq seriesCache[q.table]

(* A copy request in the channel: all its calls still wait.                *)
ChannelOK(q) ==
  /\ Resolved(q)
  /\ batch[q.data] \subseteq Range(needsResponse[q.data])
  /\ ~iterated[q.data]

(* What a copier works on.                                                 *)
CopierOK(k) ==
  /\ cpc[k] \in {"idle", "exited"} <=> creq[k] = NoRequest
  /\ creq[k] # NoRequest => Resolved(creq[k])
  /\ cpc[k] \in {"insert", "recover", "retry"} =>
       batch[creq[k].data] \subseteq Range(needsResponse[creq[k].data])
  /\ cpc[k] \in {"insert", "retry"} => ~iterated[creq[k].data]
  /\ cpc[k] = "recover" => iterated[creq[k].data]
  /\ cpc[k] \in {"recover", "reportDone"} => cerr[k]
  /\ cpc[k] = "reportDone" =>
       /\ needsResponse[creq[k].data] # << >>
       /\ errChan[Head(needsResponse[creq[k].data])[1]] = "full"
  /\ cpc[k] = "report" /\ ~cerr[k] => batch[creq[k].data] \subseteq stored

AllRoutines == \A m \in Metrics : RoutineOK(m)
AllBuffers  == \A b \in Buffers : BufferOK(b)
AllQueued   == \A i \in DOMAIN toCopiers : ChannelOK(toCopiers[i])
AllCopiers  == \A k \in Copiers : CopierOK(k)

(* A request that has been answered was stored, or its call will find an   *)
(* error.                                                                  *)
AnswerInv ==
  \A r \in Requests :
    pc[r[1]] \in Active \cup {"collect"} /\ r \notin Outstanding =>
      r \in stored \/ errChan[r[1]] = "full"

(* With synchronous acks Close finds every call answered.                  *)
CloseInv ==
  up = "closed" /\ ~AsyncAcks => \A c \in Calls : pc[c] \in {"idle", "done", "lost"}

(* The inductive invariant.                                                *)
IInv ==
  /\ TypeOK
  /\ Places /\ WaitGroupExact
  /\ CallInv /\ AllRoutines /\ AllBuffers /\ AllQueued /\ AllCopiers
  /\ BufferHasOneOwner
  /\ AnswerInv /\ SuccessMeansStored /\ CloseInv

-----------------------------------------------------------------------------
(* Sequences without repetition.                                           *)

(* Appending a new element keeps a sequence free of repetitions.           *)
LEMMA AppendRange ==
  ASSUME NEW S, NEW s \in Seq(S), NEW x \in S
  PROVE  /\ Append(s, x) \in Seq(S)
         /\ Append(s, x) # << >>
         /\ Range(Append(s, x)) = Range(s) \cup {x}
         /\ IsInjective(s) /\ x \notin Range(s) => IsInjective(Append(s, x))
<1>1. /\ Append(s, x) \in Seq(S)
      /\ Len(Append(s, x)) = Len(s) + 1
      /\ \A i \in 1..Len(s) : Append(s, x)[i] = s[i]
      /\ Append(s, x)[Len(s) + 1] = x
  BY SMT, AppendProperties
<1>2. DOMAIN s = 1..Len(s) /\ DOMAIN Append(s, x) = 1..(Len(s) + 1) /\ Len(s) \in Nat
  BY <1>1, LenProperties
<1>3. Append(s, x) # << >>
  BY SMT, <1>1, <1>2, EmptySeq
<1>4. Range(Append(s, x)) = Range(s) \cup {x}
  BY SMT, <1>1, <1>2 DEF Range
<1>5. IsInjective(s) /\ x \notin Range(s) => IsInjective(Append(s, x))
  BY SMT, <1>1, <1>2 DEF Range, IsInjective
<1> QED
  BY <1>1, <1>3, <1>4, <1>5

(* Taking the head of a sequence without repetitions removes it.           *)
LEMMA TailRange ==
  ASSUME NEW S, NEW s \in Seq(S), s # << >>
  PROVE  /\ Head(s) \in S /\ Head(s) \in Range(s)
         /\ Tail(s) \in Seq(S)
         /\ Range(Tail(s)) \subseteq Range(s)
         /\ IsInjective(s) => IsInjective(Tail(s)) /\ Range(Tail(s)) = Range(s) \ {Head(s)}
<1>1. /\ Head(s) \in S /\ Tail(s) \in Seq(S) /\ Len(Tail(s)) = Len(s) - 1
      /\ Head(s) = s[1] /\ \A i \in 1..Len(Tail(s)) : Tail(s)[i] = s[i + 1]
  BY SMT, HeadTailProperties
<1>2. /\ DOMAIN s = 1..Len(s) /\ DOMAIN Tail(s) = 1..(Len(s) - 1)
      /\ Len(s) \in Nat /\ Len(s) > 0
  BY SMT, <1>1, LenProperties, EmptySeq
<1>3. Head(s) \in Range(s) /\ Range(Tail(s)) \subseteq Range(s)
  BY SMT, <1>1, <1>2 DEF Range
<1>4. ASSUME IsInjective(s) PROVE IsInjective(Tail(s)) /\ Range(Tail(s)) = Range(s) \ {Head(s)}
  <2>1. IsInjective(Tail(s))
    BY SMT, <1>1, <1>2, <1>4 DEF IsInjective
  <2>2. Head(s) \notin Range(Tail(s))
    BY SMT, <1>1, <1>2, <1>4 DEF IsInjective, Range
  <2>3. \A x \in Range(s) : x # Head(s) => x \in Range(Tail(s))
    <3> SUFFICES ASSUME NEW i \in 1..Len(s), s[i] # Head(s) PROVE s[i] \in Range(Tail(s))
      BY <1>2 DEF Range
    <3>1. i - 1 \in 1..(Len(s) - 1) /\ Tail(s)[i - 1] = s[i]
      BY SMT, <1>1, <1>2
    <3> QED
      BY <3>1, <1>2 DEF Range
  <2> QED
    BY <1>3, <2>1, <2>2, <2>3
<1> QED
  BY <1>1, <1>3, <1>4

-----------------------------------------------------------------------------
(* Counting outstanding requests.                                          *)

(* A request is a pair of a call and one of its metrics.                   *)
LEMMA RequestPair ==
  /\ \A r \in Requests : r[1] \in Calls /\ r[2] \in Metrics /\ r[2] \in Rows[r[1]]
                         /\ r = <<r[1], r[2]>>
  /\ \A c \in Calls, m \in Metrics : m \in Rows[c] <=> <<c, m>> \in Requests
  /\ \A c \in Calls : Rows[c] \subseteq Metrics
BY SMT, ConstantsAssumption DEF Requests

(* The outstanding requests of a call are finitely many.                   *)
LEMMA OutstandingFinite ==
  ASSUME NEW c \in Calls
  PROVE  /\ IsFiniteSet(Rows[c])
         /\ IsFiniteSet(OutstandingOf(c)) /\ Cardinality(OutstandingOf(c)) \in Nat
         /\ Cardinality(OutstandingOf(c)) = 0 <=> OutstandingOf(c) = {}
<1>1. Rows[c] \subseteq Metrics /\ OutstandingOf(c) \subseteq Metrics
  BY RequestPair DEF OutstandingOf
<1>2. IsFiniteSet(Rows[c]) /\ IsFiniteSet(OutstandingOf(c))
  BY <1>1, FS_Subset, ConstantsAssumption
<1> QED
  BY <1>2, FS_EmptySet, FS_CardinalityType

(* Only calls that are still sending or waiting have outstanding requests. *)
LEMMA OutstandingActive ==
  ASSUME WaitGroupExact, CallInv
  PROVE  \A r \in Outstanding : r \in Requests /\ pc[r[1]] \in Active
                                /\ errChan[r[1]] # "closed"
<1> TAKE r \in Outstanding
<1>1. r \in Requests
  BY DEF Outstanding, Unsent, Queued, Failing, Buffered
<1>2. r[1] \in Calls /\ r[2] \in OutstandingOf(r[1])
  BY <1>1, RequestPair DEF OutstandingOf
<1>3. wg[r[1]] # 0
  BY <1>2, OutstandingFinite DEF WaitGroupExact
<1> QED
  BY <1>1, <1>2, <1>3 DEF CallInv, Active

(* A step that moves requests but answers none keeps the counters right.   *)
LEMMA KeepCount ==
  ASSUME WaitGroupExact, Outstanding' = Outstanding, wg' = wg
  PROVE  WaitGroupExact'
BY DEF WaitGroupExact, OutstandingOf

(* A step that answers one request counts its call's WaitGroup down.       *)
LEMMA DropCount ==
  ASSUME WaitGroupExact, TypeOK, NEW r \in Requests, r \in Outstanding,
         Outstanding' = Outstanding \ {r}, wg' = [wg EXCEPT ![r[1]] = @ - 1]
  PROVE  WaitGroupExact'
<1> SUFFICES ASSUME NEW c \in Calls PROVE wg'[c] = Cardinality(OutstandingOf(c)')
  BY DEF WaitGroupExact
<1>1. CASE c # r[1]
  <2>1. OutstandingOf(c)' = OutstandingOf(c)
    BY <1>1, RequestPair DEF OutstandingOf
  <2> QED
    BY <1>1, <2>1 DEF WaitGroupExact, TypeOK, CallTypes
<1>2. CASE c = r[1]
  <2>1. OutstandingOf(c)' = OutstandingOf(c) \ {r[2]} /\ r[2] \in OutstandingOf(c)
    BY <1>2, RequestPair DEF OutstandingOf
  <2>2. Cardinality(OutstandingOf(c)') = Cardinality(OutstandingOf(c)) - 1
    <3>1. \A S : IsFiniteSet(S) /\ r[2] \in S =>
                   Cardinality(S \ {r[2]}) = Cardinality(S) - 1
      BY FS_RemoveElement
    <3> QED
      BY <2>1, <3>1, OutstandingFinite
  <2>3. wg \in [Calls -> Nat] /\ wg[c] = Cardinality(OutstandingOf(c))
    BY DEF WaitGroupExact, TypeOK, CallTypes
  <2>4. wg'[c] = wg[c] - 1
    BY <1>2, <2>3
  <2> QED
    BY <2>2, <2>3, <2>4
<1> QED
  BY <1>1, <1>2

-----------------------------------------------------------------------------
(* What a step leaves alone.                                               *)

SameBuffer(b) ==
  /\ needsResponse'[b] = needsResponse[b] /\ batch'[b] = batch[b]
  /\ infos'[b] = infos[b] /\ iterated'[b] = iterated[b]

(* The buffers on the copiers' side of the channel.                        *)
CopyData ==
  {toCopiers[i].data : i \in DOMAIN toCopiers} \cup
  {creq[k].data : k \in {l \in Copiers : creq[l] # NoRequest}}

(* A waiting call keeps the error it has been sent.                        *)
ErrorsStay ==
  \A c \in Calls : pc[c] \in Active /\ errChan[c] = "full" => errChan'[c] = "full"

(* The type of the parts of a copy request.                                *)
LEMMA RequestParts ==
  ASSUME TypeOK
  PROVE  /\ \A k \in Copiers : creq[k] # NoRequest =>
              creq[k] \in CopyRequests /\ creq[k].data \in Buffers /\ creq[k].table \in Metrics
         /\ \A i \in DOMAIN toCopiers :
              toCopiers[i] \in CopyRequests /\ toCopiers[i].data \in Buffers
              /\ toCopiers[i].table \in Metrics
         /\ NoRequest \notin CopyRequests
<1>1. \A q \in CopyRequests : q.data \in Buffers /\ q.table \in Metrics
  BY DEF CopyRequests
<1>2. NoRequest.data = None
  BY DEF NoRequest
<1>3. NoRequest \notin CopyRequests
  BY <1>1, <1>2, ConstantsAssumption
<1>4. /\ creq \in [Copiers -> CopyRequests \cup {NoRequest}]
      /\ toCopiers \in Seq(CopyRequests)
  BY DEF TypeOK, CopierTypes
<1>5. \A i \in DOMAIN toCopiers : toCopiers[i] \in CopyRequests
  BY <1>4, ElementOfSeq, LenProperties
<1> QED
  BY <1>1, <1>3, <1>4, <1>5

(* The next call to be answered is waiting.                                *)
LEMMA HeadWaits ==
  ASSUME TypeOK, WaitGroupExact, CallInv, NEW b \in Buffers, needsResponse[b] # << >>
  PROVE  LET r == Head(needsResponse[b]) IN
         r \in Requests /\ r \in Range(needsResponse[b]) /\ r \in Buffered
         /\ r[1] \in Calls /\ pc[r[1]] \in Active
<1>1. needsResponse[b] \in Seq(Requests)
  BY DEF TypeOK, BufferTypes
<1>2. Head(needsResponse[b]) \in Requests /\ Head(needsResponse[b]) \in Range(needsResponse[b])
  BY <1>1, TailRange
<1>3. Head(needsResponse[b]) \in Buffered /\ Head(needsResponse[b]) \in Outstanding
  BY <1>2 DEF Buffered, Outstanding
<1> QED
  BY <1>2, <1>3, OutstandingActive, RequestPair

(* A routine whose state and buffer a step leaves alone.                   *)
LEMMA RoutineFrame ==
  ASSUME IInv, ErrorsStay, NEW n \in Metrics,
         rpc'[n] = rpc[n], hot'[n] = hot[n], held'[n] = held[n], pending'[n] = pending[n],
         seriesCache[n] \subseteq seriesCache'[n],
         pending[n] # None => SameBuffer(pending[n]),
         rpc[n] \in Starting => <<held[n], n>> \in Unsent' \cup Queued'
  PROVE  RoutineOK(n)'
<1>1. RoutineOK(n)
  BY DEF IInv, AllRoutines
<1>2. pending[n] \in Buffers \cup {None}
  BY DEF IInv, TypeOK, RoutineTypes
<1>3. rpc[n] = "reportDone" => errChan'[Head(needsResponse[pending[n]])[1]] = "full"
  BY <1>1, <1>2, HeadWaits DEF RoutineOK, Handling, ErrorsStay, IInv
<1>4. rpc[n] = "failedDone" => errChan'[held[n]] = "full"
  <2> SUFFICES ASSUME rpc[n] = "failedDone" PROVE errChan'[held[n]] = "full"
    OBVIOUS
  <2>1. held[n] \in Calls /\ n \in Rows[held[n]] /\ errChan[held[n]] = "full"
    BY <1>1 DEF RoutineOK
  <2>2. <<held[n], n>> \in Outstanding
    BY <2>1, RequestPair DEF Outstanding, Failing
  <2> QED
    BY <2>1, <2>2, OutstandingActive DEF ErrorsStay, IInv
<1>5. pending[n] # None => PendingOK(n)'
  BY <1>1 DEF RoutineOK, PendingOK, SameBuffer
<1> QED
  BY <1>1, <1>3, <1>4, <1>5 DEF RoutineOK, SameBuffer, Handling

(* The copiers and their channel, when a step leaves them and their        *)
(* buffers alone.                                                          *)
LEMMA CopierFrame ==
  ASSUME IInv, ErrorsStay, NEW k \in Copiers,
         cpc'[k] = cpc[k], creq'[k] = creq[k], cerr'[k] = cerr[k], stored \subseteq stored',
         creq[k] # NoRequest => /\ SameBuffer(creq[k].data)
                                /\ seriesCache[creq[k].table] \subseteq seriesCache'[creq[k].table]
  PROVE  CopierOK(k)'
<1>1. CopierOK(k)
  BY DEF IInv, AllCopiers
<1>2. creq[k] # NoRequest => creq[k].data \in Buffers
  BY RequestParts DEF IInv
<1>3. cpc[k] = "reportDone" => errChan'[Head(needsResponse[creq[k].data])[1]] = "full"
  BY <1>1, <1>2, HeadWaits DEF CopierOK, ErrorsStay, IInv
<1>4. creq[k] # NoRequest => Resolved(creq[k])'
  BY <1>1 DEF CopierOK, Resolved, SameBuffer
<1> QED
  BY <1>1, <1>3, <1>4 DEF CopierOK, SameBuffer

LEMMA CopySideFrame ==
  ASSUME IInv, ErrorsStay, UNCHANGED copierVars, stored \subseteq stored',
         \A b \in CopyData : SameBuffer(b),
         \A m \in Metrics : seriesCache[m] \subseteq seriesCache'[m]
  PROVE  AllQueued' /\ AllCopiers'
<1>1. AllCopiers'
  <2> SUFFICES ASSUME NEW k \in Copiers PROVE CopierOK(k)'
    BY DEF AllCopiers
  <2>1. creq[k] # NoRequest => creq[k].data \in CopyData /\ creq[k].table \in Metrics
    BY RequestParts DEF CopyData, IInv
  <2> QED
    BY <2>1, CopierFrame DEF copierVars
<1>2. AllQueued'
  <2> SUFFICES ASSUME NEW i \in DOMAIN toCopiers PROVE ChannelOK(toCopiers[i])'
    BY DEF AllQueued, copierVars
  <2>1. toCopiers[i].data \in CopyData /\ toCopiers[i].table \in Metrics /\ ChannelOK(toCopiers[i])
    BY RequestParts DEF CopyData, IInv, AllQueued
  <2> QED
    BY <2>1 DEF ChannelOK, Resolved, SameBuffer, copierVars
<1> QED
  BY <1>1, <1>2

(* The copiers' side when a step changes no buffer at all.                 *)
LEMMA SameBuffersFrame ==
  ASSUME IInv, ErrorsStay, UNCHANGED <<bufferVars, copierVars, pending>>,
         stored \subseteq stored',
         \A m \in Metrics : seriesCache[m] \subseteq seriesCache'[m]
  PROVE  AllBuffers' /\ AllQueued' /\ AllCopiers' /\ BufferHasOneOwner'
<1>1. \A b \in CopyData : SameBuffer(b)
  BY DEF SameBuffer, bufferVars
<1>2. AllQueued' /\ AllCopiers'
  BY <1>1, CopySideFrame
<1>3. AllBuffers'
  BY DEF IInv, AllBuffers, BufferOK, bufferVars
<1>4. BufferHasOneOwner'
  BY DEF IInv, BufferHasOneOwner, bufferVars, copierVars
<1> QED
  BY <1>2, <1>3, <1>4

(* The requests being failed, when a routine does something else.          *)
LEMMA FailingFrame ==
  ASSUME NEW m \in Metrics, rpc[m] # "failedDone", rpc'[m] # "failedDone",
         \A n \in Metrics \ {m} : rpc'[n] = rpc[n] /\ held'[n] = held[n]
  PROVE  Failing' = Failing
BY RequestPair DEF Failing

(* A step that moves no request.                                           *)
LEMMA SamePlaces ==
  ASSUME IInv, UNCHANGED <<todo, input, needsResponse, wg>>, Failing' = Failing
  PROVE  /\ Places' /\ WaitGroupExact'
         /\ Unsent' = Unsent /\ Queued' = Queued /\ Outstanding' = Outstanding
<1>1. Unsent' = Unsent /\ Queued' = Queued /\ Buffered' = Buffered
  BY DEF Unsent, Queued, Buffered
<1>2. Outstanding' = Outstanding
  BY <1>1 DEF Outstanding
<1>3. Places'
  BY <1>1 DEF IInv, Places
<1> QED
  BY <1>1, <1>2, <1>3, KeepCount DEF IInv

(* A step that answers no request.                                         *)
LEMMA AnswerFrame ==
  ASSUME AnswerInv, Outstanding' = Outstanding, stored \subseteq stored',
         \A c \in Calls : pc'[c] \in Active \cup {"collect"} =>
           /\ pc[c] \in Active \cup {"collect"}
           /\ errChan[c] = "full" => errChan'[c] = "full"
  PROVE  AnswerInv'
BY RequestPair DEF AnswerInv

(* What a routine with a buffer knows about it.                            *)
LEMMA HandlingFacts ==
  ASSUME IInv, NEW m \in Metrics, rpc[m] \in Handling
  PROVE  /\ RoutineOK(m) /\ PendingOK(m) /\ pending[m] \in Buffers /\ pending[m] # None
         /\ BufferOK(pending[m]) /\ infos[pending[m]] \in Nat
<1>1. RoutineOK(m)
  BY DEF IInv, AllRoutines
<1>2. pending[m] # None
  BY <1>1 DEF RoutineOK
<1>3. PendingOK(m)
  BY <1>1, <1>2 DEF RoutineOK
<1>4. pending[m] \in Buffers
  BY <1>2 DEF IInv, TypeOK, RoutineTypes
<1>5. BufferOK(pending[m])
  BY <1>4 DEF IInv, AllBuffers
<1>6. infos[pending[m]] \in Nat
  BY <1>4 DEF IInv, TypeOK, BufferTypes
<1> QED
  BY <1>1, <1>2, <1>3, <1>4, <1>5, <1>6

=============================================================================
