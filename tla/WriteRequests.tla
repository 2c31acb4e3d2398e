--------------------------- MODULE WriteRequests ----------------------------
(* Remote-write requests on their way to the inserter: the handler of        *)
(* pkg/api/write.go, the request pool of pkg/pgmodel/insert_ctx.go, parseData *)
(* of ingestor.go and the interned labels of labels.go.  Requests are decoded *)
(* into memory that was used before; the arrays of samples leave it with the *)
(* data.                                                                     *)
EXTENDS WireFormat, FiniteSets

LOCAL INSTANCE SequencesExt
LOCAL INSTANCE FiniteSetsExt

CONSTANTS Handlers,
          Requests,      \* the WriteRequest objects in memory
          NoRequest,
          Sent,          \* the messages clients send
          Bodies,        \* what arrives of them: [sent, bytes, whole]
          NameLabel,     \* MetricNameLabelName
          MaxStrLen,     \* math.MaxUint16
          MaxArrays,     \* bound: arrays of samples in memory
          MaxInflight    \* bound: requests that are not yet stored

VARIABLES mem,        \* what is in the memory of every request object
          place,      \* where it is: in use by a handler, "pool" or "free"
          heap,       \* what is in every array of samples
          handler,    \* what every handler is doing
          inflight,   \* the data handed to InsertNewData and not yet stored
          interner    \* LabelsInterner

vars == <<mem, place, heap, handler, inflight, interner>>

Arrays == 1..MaxArrays
Idle == [pc |-> "idle", req |-> NoRequest, sent |-> 0, whole |-> FALSE]

ASSUME WriteRequestsAssumption ==
    /\ NoRequest \notin Requests
    /\ MaxStrLen \in Nat
    /\ MaxArrays \in Nat
    /\ MaxInflight \in Nat \ {0}

Init ==
    /\ mem = [r \in Requests |-> NewMessage("WriteRequest")]
    /\ place = [r \in Requests |-> "free"]
    /\ heap = [a \in Arrays |-> <<>>]
    /\ handler = [h \in Handlers |-> Idle]
    /\ inflight = {}
    /\ interner = {}

Series(m) == Elems(m.f[1])
LabelsOf(ts) == Elems(ts.f[1])
SamplesOf(ts) == ts.f[2]
ArraysOf(m) == {SamplesOf(m.f[1].arr[k]).id : k \in DOMAIN m.f[1].arr} \ {0}
ArraysOfBatch(b) == UNION {{d.samples.id : d \in ToSet(b.data[name])} : name \in DOMAIN b.data}
-----------------------------------------------------------------------------
(* getStr: the labels sorted by name, every name and value after its length  *)
(* in two bytes.                                                             *)
BytesLess(a, b) ==
    \/ IsStrictPrefix(a, b)
    \/ \E i \in DOMAIN a \cap DOMAIN b :
          a[i] < b[i] /\ \A j \in 1..(i - 1) : a[j] = b[j]

Sorted(labels) == SortSeq(labels, LAMBDA l, k : BytesLess(l.f[1], k.f[1]))

Prefixed(s) == <<Len(s) % 256, (Len(s) \div 256) % 256>> \o s

TooLong(labels) ==
    MapThenSumSet(LAMBDA i : 4 + Len(labels[i].f[1]) + Len(labels[i].f[2]), DOMAIN labels) > MaxStrLen

getStr(labels) ==
    FlattenSeq([i \in DOMAIN labels |->
                    LET l == Sorted(labels)[i] IN Prefixed(l.f[1]) \o Prefixed(l.f[2])])

(* What labelProtosToLabels makes of labels that are not interned yet. *)
NewLabels(labels) ==
    LET sorted == Sorted(labels)
        name == SelectLastInSeq(sorted, LAMBDA l : l.f[1] = NameLabel) IN
    [str |-> getStr(labels),
     names |-> [i \in DOMAIN sorted |-> sorted[i].f[1]],
     values |-> [i \in DOMAIN sorted |-> sorted[i].f[2]],
     metricName |-> IF name = 0 THEN <<>> ELSE sorted[name].f[2]]

(* LoadOrStore keeps the labels that are there. *)
Interned(labels) ==
    LET same == {l \in interner : l.str = getStr(labels)}
    IN  IF same = {} THEN NewLabels(labels) ELSE CHOOSE l \in same : TRUE
-----------------------------------------------------------------------------
(* Arrays that were allocated by the decoder get a free number each. *)
Numbered(m, free) ==
    LET ts == m.f[1].arr
        fresh == {k \in DOMAIN ts : SamplesOf(ts[k]).id = 0 /\ SamplesOf(ts[k]).arr # <<>>}
        Rank(k, S) == Cardinality({j \in S : j <= k})
        NumberOf(k) == CHOOSE a \in free : Rank(a, free) = Rank(k, fresh) IN
    [m EXCEPT !.f[1].arr =
        [k \in DOMAIN ts |-> IF k \in fresh THEN [ts[k] EXCEPT !.f[2].id = NumberOf(k)] ELSE ts[k]]]

(* Memory that nothing refers to any more is collected. *)
Freed(arrays) == [a \in Arrays |-> IF a \in arrays THEN <<>> ELSE heap[a]]

InUse == UNION {ArraysOf(mem[r]) : r \in {q \in Requests : place[q] # "free"}}
         \cup UNION {ArraysOfBatch(b) : b \in inflight}

(* A request arrives, perhaps cut short.  It is decoded into a request from  *)
(* the pool, or into a new one: sync.Pool may be empty, or forget.  One that *)
(* cannot be decoded is dropped with what was decoded of it.                 *)
Decoded(h, r, body, m) ==
    /\ mem' = [mem EXCEPT ![r] = m]
    /\ place' = [place EXCEPT ![r] = h]
    /\ heap' = [a \in Arrays |->
                  IF a \in ArraysOf(m)
                  THEN SamplesOf(CHOOSE t \in ToSet(m.f[1].arr) : SamplesOf(t).id = a).arr
                  ELSE heap[a]]
    /\ handler' = [handler EXCEPT ![h] = [pc |-> "ingest", req |-> r, sent |-> body.sent,
                                          whole |-> body.whole]]

Dropped(r) ==
    /\ place' = [place EXCEPT ![r] = "free"]
    /\ mem' = [mem EXCEPT ![r] = NewMessage("WriteRequest")]
    /\ UNCHANGED <<heap, handler>>

Write(h) ==
    /\ handler[h].pc = "idle"
    /\ Cardinality(inflight) + Cardinality({g \in Handlers : handler[g] # Idle}) < MaxInflight
    /\ \E r \in {q \in Requests : place[q] \in {"pool", "free"}}, body \in Bodies :
         \E got \in {Unmarshal("WriteRequest", Reset("WriteRequest", mem[r]), body.bytes)} :
             IF got.err # "" THEN Dropped(r) ELSE Decoded(h, r, body, Numbered(got.val, Arrays \ InUse))
    /\ UNCHANGED <<inflight, interner>>

(* FinishWriteRequest *)
Finished(m) ==
    LET Cleared(ts) ==
            [f |-> << [ts.f[1] EXCEPT !.len = 0,
                                      !.arr = [i \in DOMAIN @ |-> IF i <= ts.f[1].len
                                                                  THEN NewMessage("Label") ELSE @[i]]],
                      [ts.f[2] EXCEPT !.len = 0] >>,
             unknown |-> <<>>]
        all == m.f[1] IN
    [f |-> << [all EXCEPT !.len = 0,
                          !.arr = [k \in DOMAIN @ |-> IF k <= all.len THEN Cleared(@[k]) ELSE @[k]]] >>,
     unknown |-> <<>>]

(* t.Samples = nil, for the series whose samples go with the data *)
KeptSamples(ts) == ts
Detached(ts) == IF SamplesOf(ts).len = 0 THEN ts ELSE [ts EXCEPT !.f[2] = NilSlice]

(* Series without samples are left out; the first one that is too long or    *)
(* has no metric name fails the request, which then is not returned to the   *)
(* pool.                                                                     *)
ParseData(h) ==
    /\ handler[h].pc = "ingest"
    /\ LET r == handler[h].req
           all == Series(mem[r])
           used == {i \in DOMAIN all : SamplesOf(all[i]).len # 0}
           bad == {i \in used : TooLong(LabelsOf(all[i])) \/ Interned(LabelsOf(all[i])).metricName = <<>>}
           seen == {i \in used : \A j \in bad : i <= j} \ {i \in bad : TooLong(LabelsOf(all[i]))}
           good == SelectSeq([i \in DOMAIN all |-> i], LAMBDA i : i \in used)
           item == [i \in used |-> [labels |-> Interned(LabelsOf(all[i])), samples |-> SamplesOf(all[i])]]
           names == {item[i].labels.metricName : i \in used}
           data == [name \in names |->
                       LET of == SelectSeq(good, LAMBDA i : item[i].labels.metricName = name)
                       IN  [j \in DOMAIN of |-> item[of[j]]]]
           left == [mem[r] EXCEPT !.f[1].arr =
                       [k \in DOMAIN @ |-> IF k <= mem[r].f[1].len THEN Detached(@[k]) ELSE @[k]]] IN
       /\ interner' = interner \cup {Interned(LabelsOf(all[i])) : i \in seen}
       /\ IF bad # {}
          THEN /\ place' = [place EXCEPT ![r] = "free"]
               /\ mem' = [mem EXCEPT ![r] = NewMessage("WriteRequest")]
               /\ handler' = [handler EXCEPT ![h] = Idle]
               /\ heap' = Freed(ArraysOf(mem[r]))
               /\ UNCHANGED inflight
          ELSE /\ place' = [place EXCEPT ![r] = "pool"]
               /\ mem' = [mem EXCEPT ![r] = Finished(left)]
               /\ inflight' = inflight \cup {[sent |-> handler[h].sent, series |-> Len(all), data |-> data]}
               /\ handler' = [handler EXCEPT ![h].pc = "insert", ![h].req = NoRequest]
               /\ UNCHANGED heap

(* InsertNewData returns, without waiting for the data if acks are           *)
(* asynchronous.                                                             *)
Respond(h) ==
    /\ handler[h].pc = "insert"
    /\ handler' = [handler EXCEPT ![h] = Idle]
    /\ UNCHANGED <<mem, place, heap, inflight, interner>>

Store ==
    /\ \E b \in inflight :
         /\ inflight' = inflight \ {b}
         /\ heap' = Freed(ArraysOfBatch(b))
    /\ UNCHANGED <<mem, place, handler, interner>>

(* sync.Pool drops a request. *)
Collect ==
    /\ \E r \in Requests :
         /\ place[r] = "pool"
         /\ place' = [place EXCEPT ![r] = "free"]
         /\ mem' = [mem EXCEPT ![r] = NewMessage("WriteRequest")]
    /\ UNCHANGED <<heap, handler, inflight, interner>>

Next ==
    \/ \E h \in Handlers : Write(h) \/ ParseData(h) \/ Respond(h)
    \/ Store \/ Collect

Spec == Init /\ [][Next]_vars
-----------------------------------------------------------------------------
(* Properties.                                                               *)

SentSeries(k) == Content("WriteRequest", Sent[k])[2][1]
SeriesContent(ts) == Content("TimeSeries", ts)

(* Whatever was in the memory before, a decoded request holds the series     *)
(* that were sent, with no label or sample of an earlier request; of a body  *)
(* that was cut short, the first ones of them, each complete (Unmarshal with *)
(* the reuse of slices, Reset).                                              *)
DecodedAsSent ==
    \A h \in Handlers : handler[h].pc = "ingest" =>
        LET all == Series(mem[handler[h].req])
            got == [i \in DOMAIN all |-> SeriesContent(all[i])] IN
        /\ IsPrefix(got, SentSeries(handler[h].sent))
        /\ handler[h].whole => got = SentSeries(handler[h].sent)

(* Until they are stored, the data that went to the inserter stay what the   *)
(* client sent: under its metric name every series that has samples, with    *)
(* its labels and its samples, however the request object is used meanwhile  *)
(* (parseData "we're going to free req after this, but we still need the     *)
(* samples").                                                                *)
DataStayAsSent ==
    \A b \in inflight :
        LET all == SubSeq(Series(Sent[b.sent]), 1, b.series)
            Of(name) == SelectSeq(all, LAMBDA ts :
                /\ SamplesOf(ts).len # 0
                /\ \E l \in ToSet(LabelsOf(ts)) : l.f = <<NameLabel, name>>) IN
        /\ \A ts \in ToSet(all) : SamplesOf(ts).len # 0 =>
              \E name \in DOMAIN b.data : ts \in ToSet(Of(name))
        /\ \A name \in DOMAIN b.data :
              /\ Len(b.data[name]) = Len(Of(name))
              /\ \A j \in DOMAIN b.data[name] :
                    LET d == b.data[name][j] IN
                    /\ {<<d.labels.names[i], d.labels.values[i]>> : i \in DOMAIN d.labels.names}
                          = {l.f : l \in ToSet(LabelsOf(Of(name)[j]))}
                    /\ SubSeq(heap[d.samples.id], 1, d.samples.len) = Elems(SamplesOf(Of(name)[j]))
=============================================================================
