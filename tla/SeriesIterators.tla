--------------------------- MODULE SeriesIterators ---------------------------
(* How the evaluator reads the points of a series: the iterators of pkg/      *)
(* pgmodel/series_set.go and pkg/promql/value.go under the buffer of          *)
(* Prometheus, and the two ways to take points from it in pkg/promql/         *)
(* engine.go.  A point is a time and a value; values are integers.            *)
EXTENDS Integers, Sequences, FiniteSets

LOCAL INSTANCE SequencesExt
LOCAL INSTANCE FiniteSetsExt

CONSTANTS NaN,    \* not a number
          Stale,  \* the marker of the end of a series
          Null    \* an array element that is not present

Never == -1000    \* math.MinInt64, before all times

Point(t, v) == [t |-> t, v |-> v]

(* An iterator stands at a point; before the first it stands at 0. *)
Iterator(kind, pts) == [kind |-> kind, pts |-> pts, cur |-> 0]
At(it) == it.pts[it.cur]

(* The first of some positions, or one behind the last point. *)
FirstOf(it, S) == IF S = {} THEN Len(it.pts) + 1 ELSE Min(S)

(* pgxSeriesIterator steps over elements that are not present and seeks from *)
(* the beginning; storageSeriesIterator seeks from where it is, and stays at *)
(* the last point if there is none.                                          *)
IterNext(it) ==
    LET later == {i \in DOMAIN it.pts : i > it.cur /\ (it.kind = "pgx" => it.pts[i].v # Null)}
        at == IF it.kind = "pgx" THEN FirstOf(it, later) ELSE it.cur + 1
    IN  [it |-> [it EXCEPT !.cur = at], ok |-> at <= Len(it.pts)]

IterSeek(it, t) ==
    LET from == IF it.kind = "pgx" THEN 1 ELSE it.cur
        S == {i \in DOMAIN it.pts : i >= from /\ it.pts[i].v # Null /\ it.pts[i].t >= t}
        none == IF it.kind = "pgx" THEN Len(it.pts) + 1 ELSE Len(it.pts)
    IN  [it |-> [it EXCEPT !.cur = IF S = {} THEN none ELSE Min(S)], ok |-> S # {}]
-----------------------------------------------------------------------------
(* storage.BufferedSeriesIterator keeps the points of the last delta before  *)
(* the present one.                                                          *)
NewBuffer(it, delta) ==
    [it |-> IterNext(it).it, delta |-> delta, buf |-> <<>>, last |-> Never, ok |-> TRUE]

Within(buf, delta) ==
    IF buf = <<>> THEN buf
    ELSE SelectSeq(buf, LAMBDA p : p.t >= buf[Len(buf)].t - delta)

ReduceDelta(b, delta) ==
    IF delta > b.delta THEN b ELSE [b EXCEPT !.delta = delta, !.buf = Within(@, delta)]

(* The underlying iterator was moved. *)
Moves(b, n, buf) ==
    [b EXCEPT !.buf = buf, !.it = n.it, !.ok = n.ok, !.last = IF n.ok THEN At(n.it).t ELSE @]

BufferNext(b) == Moves(b, IterNext(b.it), Within(Append(b.buf, At(b.it)), b.delta))

RECURSIVE BufferForward(_, _)
BufferForward(b, t) == IF b.last >= t \/ ~b.ok THEN b ELSE BufferForward(BufferNext(b), t)

(* Points before the delta are jumped over. *)
BufferSeek(b, t) ==
    LET t0 == t - b.delta
    IN  BufferForward(IF t0 > b.last THEN Moves(b, IterSeek(b.it, t0), <<>>) ELSE b, t)

(* A seek has found a point at or after t. *)
Sought(b, t) == b.ok /\ b.last >= t
-----------------------------------------------------------------------------
(* vectorSelectorSingle: the value at a time is that of the last point not   *)
(* after it, unless it is too old or the series has ended.                   *)
NoValue == [ok |-> FALSE, t |-> 0, v |-> 0]

ValueAt(s, refTime, lookback) ==
    LET found == Sought(s, refTime) /\ At(s.it).t <= refTime
        back == s.buf # <<>> /\ s.buf[Len(s.buf)].t >= refTime - lookback
        p == IF found THEN At(s.it) ELSE s.buf[Len(s.buf)]
    IN  [it |-> s,
         val |-> IF (found \/ back) /\ p.v # Stale THEN [ok |-> TRUE, t |-> p.t, v |-> p.v]
                 ELSE NoValue]

vectorSelectorSingle(b, refTime, lookback) == ValueAt(BufferSeek(b, refTime), refTime, lookback)

(* matrixIterSlice: the window of one step from that of the step before.     *)
(* Points of out that are still in the window are kept, and only later ones  *)
(* are taken from the buffer.                                                *)
AfterLast(kept, mint) == IF kept = <<>> THEN mint ELSE kept[Len(kept)].t + 1

SliceFrom(s, mint, maxt, kept) ==
    LET from == AfterLast(kept, mint)
        buffered == SelectSeq(s.buf, LAMBDA p : p.v # Stale /\ p.t >= from)
        sought == IF Sought(s, maxt) /\ At(s.it).t = maxt /\ At(s.it).v # Stale
                  THEN <<At(s.it)>> ELSE <<>>
    IN  [it |-> s, out |-> kept \o buffered \o sought]

matrixIterSlice(b, mint, maxt, out) ==
    SliceFrom(BufferSeek(b, maxt), mint, maxt, SelectSeq(out, LAMBDA p : p.t >= mint))
=============================================================================
