----------------------------- MODULE PromVectors -----------------------------
(* Operations on vectors of pkg/promql/engine.go and functions of            *)
(* functions.go.  A metric is a set of labels <<name, value>>, and stands    *)
(* for its own hash; a vector is a sequence of samples.                      *)
EXTENDS SeriesIterators

LOCAL INSTANCE SequencesExt
LOCAL INSTANCE FiniteSetsExt

CONSTANT Scale    \* fractions are rounded to multiples of 1/Scale

MetricName == "__name__"

Sample(metric, v) == [metric |-> metric, v |-> v]
Ok(vec) == [err |-> FALSE, vec |-> vec]
Error == [err |-> TRUE, vec |-> <<>>]

Without(metric, names) == {l \in metric : l[1] \notin names}
Only(metric, names) == {l \in metric : l[1] \in names}
dropMetricName(metric) == Without(metric, {MetricName})
Map(vec, F(_)) == <<>> \o [i \in DOMAIN vec |-> F(vec[i])]

ContainsSameLabelset(vec) == \E i, j \in DOMAIN vec : i # j /\ vec[i].metric = vec[j].metric

(* Comparisons with NaN are false. *)
Less(a, b) == a # NaN /\ b # NaN /\ a < b
Add(a, b) == IF NaN \in {a, b} THEN NaN ELSE a + b
Minus(a) == IF a = NaN THEN NaN ELSE -a
-----------------------------------------------------------------------------
(* How a binary operation pairs the samples of two vectors. *)
Matching(card, on, labels, include) ==
    [card |-> card, on |-> on, labels |-> labels, include |-> include]

signatureFunc(m, metric) ==
    IF m.on THEN Only(metric, m.labels) ELSE Without(metric, m.labels \cup {MetricName})

Signatures(vec, m) == {signatureFunc(m, vec[i].metric) : i \in DOMAIN vec}

VectorAnd(lhs, rhs, m) ==
    Ok(SelectSeq(lhs, LAMBDA s : signatureFunc(m, s.metric) \in Signatures(rhs, m)))
VectorOr(lhs, rhs, m) ==
    Ok(lhs \o SelectSeq(rhs, LAMBDA s : signatureFunc(m, s.metric) \notin Signatures(lhs, m)))
VectorUnless(lhs, rhs, m) ==
    Ok(SelectSeq(lhs, LAMBDA s : signatureFunc(m, s.metric) \notin Signatures(rhs, m)))

shouldDropMetricName(op) == op \in {"+", "-", "*"}
IsComparisonOperator(op) == op \in {"==", "!=", "<"}

(* A value, and whether it is kept. *)
vectorElemBinop(op, l, r) ==
    CASE op = "+" -> [v |-> Add(l, r), keep |-> TRUE]
      [] op = "-" -> [v |-> Add(l, Minus(r)), keep |-> TRUE]
      [] op = "*" -> [v |-> IF NaN \in {l, r} THEN NaN ELSE l * r, keep |-> TRUE]
      [] op = "==" -> [v |-> l, keep |-> l = r /\ l # NaN]
      [] op = "!=" -> [v |-> l, keep |-> l # r \/ l = NaN]
      [] op = "<" -> [v |-> l, keep |-> Less(l, r)]

btos(b) == IF b THEN 1 ELSE 0
scalarBinop(op, l, r) ==
    LET e == vectorElemBinop(op, l, r)
    IN  IF IsComparisonOperator(op) THEN btos(e.keep) ELSE e.v

(* The labels of a result are those of the "many" side, less what was not    *)
(* matched on, and with those included from the "one" side.                  *)
resultMetric(many, one, op, m) ==
    LET base == IF shouldDropMetricName(op) THEN dropMetricName(many) ELSE many
        matched == IF m.card # "one-to-one" THEN base
                   ELSE IF m.on THEN Only(base, m.labels) ELSE Without(base, m.labels)
    IN  Without(matched, m.include) \cup Only(one, m.include)

(* Two results for one signature are an error, unless the many side may have *)
(* them and their labels differ.                                             *)
Unambiguous(pairs, m) ==
    IF \E i, j \in DOMAIN pairs :
          /\ i # j /\ pairs[i].sig = pairs[j].sig
          /\ m.card = "one-to-one" \/ pairs[i].sample.metric = pairs[j].sample.metric
    THEN Error ELSE Ok(Map(pairs, LAMBDA p : p.sample))

(* Every sample of the many side meets the only one with its signature.      *)
VectorBinop(op, l, r, m, bool) ==
    LET swap == m.card = "one-to-many"
        many == IF swap THEN r ELSE l
        one == IF swap THEN l ELSE r
        Sig(s) == signatureFunc(m, s.metric)
        Pair(s) ==
            LET o == one[CHOOSE i \in DOMAIN one : Sig(one[i]) = Sig(s)]
                e == IF swap THEN vectorElemBinop(op, o.v, s.v) ELSE vectorElemBinop(op, s.v, o.v)
            IN  [sig |-> Sig(s), keep |-> bool \/ e.keep,
                 sample |-> Sample(resultMetric(s.metric, o.metric, op, m),
                                   IF bool THEN btos(e.keep) ELSE e.v)]
        pairs == SelectSeq(Map(SelectSeq(many, LAMBDA s : Sig(s) \in Signatures(one, m)), Pair),
                           LAMBDA p : p.keep)
        duplicate == \E i, j \in DOMAIN one : i # j /\ Sig(one[i]) = Sig(one[j])
    IN  IF duplicate THEN Error ELSE Unambiguous(pairs, m)

(* With a scalar on the left, a comparison still keeps the vector's value. *)
VectorscalarBinop(op, vec, scalar, swap, bool) ==
    LET El(s) == IF swap THEN vectorElemBinop(op, scalar, s.v) ELSE vectorElemBinop(op, s.v, scalar)
        Val(s) == IF bool THEN btos(El(s).keep)
                  ELSE IF IsComparisonOperator(op) /\ swap THEN s.v ELSE El(s).v
        Metric(s) == IF shouldDropMetricName(op) \/ bool THEN dropMetricName(s.metric) ELSE s.metric
    IN  Ok(Map(SelectSeq(vec, LAMBDA s : bool \/ El(s).keep), LAMBDA s : Sample(Metric(s), Val(s))))
-----------------------------------------------------------------------------
(* aggregation: the samples are added one by one to the group of their       *)
(* labels.  A group of topk and bottomk is a heap of at most k samples with  *)
(* the next to go, a NaN before all others, on top.                          *)
Precedes(op, a, b) ==
    a = NaN \/ (IF op = "topk" THEN Less(a, b) ELSE Less(b, a))
Top(op, heap) ==
    CHOOSE i \in DOMAIN heap : \A j \in DOMAIN heap : Precedes(op, heap[i].v, heap[j].v)
                                                      \/ ~Precedes(op, heap[j].v, heap[i].v)

Pushed(op, heap, s, k) ==
    LET top == Top(op, heap)
        first == heap[top].v IN
    IF Len(heap) < k THEN Append(heap, s)
    ELSE IF (IF op = "topk" THEN Less(first, s.v) ELSE Less(s.v, first)) \/ first = NaN
    THEN Append(RemoveAt(heap, top), s)
    ELSE heap

NewGroup(key, labels, s) ==
    [key |-> key, labels |-> labels, value |-> s.v, count |-> 1, heap |-> <<s>>]

Joined(op, k, g, s) ==
    CASE op = "sum" -> [g EXCEPT !.value = Add(@, s.v)]
      [] op = "max" -> [g EXCEPT !.value = IF Less(@, s.v) \/ @ = NaN THEN s.v ELSE @]
      [] op = "min" -> [g EXCEPT !.value = IF Less(s.v, @) \/ @ = NaN THEN s.v ELSE @]
      [] op \in {"count", "count_values"} -> [g EXCEPT !.count = @ + 1]
      [] op \in {"topk", "bottomk"} -> [g EXCEPT !.heap = Pushed(op, @, s, k)]

(* Grouping without labels also leaves the name of the metric out. *)
GroupLabels(grouping, without, metric) ==
    IF without THEN Without(metric, grouping \cup {MetricName}) ELSE Only(metric, grouping)

aggregation(op, grouping, without, param, vec) ==
    LET by == IF op = "count_values" /\ ~without THEN grouping \cup {param} ELSE grouping
        Metric(s) == IF op = "count_values"
                     THEN Without(s.metric, {param}) \cup {<<param, ToString(s.v)>>} ELSE s.metric
        AddTo(groups, s) ==
            LET key == GroupLabels(by, without, Metric(s)) IN
            IF \E i \in DOMAIN groups : groups[i].key = key
            THEN [i \in DOMAIN groups |->
                    IF groups[i].key = key THEN Joined(op, param, groups[i], s) ELSE groups[i]]
            ELSE Append(groups, NewGroup(key, key, s))
        groups == FoldLeft(AddTo, <<>>, vec)
        Result(g) == IF op \in {"count", "count_values"} THEN g.count ELSE g.value
    IN  IF op \in {"topk", "bottomk"}
        THEN IF param < 1 THEN <<>> ELSE FlattenSeq(Map(groups, LAMBDA g : g.heap))
        ELSE Map(groups, LAMBDA g : Sample(g.labels, Result(g)))
-----------------------------------------------------------------------------
(* Functions of the points in a window, which is not empty.  None is no      *)
(* result.                                                                   *)
None == [ok |-> FALSE, v |-> 0]
Value(v) == [ok |-> TRUE, v |-> v]

SumOver(pts) == FoldLeft(LAMBDA acc, p : Add(acc, p.v), 0, pts)
MaxOver(pts) == FoldLeft(LAMBDA max, p : IF Less(max, p.v) \/ max = NaN THEN p.v ELSE max, pts[1].v, pts)
MinOver(pts) == FoldLeft(LAMBDA min, p : IF Less(p.v, min) \/ min = NaN THEN p.v ELSE min, pts[1].v, pts)
Resets(pts) == Cardinality({i \in 2..Len(pts) : Less(pts[i].v, pts[i - 1].v)})
Changes(pts) == Cardinality({i \in 2..Len(pts) : pts[i].v # pts[i - 1].v})

(* extrapolatedRate of delta and increase: what the counter or gauge gained, *)
(* as if the samples went on to the ends of the window when they are near.   *)
extrapolatedRate(pts, mint, maxt, isCounter) ==
    LET n == Len(pts)
        sampled == pts[n].t - pts[1].t
        correction == FoldLeft(LAMBDA acc, i : acc + (IF Less(pts[i].v, pts[i - 1].v)
                                                      THEN pts[i - 1].v ELSE 0),
                               0, [i \in 1..(n - 1) |-> i + 1])
        gained == pts[n].v - pts[1].v + (IF isCounter THEN correction ELSE 0)
        fromZero == isCounter /\ gained > 0 /\ pts[1].v >= 0
        (* durations in units of the sampled interval over 2 (n - 1) gained *)
        k == IF fromZero THEN gained ELSE 1
        unit == 2 * (n - 1) * k
        toStart == IF fromZero /\ sampled * pts[1].v < gained * (pts[1].t - mint)
                   THEN 2 * (n - 1) * sampled * pts[1].v ELSE (pts[1].t - mint) * unit
        toEnd == (maxt - pts[n].t) * unit
        Near(d) == IF 10 * d < 22 * sampled * k THEN d ELSE sampled * k
        interval == sampled * unit + Near(toStart) + Near(toEnd)
    IN  IF n < 2 THEN None
        ELSE IF NaN \in {pts[1].v, pts[n].v} THEN Value(NaN)
        ELSE Value((Scale * gained * interval) \div (sampled * unit))

idelta(pts) == IF Len(pts) < 2 THEN None ELSE Value(Add(pts[Len(pts)].v, Minus(pts[Len(pts) - 1].v)))

FunctionCalls(name, pts, mint, maxt) ==
    CASE name = "count_over_time" -> Value(Len(pts))
      [] name = "sum_over_time" -> Value(SumOver(pts))
      [] name = "max_over_time" -> Value(MaxOver(pts))
      [] name = "min_over_time" -> Value(MinOver(pts))
      [] name = "changes" -> Value(Changes(pts))
      [] name = "resets" -> Value(Resets(pts))
      [] name = "idelta" -> idelta(pts)
      [] name = "delta" -> extrapolatedRate(pts, mint, maxt, FALSE)
      [] name = "increase" -> extrapolatedRate(pts, mint, maxt, TRUE)
      [] name = "absent_over_time" -> Value(1)
=============================================================================
