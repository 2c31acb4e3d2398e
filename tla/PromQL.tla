------------------------------- MODULE PromQL --------------------------------
(* What a PromQL expression means at one time, from all that is stored, and  *)
(* an engine that evaluates statements: the iterators, buffers, windows,     *)
(* subqueries, time ranges and pushed-down calls of Evaluator must not show. *)
EXTENDS Evaluator

LOCAL INSTANCE SequencesExt
LOCAL INSTANCE FiniteSetsExt

CONSTANTS Statements,    \* what is asked: [expr, start, end, interval]
          Stores         \* what may be stored: [series, extension]

VARIABLES statement, store, answer

evaluation == <<statement, store, answer>>

NoAnswer == [err |-> FALSE, mat |-> <<>>, given |-> FALSE]

(* NewInstantQuery, NewRangeQuery: over a range of times, vectors and        *)
(* numbers are evaluated only.                                               *)
Accepted(stmt) == stmt.interval = 0 \/ stmt.expr.kind \notin {"mat", "sub"}

EngineInit ==
    /\ statement \in {stmt \in Statements : Accepted(stmt)}
    /\ store \in Stores
    /\ answer = NoAnswer

(* Exec *)
Given(r) == [err |-> r.err, mat |-> r.mat, given |-> TRUE]

Exec ==
    /\ ~answer.given
    /\ answer' = Given(execEvalStmt(statement, store))
    /\ UNCHANGED <<statement, store>>
-----------------------------------------------------------------------------
(* Vectors are sets of samples here.  Points of a time range, without the    *)
(* markers of staleness: *)
Between(pts, from, to) ==
    SelectSeq(pts, LAMBDA p : from <= p.t /\ p.t <= to /\ p.v # Stale)

SeriesNamed(name) == {s \in ToSet(store.series) : NameOf(s) = name}

(* The last point of a series that is not older than the lookback, unless    *)
(* the series has ended. *)
LastPoint(s, at) == {p \in ToSet(s.pts) : /\ p.t <= at /\ p.t >= at - LookbackDelta /\ p.v # Stale
                                         /\ \A q \in ToSet(s.pts) : q.t <= at => q.t <= p.t}

Instant(sel, ts, V(_)) ==
    {Sample(s.metric, V(p)) : <<s, p>> \in
        {<<s, p>> \in SeriesNamed(sel.metric) \X UNION {ToSet(s.pts) : s \in SeriesNamed(sel.metric)} :
            p \in LastPoint(s, ts - sel.offset)}}

Windows(mat, ts) ==
    LET at == ts - mat.sel.offset
    IN  {w \in {[s EXCEPT !.pts = Between(@, at - mat.range, at)] : s \in SeriesNamed(mat.sel.metric)} :
            w.pts # <<>>}

(* A function of the windows of some series. *)
OverWindows(fn, series, range, at) ==
    LET windows == {w \in {[metric |-> dropMetricName(s.metric), pts |-> Between(s.pts, at - range, at)] :
                               s \in series} : w.pts # <<>>}
        R(w) == FunctionCalls(fn, w.pts, at - range, at)
    IN  IF fn = "absent_over_time" THEN {Sample({}, 1) : x \in {y \in {0} : windows = {}}}
        ELSE {Sample(w.metric, R(w).v) : w \in {u \in windows : R(u).ok}}

Extreme(V, Before(_, _)) ==
    IF V \ {NaN} = {} THEN NaN ELSE CHOOSE x \in V \ {NaN} : \A y \in V \ {NaN} : ~Before(y, x)

(* Aggregations of a group of samples. *)
Aggregate(op, group) ==
    CASE op = "sum" -> FoldSet(LAMBDA s, acc : Add(acc, s.v), 0, group)
      [] op = "max" -> Extreme({s.v : s \in group}, LAMBDA x, y : x > y)
      [] op = "min" -> Extreme({s.v : s \in group}, LAMBDA x, y : x < y)
      [] op \in {"count", "count_values"} -> Cardinality(group)

Aggregated(e, vec) ==
    LET Key(s) == GroupLabels(e.grouping, e.without, s.metric)
        Group(s) == {t \in vec : Key(t) = Key(s)}
        Value_(s) == {<<e.param, ToString(s.v)>>}
    IN  CASE e.op \in {"topk", "bottomk"} ->
                {s \in vec : Cardinality({t \in Group(s) \ {s} : Precedes(e.op, s.v, t.v)}) < e.param}
          [] e.op = "count_values" ->
                {Sample(Without(Key(s), {e.param}) \cup Value_(s),
                        Cardinality({t \in Group(s) : t.v = s.v})) : s \in vec}
          [] OTHER -> {Sample(Key(s), Aggregate(e.op, Group(s))) : s \in vec}

(* Binary operations of samples with the same signature. *)
Operated(e, l, r) ==
    LET El(a, b) == vectorElemBinop(e.op, a.v, b.v)
        Sig(s) == signatureFunc(e.matching, s.metric)
        Many(a, b) == IF e.matching.card = "one-to-many" THEN <<b.metric, a.metric>>
                      ELSE <<a.metric, b.metric>>
        Result(a, b) == Sample(resultMetric(Many(a, b)[1], Many(a, b)[2], e.op, e.matching),
                               IF e.bool THEN btos(El(a, b).keep) ELSE El(a, b).v)
        scalarL == IsScalar(e.lhs)
        scalarR == IsScalar(e.rhs)
        s == IF scalarL THEN CHOOSE x \in l : TRUE ELSE CHOOSE x \in r : TRUE
        vec == IF scalarL THEN r ELSE l
        E(x) == IF scalarL THEN El(s, x) ELSE El(x, s)
        compares == IsComparisonOperator(e.op)
    IN  IF scalarL /\ scalarR THEN {Sample({}, IF compares THEN btos(El(a, b).keep) ELSE El(a, b).v) :
                                       a \in l, b \in r}
        ELSE IF scalarL \/ scalarR
        THEN {Sample(IF compares /\ ~e.bool THEN x.metric ELSE dropMetricName(x.metric),
                     IF e.bool THEN btos(E(x).keep) ELSE IF compares THEN x.v ELSE E(x).v) :
                 x \in {y \in vec : e.bool \/ E(y).keep}}
        ELSE CASE e.op = "and" -> {a \in l : \E b \in r : Sig(a) = Sig(b)}
               [] e.op = "unless" -> {a \in l : \A b \in r : Sig(a) # Sig(b)}
               [] e.op = "or" -> l \cup {b \in r : \A a \in l : Sig(a) # Sig(b)}
               [] OTHER -> {Result(p[1], p[2]) : p \in {q \in l \X r : /\ Sig(q[1]) = Sig(q[2])
                                                                       /\ e.bool \/ El(q[1], q[2]).keep}}

(* The value of an expression at a time. *)
RECURSIVE Sem(_, _)
Sem(e, ts) ==
    LET A(i) == Sem(Children(e)[i], ts)
        Renamed(V(_)) == {Sample(dropMetricName(s.metric), V(s)) : s \in A(1)} IN
    CASE e.kind = "sel" -> Instant(e, ts, LAMBDA p : p.v)
      [] e.kind = "num" -> {Sample({}, e.v)}
      [] e.kind = "neg" -> Renamed(LAMBDA s : Minus(s.v))
      [] e.kind = "agg" -> Aggregated(e, A(1))
      [] e.kind = "bin" -> Operated(e, A(1), A(2))
      [] e.kind = "fn" ->
            IF e.fn = "timestamp" /\ e.args[1].kind = "sel"
            THEN {Sample(dropMetricName(s.metric), s.v) : s \in Instant(e.args[1], ts, LAMBDA p : p.t)}
            ELSE ToSet(InstantFunction(e.fn, [i \in DOMAIN e.args |-> SetToSeq(A(i))], ts))
      [] e.kind = "call" ->
            IF e.arg.kind = "mat"
            THEN OverWindows(e.fn, SeriesNamed(e.arg.sel.metric), e.arg.range, ts - e.arg.sel.offset)
            ELSE LET sub == e.arg
                     step == IF sub.step # 0 THEN sub.step ELSE DefaultInterval
                     at == ts - sub.offset
                     times == {t \in (at - sub.range)..at : t % step = 0}
                     values == {[s |-> s, t |-> t] : <<s, t>> \in
                                   UNION {Sem(sub.expr, t) \X {t} : t \in times}}
                     PointsOf(metric) ==
                         SetToSortSeq({Point(v.t, v.s.v) : v \in {u \in values : u.s.metric = metric}},
                                      LAMBDA p, q : p.t < q.t)
                 IN  OverWindows(e.fn, {[metric |-> m, pts |-> PointsOf(m)] : m \in {v.s.metric : v \in values}},
                                 sub.range, at)

(* The answer as a set of samples per time. *)
AnswerAt(ts) ==
    {Sample(s.metric, p.v) : <<s, p>> \in
        UNION {{s} \X {p \in ToSet(s.pts) : p.t = ts} : s \in ToSet(answer.mat)}}

StatementTimes ==
    {t \in statement.start..statement.end :
        (t - statement.start) % (IF statement.interval = 0 THEN 1 ELSE statement.interval) = 0}

(* A delta with an offset that the database computes: its points have the    *)
(* times of the windows, not those of the steps.                             *)
ShiftedPushdown == \E e \in populateSeries(statement.expr, store).topNode : e.arg.sel.offset # 0

(* An answer without an error has, at every step of the query and at no      *)
(* other time, what the expression means there, though it was computed in    *)
(* one pass over buffered points, from the time range that was asked for and *)
(* in part by the database, unless that shifts it (eval, matrixIterSlice,    *)
(* findMinTime, getPushdownResult).                                          *)
EvaluatesAsDefined ==
    answer.given /\ ~answer.err /\ ~ShiftedPushdown =>
        IF statement.expr.kind = "mat" THEN ToSet(answer.mat) = Windows(statement.expr, statement.start)
        ELSE /\ \A s \in ToSet(answer.mat) : \A p \in ToSet(s.pts) : p.t \in StatementTimes
             /\ \A ts \in StatementTimes : AnswerAt(ts) = Sem(statement.expr, ts)
=============================================================================
