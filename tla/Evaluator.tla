------------------------------ MODULE Evaluator ------------------------------
(* PromQL queries over a range of times: execEvalStmt, findMinTime,          *)
(* populateSeries and the evaluator of pkg/promql/engine.go, with the        *)
(* pushdown of delta of pkg/pgmodel/query_builder.go.  A statement is        *)
(* [expr, start, end, interval]; a store is a sequence of series             *)
(* [metric, pts] with the flag of whether the extension is installed.        *)
EXTENDS Gapfill

LOCAL INSTANCE SequencesExt
LOCAL INSTANCE FiniteSetsExt

CONSTANTS LookbackDelta,     \* of the engine
          DefaultInterval    \* of subqueries without a step

(* Expressions. *)
Sel(metric, offset) == [kind |-> "sel", metric |-> metric, offset |-> offset]
Mat(metric, range, offset) == [kind |-> "mat", sel |-> Sel(metric, offset), range |-> range]
Sub(expr, range, step, offset) ==
    [kind |-> "sub", expr |-> expr, range |-> range, step |-> step, offset |-> offset]
Call(fn, arg) == [kind |-> "call", fn |-> fn, arg |-> arg]
Fn(fn, args) == [kind |-> "fn", fn |-> fn, args |-> args]
Num(v) == [kind |-> "num", v |-> v]
Neg(expr) == [kind |-> "neg", expr |-> expr]
Bin(op, lhs, rhs, matching, bool) ==
    [kind |-> "bin", op |-> op, lhs |-> lhs, rhs |-> rhs, matching |-> matching, bool |-> bool]
Agg(op, grouping, without, param, expr) ==
    [kind |-> "agg", op |-> op, grouping |-> grouping, without |-> without, param |-> param,
     expr |-> expr]

Children(e) ==
    CASE e.kind \in {"sel", "num"} -> <<>>
      [] e.kind = "mat" -> <<e.sel>>
      [] e.kind = "call" -> <<e.arg>>
      [] e.kind \in {"sub", "neg", "agg"} -> <<e.expr>>
      [] e.kind = "fn" -> e.args
      [] e.kind = "bin" -> <<e.lhs, e.rhs>>

RECURSIVE IsScalar(_)
IsScalar(e) ==
    \/ e.kind = "num"
    \/ e.kind = "fn" /\ e.fn \in {"scalar", "time"}
    \/ e.kind \in {"neg", "bin"} /\ \A i \in DOMAIN Children(e) : IsScalar(Children(e)[i])
-----------------------------------------------------------------------------
(* findMinTime: how far before the start of the query samples are needed.    *)
(* A selector under subqueries needs what all of them reach back to.         *)
RangeOnly(e) == IF e.kind = "sub" THEN e.range ELSE 0
SubqueryOffset(e) == IF e.kind = "sub" THEN e.range + e.offset ELSE 0

RECURSIVE MaxOffset(_, _)
MaxOffset(e, subqOffset) ==
    CASE e.kind = "sel" -> LookbackDelta + e.offset + subqOffset
      [] e.kind = "mat" -> e.range + e.sel.offset + subqOffset
      [] OTHER -> Max({0} \cup {MaxOffset(Children(e)[i], subqOffset + SubqueryOffset(e)) :
                                    i \in DOMAIN Children(e)})

findMinTime(stmt) == stmt.start - MaxOffset(stmt.expr, 0)

(* The selectors in the order in which populateSeries meets them; of delta   *)
(* over a metric that has a table, not under a subquery, the database        *)
(* computes the whole call (getQueryFinalizer).                              *)
NameOf(s) == (CHOOSE l \in s.metric : l[1] = MetricName)[2]
HasTable(store, name) == \E i \in DOMAIN store.series : NameOf(store.series[i]) = name

PushedDown(e, store) ==
    /\ store.extension
    /\ e.kind = "call" /\ e.fn = "delta"
    /\ e.arg.kind = "mat" /\ HasTable(store, e.arg.sel.metric)

RECURSIVE Selections(_, _)
Selections(e, store) ==
    IF e.kind = "sel" \/ PushedDown(e, store) THEN <<e>>
    ELSE FlattenSeq([i \in DOMAIN Children(e) |->
                        Selections(Children(e)[i], [store EXCEPT !.extension = @ /\ e.kind # "sub"])])

(* The call that is pushed down, if any.  No selector after it is populated, *)
(* and the evaluation of one fails.                                          *)
populateSeries(e, store) ==
    LET all == Selections(e, store)
        pushed == {i \in DOMAIN all : all[i].kind = "call"}
    IN  [err |-> \E i \in pushed : i < Len(all), topNode |-> {all[i] : i \in pushed}]
-----------------------------------------------------------------------------
(* What Select returns: series of a metric, with the points in the range of  *)
(* the querier; none without points.                                         *)
Fetched(ev, name) ==
    LET Cut(s) == [s EXCEPT !.pts = SelectSeq(@, LAMBDA p : ev.mint <= p.t /\ p.t <= ev.maxt)]
    IN  SelectSeq(Map(SelectSeq(ev.stored, LAMBDA s : NameOf(s) = name), Cut),
                  LAMBDA s : s.pts # <<>>)

(* The timestamps of an evaluation, in order. *)
Times(ev) ==
    IF ev.end < ev.start THEN <<>>
    ELSE [i \in 1..((ev.end - ev.start) \div ev.interval + 1) |-> ev.start + (i - 1) * ev.interval]

Matrix(mat) == [err |-> FALSE, mat |-> mat]
Failure == [err |-> TRUE, mat |-> <<>>]
Distinct(mat) == IF ContainsSameLabelset(mat) THEN Failure ELSE Matrix(mat)
NonEmpty(mat) == SelectSeq(mat, LAMBDA s : s.pts # <<>>)

(* The call in the database, with generate_series for the times, and         *)
(* getPushdownResult of what it returns.                                     *)
getPushdownResult(ev, e) ==
    LET from == ev.start - e.arg.sel.offset
        to == ev.end - e.arg.sel.offset
        w == Window(from - e.arg.range, to, ev.interval, e.arg.range)
        times == Times([ev EXCEPT !.start = from, !.end = to])
        Delta(s) == [metric |-> s.metric, delta |-> prom_delta(w, s.pts)]
        Read(s) == [metric |-> dropMetricName(s.metric),
                    pts |-> SelectSeq([i \in DOMAIN times |-> Point(times[i], s.delta.array[i])],
                                      LAMBDA p : p.v # Null)]
        Results(series) == IF \E i \in DOMAIN series : series[i].delta.err THEN Failure
                           ELSE Matrix(NonEmpty(Map(series, Read)))
    IN  Results(Map(Fetched(ev, e.arg.sel.metric), Delta))

PointOf(ts, val) == IF val.ok THEN <<Point(ts, val.v)>> ELSE <<>>

(* A VectorSelector: one value per step from one pass over every series. *)
evalSelector(ev, e) ==
    LET RECURSIVE Loop(_, _)
        Then(ts, r) == PointOf(ts, r.val) \o Loop(r.it, ts + ev.interval)
        Loop(it, ts) == IF ts > ev.end THEN <<>>
                        ELSE Then(ts, vectorSelectorSingle(it, ts - e.offset, LookbackDelta))
        Run(s) == [s EXCEPT !.pts = Loop(NewBuffer(Iterator("pgx", @), LookbackDelta), ev.start)]
    IN  Matrix(NonEmpty(Map(Fetched(ev, e.metric), Run)))

(* A function of a range: the window moves over every series, and after the  *)
(* first result the buffer keeps only one step.                              *)
StepRange(range, interval) == IF range > interval THEN interval ELSE range

(* The function is not called for an empty window; absent_over_time is 1     *)
(* where no series has a result.                                             *)
CallResult(ev, fn, mat) ==
    LET found == {p.t : p \in UNION {ToSet(mat[i].pts) : i \in DOMAIN mat}}
        absent == SelectSeq(Times(ev), LAMBDA ts : ts \notin found)
    IN  IF fn # "absent_over_time" THEN Distinct(mat)
        ELSE IF absent = <<>> THEN Matrix(<<>>)
        ELSE Matrix(<<[metric |-> {}, pts |-> Map(absent, LAMBDA ts : Point(ts, 1))]>>)

evalCall(ev, series, kind, e, range, offset) ==
    LET RECURSIVE Loop(_, _, _)
        Then(ts, w) ==
            IF w.out = <<>> THEN Loop(w.it, ts + ev.interval, w.out)
            ELSE PointOf(ts, FunctionCalls(e.fn, w.out, ts - offset - range, ts - offset))
                 \o Loop(ReduceDelta(w.it, StepRange(range, ev.interval)), ts + ev.interval, w.out)
        Loop(it, ts, points) ==
            IF ts > ev.end THEN <<>>
            ELSE Then(ts, matrixIterSlice(it, ts - offset - range, ts - offset, points))
        Run(s) == [metric |-> dropMetricName(s.metric),
                   pts |-> Loop(NewBuffer(Iterator(kind, s.pts), range), ev.start, <<>>)]
    IN  CallResult(ev, e.fn, NonEmpty(Map(series, Run)))
-----------------------------------------------------------------------------
(* rangeEval takes the vectors of a step from the front of the series of its *)
(* operands, and collects the results by their labels.                       *)
AtFront(s, ts) == s.pts # <<>> /\ s.pts[1].t = ts

Gathered(mat, ts) ==
    Map(SelectSeq(mat, LAMBDA s : AtFront(s, ts)), LAMBDA s : Sample(s.metric, s.pts[1].v))
Moved(mat, ts) == Map(mat, LAMBDA s : IF AtFront(s, ts) THEN [s EXCEPT !.pts = Tail(@)] ELSE s)

Collect(out, sample, ts) ==
    IF \E i \in DOMAIN out : out[i].metric = sample.metric
    THEN Map(out, LAMBDA s : IF s.metric = sample.metric
                             THEN [s EXCEPT !.pts = Append(@, Point(ts, sample.v))] ELSE s)
    ELSE Append(out, [metric |-> sample.metric, pts |-> <<Point(ts, sample.v)>>])

(* A binary operation on the vectors of one step. *)
Binary(e, v) ==
    IF IsScalar(e.lhs) /\ IsScalar(e.rhs)
    THEN Ok(<<Sample({}, scalarBinop(e.op, v[1][1].v, v[2][1].v))>>)
    ELSE IF IsScalar(e.rhs) THEN VectorscalarBinop(e.op, v[1], v[2][1].v, FALSE, e.bool)
    ELSE IF IsScalar(e.lhs) THEN VectorscalarBinop(e.op, v[2], v[1][1].v, TRUE, e.bool)
    ELSE IF e.op = "and" THEN VectorAnd(v[1], v[2], e.matching)
    ELSE IF e.op = "or" THEN VectorOr(v[1], v[2], e.matching)
    ELSE IF e.op = "unless" THEN VectorUnless(v[1], v[2], e.matching)
    ELSE VectorBinop(e.op, v[1], v[2], e.matching, e.bool)

(* Functions of vectors.  A scalar is a vector with one sample. *)
InstantFunction(fn, v, ts) ==
    LET Each(F(_)) == Map(v[1], LAMBDA s : Sample(dropMetricName(s.metric), F(s.v)))
        Limited(x, l, less) == IF NaN \in {x, l} THEN NaN ELSE IF less THEN l ELSE x IN
    CASE fn = "abs" -> Each(LAMBDA x : IF Less(x, 0) THEN -x ELSE x)
      [] fn = "clamp_max" -> Each(LAMBDA x : Limited(x, v[2][1].v, Less(v[2][1].v, x)))
      [] fn = "clamp_min" -> Each(LAMBDA x : Limited(x, v[2][1].v, Less(x, v[2][1].v)))
      [] fn = "timestamp" -> Each(LAMBDA x : ts)
      [] fn = "absent" -> IF v[1] = <<>> THEN <<Sample({}, 1)>> ELSE <<>>
      [] fn = "scalar" -> <<Sample({}, IF Len(v[1]) = 1 THEN v[1][1].v ELSE NaN)>>
      [] fn = "vector" -> <<Sample({}, v[1][1].v)>>
      [] fn = "time" -> <<Sample({}, ts)>>

(* The vector of a selector at one step, for timestamp, which sees the times *)
(* of its samples.                                                           *)
vectorSelector(ev, sel, ts) ==
    LET At_(s) == vectorSelectorSingle(NewBuffer(Iterator("pgx", s.pts), LookbackDelta),
                                       ts - sel.offset, LookbackDelta).val
    IN  Map(SelectSeq(Fetched(ev, sel.metric), LAMBDA s : At_(s).ok),
            LAMBDA s : Sample(dropMetricName(s.metric), At_(s).t))

SeesTimes(e) == e.kind = "fn" /\ e.fn = "timestamp" /\ e.args[1].kind = "sel"
Operands(e) == IF SeesTimes(e) THEN <<>> ELSE Children(e)

(* The vector of an expression at one step, from those of its operands. *)
StepResult(ev, e, v, ts) ==
    CASE e.kind = "num" -> Ok(<<Sample({}, e.v)>>)
      [] e.kind = "bin" -> Binary(e, v)
      [] e.kind = "agg" -> Ok(aggregation(e.op, e.grouping, e.without, e.param, v[1]))
      [] e.kind = "fn" -> Ok(IF SeesTimes(e) THEN vectorSelector(ev, e.args[1], ts)
                             ELSE InstantFunction(e.fn, v, ts))

rangeEval(ev, e, args) ==
    LET RECURSIVE Loop(_, _, _)
        Then(r, rest, ts, out) ==
            IF r.err \/ ContainsSameLabelset(r.vec) THEN Failure
            ELSE Loop(Map(rest, LAMBDA mat : Moved(mat, ts)), ts + ev.interval,
                      FoldLeft(LAMBDA acc, s : Collect(acc, s, ts), out, r.vec))
        Loop(rest, ts, out) ==
            IF ts > ev.end THEN Matrix(out)
            ELSE Then(StepResult(ev, e, Map(rest, LAMBDA mat : Gathered(mat, ts)), ts), rest, ts, out)
    IN  IF \E i \in DOMAIN args : args[i].err THEN Failure
        ELSE Loop(Map(args, LAMBDA arg : arg.mat), ev.start, <<>>)

(* The evaluator of a subquery: its first step is the first multiple of the  *)
(* interval that is not before the range.  Nothing is pushed down.           *)
SubEvaluator(ev, e) ==
    LET interval == IF e.step # 0 THEN e.step ELSE DefaultInterval
        from == ev.start - e.offset - e.range IN
    [ev EXCEPT !.start = interval * ((from + interval - 1) \div interval),
               !.end = ev.end - e.offset, !.interval = interval, !.topNode = {}]

(* A range alone, at the only step. *)
matrixSelector(ev, e) ==
    LET maxt == ev.start - e.sel.offset
        Run(s) == [metric |-> s.metric,
                   pts |-> matrixIterSlice(NewBuffer(Iterator("pgx", s.pts), e.range),
                                           maxt - e.range, maxt, <<>>).out]
    IN  IF ev.start # ev.end THEN Failure ELSE Matrix(NonEmpty(Map(Fetched(ev, e.sel.metric), Run)))

RECURSIVE eval(_, _)
eval(ev, e) ==
    IF e \in ev.topNode THEN getPushdownResult(ev, e)
    ELSE CASE e.kind = "sel" -> evalSelector(ev, e)
      [] e.kind = "mat" -> matrixSelector(ev, e)
      [] e.kind = "sub" -> eval(SubEvaluator(ev, e), e.expr)
      [] e.kind = "neg" ->
            LET r == eval(ev, e.expr)
                Negated(s) == [metric |-> dropMetricName(s.metric),
                               pts |-> Map(s.pts, LAMBDA p : Point(p.t, Minus(p.v)))]
            IN  IF r.err THEN Failure ELSE Distinct(Map(r.mat, Negated))
      [] e.kind \in {"num", "bin", "agg", "fn"} ->
            rangeEval(ev, e, Map(Operands(e), LAMBDA x : eval(ev, x)))
      [] e.kind = "call" ->
            IF e.arg.kind = "mat"
            THEN evalCall(ev, Fetched(ev, e.arg.sel.metric), "pgx", e, e.arg.range, e.arg.sel.offset)
            ELSE LET r == eval(ev, e.arg)
                 IN  IF r.err THEN Failure
                     ELSE evalCall(ev, r.mat, "storage", e, e.arg.range, e.arg.offset)

(* execEvalStmt.  An instant query has one step, and its results have its    *)
(* time.                                                                     *)
execEvalStmt(stmt, store) ==
    LET instant == stmt.start = stmt.end /\ stmt.interval = 0
        Now(s) == [s EXCEPT !.pts = <<Point(stmt.start, s.pts[1].v)>>]
        Result(r) == IF r.err THEN Failure
                     ELSE IF instant /\ stmt.expr.kind \notin {"mat", "sub"} THEN Matrix(Map(r.mat, Now))
                     ELSE r
        Evaluated(p) == IF p.err THEN Failure
                        ELSE Result(eval([start |-> stmt.start, end |-> stmt.end,
                                          interval |-> IF instant THEN 1 ELSE stmt.interval,
                                          mint |-> findMinTime(stmt), maxt |-> stmt.end,
                                          stored |-> store.series, topNode |-> p.topNode], stmt.expr))
    IN  Evaluated(populateSeries(stmt.expr, store))
=============================================================================
