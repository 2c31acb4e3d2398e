------------------------------ MODULE MCQueries ------------------------------
(* A state is one of two queries at a time against two metrics with three    *)
(* series and a metric without a table or, when there is a statement, one of *)
(* an engine that evaluates it.                                              *)
EXTENDS ReadPath, PromQL

(* Characters are numbers: "n" for __name__, labels "a" and "b". *)
MCName == <<110>>
a == <<97>>
b == <<98>>
x == <<120>>
xy == <<120, 121>>
y == <<121>>

Stored(metric, labels, times) ==
    [metric |-> metric, labels |-> {<<MCName, metric>>} \cup labels, times |-> times]

MCSeries ==
    {Stored(a, {<<a, x>>}, {1, 2}), Stored(a, {<<a, xy>>, <<b, x>>}, {2, 2100}),
     Stored(b, {<<a, xy>>}, {1}), Stored(y, {<<a, x>>}, {1})}
MCTables == {a, b}
MCMinTime == -9999
MCMetricOrder == <<a, b, y>>

Lit(s) == Alt(FALSE, s, FALSE, FALSE)
Star == Alt(FALSE, <<>>, TRUE, FALSE)
Eq(name, value) == [number |-> 0, name |-> name, value |-> value, re |-> <<Lit(<<>>)>>]
Neq(name, value) == [Eq(name, value) EXCEPT !.number = 1]
Re(name, re) == [number |-> 2, name |-> name, value |-> <<>>, re |-> re]
Nre(name, re) == [Re(name, re) EXCEPT !.number = 3]
Wrong == [Eq(a, x) EXCEPT !.number = 4]

Request(api, wire, from, to) ==
    [api |-> api, matchers |-> FromLabelMatchers(wire), from |-> from, to |-> to]

MCRequests ==
    <<Request("read", <<Eq(MCName, a)>>, 1, 2000),
      Request("read", <<Eq(MCName, b), Re(a, <<Lit(x), Lit(y)>>)>>, 0, 9),
      Request("read", <<Wrong>>, 0, 1),
      Request("read", <<Eq(a, x), Nre(b, <<Star>>), Neq(a, <<>>)>>, 0, 9),
      Request("read", <<Neq(a, <<>>), Nre(a, <<Lit(x), Lit(y)>>)>>, 0, 9),
      Request("read", <<Neq(b, x), Nre(a, <<Lit(y)>>), Re(MCName, <<Star>>)>>, 0, 9),
      Request("select", <<Eq(MCName, a), Re(a, <<Lit(x)>>), Eq(b, <<>>)>>, 0, 3000),
      Request("select", <<Re(MCName, <<Star>>)>>, 0, 1),
      Request("values", <<Eq(b, x)>>, 0, 0),
      Request("names", <<>>, 0, 0), Request("health", <<>>, 0, 0)>>

(* One query is any of them; the other is one that holds connections and     *)
(* fills the caches.                                                         *)
MCAsks == <<DOMAIN MCRequests, {6, 7}>>
-----------------------------------------------------------------------------
(* Series "a" and "b" with label x, and the value at every time from 1; null *)
(* where there is no point.                                                  *)
N == Null
PointsAt(values) ==
    SelectSeq([t \in DOMAIN values |-> Point(t, values[t])], LAMBDA p : p.v # Null)
S(name, x_, values) == [metric |-> {<<MetricName, name>>, <<"x", x_>>}, pts |-> PointsAt(values)]

(* Dense and sparse series, counters that reset, gaps longer than the        *)
(* lookback, ends of series and values that are not numbers.                 *)
SeriesStored ==
    { <<S("a", "1", <<1, 2, 4, 8, 3, 5, 6, 9, 2>>), S("a", "2", <<N, 3, N, 7, N, N, N, 4, 6>>),
        S("b", "1", <<5, N, N, Stale, N, 6, N, N, 1>>)>>,
      <<S("a", "1", <<N, N, 4, NaN, N, N, 6, Stale, N>>), S("a", "2", <<2, 2, 5, N, N, 3, N, 1, N>>),
        S("b", "1", <<N, 1, 2, 3, 5, 8, N, N, N>>), S("b", "2", <<0, N, N, N, 9, 1, 2, N, N>>)>>,
      <<S("a", "1", <<N, N, N, N, N, 1, N, N, N>>), S("b", "2", <<7, N, 6, N, 5, N, 4, N, 3>>)>>,
      <<S("a", "1", <<3, Stale, N, N, 6, 7, Stale, 1, 2>>), S("a", "2", <<N, N, N, N, N, N, N, N, 4>>),
        S("b", "1", <<2, 4, 6, 5, N, N, NaN, NaN, 3>>)>> }
MCStores == {[series |-> s, extension |-> x_] : s \in SeriesStored, x_ \in BOOLEAN}

A == Sel("a", 0)
B == Sel("b", 0)
SetMatch == Matching("many-to-many", FALSE, {}, {})
OneToOne == Matching("one-to-one", FALSE, {}, {})
OnX == Matching("one-to-one", TRUE, {"x"}, {})
ManyToOne == Matching("many-to-one", TRUE, {"x"}, {MetricName})
OneToMany == Matching("one-to-many", TRUE, {}, {})
SumB == Agg("sum", {}, FALSE, 0, B)
DeltaA == Call("delta", Mat("a", 3, 0))
OverTime == {"count_over_time", "sum_over_time", "max_over_time", "min_over_time", "changes",
             "resets", "idelta", "delta", "increase", "absent_over_time"}

Expressions ==
    {A, B, Sel("a", 1), Mat("a", 3, 1), Neg(A), Num(1)}
    \cup {Call(fn, arg) : fn \in OverTime,
                          arg \in {Mat("a", 3, 0), Mat("b", 1, 0), Sub(A, 3, 1, 1), Sub(SumB, 4, 0, 1)}}
    \cup {Call(fn, Mat("b", 2, 1)) : fn \in OverTime}
    \cup {Call("max_over_time", Sub(e, 4, 2, 0)) :
             e \in {Call("delta", Mat("a", 2, 0)), Call("increase", Sub(Sel("b", 1), 3, 1, 1))}}
    \cup {Agg(op, by, without, 1, A) : op \in {"sum", "max", "min", "count", "topk", "bottomk"},
                                       by \in {{}, {"x"}}, without \in BOOLEAN}
    \cup {Agg("count_values", by, FALSE, "y", B) : by \in {{}, {"x"}}}
    \cup {Agg("sum", {}, FALSE, 0, DeltaA)}
    \cup {Bin(op, A, B, m, FALSE) : op \in {"+", "-", "*"}, m \in {OneToOne, OnX}}
    \cup {Bin(op, A, B, m, bool) : op \in {"==", "!=", "<"}, m \in {OneToOne, ManyToOne}, bool \in BOOLEAN}
    \cup {Bin(op, A, B, SetMatch, FALSE) : op \in {"and", "or", "unless"}}
    \cup {Bin("-", SumB, A, OneToMany, FALSE), Bin("+", A, SumB, OneToOne, FALSE)}
    \cup {Bin("<", Num(3), Num(4), OneToOne, TRUE)}
    \cup {Bin(op, A, Num(3), OneToOne, FALSE) : op \in {"+", "<"}}
    \cup {Bin(op, Fn("time", <<>>), A, OneToOne, op = "==") : op \in {"-", "<", "=="}}
    \cup {Fn(fn, <<Neg(B)>>) : fn \in {"abs", "absent", "scalar", "timestamp"}}
    \cup {Fn("timestamp", <<B>>), Fn("vector", <<Fn("scalar", <<B>>)>>)}
    \cup {Fn(fn, <<B, Num(4)>>) : fn \in {"clamp_max", "clamp_min"}}
    \cup {Bin("+", B, DeltaA, OnX, FALSE), Bin("+", DeltaA, B, OnX, FALSE)}

(* An instant, every time, and steps that are longer than the ranges. *)
EvalStmt(e, from, to, step) == [expr |-> e, start |-> from, end |-> to, interval |-> step]
MCStatements ==
    UNION {{EvalStmt(e, 9, 9, 0), EvalStmt(e, 3, 6, 1), EvalStmt(e, 1, 9, 2), EvalStmt(e, 0, 9, 4)} :
              e \in Expressions}
-----------------------------------------------------------------------------
NoStatement == EvalStmt([kind |-> "none"], 0, 0, 0)
Evaluating == statement # NoStatement

MCInit ==
    /\ Init
    /\ \/ EngineInit
       \/ statement = NoStatement /\ store = [series |-> <<>>, extension |-> FALSE] /\ answer = NoAnswer

MCNext ==
    \/ ~Evaluating /\ Next /\ UNCHANGED evaluation
    \/ Evaluating /\ Exec /\ UNCHANGED vars

MCFairness == \A q \in Queries : WF_vars(~Evaluating /\ Step(q))

MCSpec == MCInit /\ [][MCNext]_<<vars, evaluation>> /\ MCFairness
=============================================================================
