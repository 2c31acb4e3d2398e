------------------------------ MODULE ReadPath ------------------------------
(* Queries against the database: pgxQuerier of pkg/pgmodel/sql_reader.go with *)
(* the series set of series_set.go and the time series of query_builder.go.  *)
(* Every open result holds a connection of the pool; labels and table names  *)
(* come from caches that forget (ForgetfulMap).  A label serves as its own   *)
(* id.                                                                       *)
EXTENDS QueryBuilder, Functions

CONSTANTS Queries,       \* the queries that are made, each once
          Requests,      \* what is asked for, numbered: [api, matchers, from, to]
          Asks,          \* the requests every query may be
          Series,        \* what is stored: [metric, labels, times]
          Tables,        \* the metrics that have a table
          MetricOrder,   \* the metric names, in order
          MaxConns,      \* the size of the pool
          FaultKinds,    \* what may go wrong: "query", "row", "scan", "cancel"
          MaxFaults      \* bound

VARIABLES free,         \* idle connections of the pool
          query,        \* what every query is doing
          labelCache,   \* the labels in the clock cache, by their ids
          tableCache,   \* the metrics whose table name is cached
          faults

vars == <<free, query, labelCache, tableCache, faults>>

NoSeries == [metric |-> <<>>, labels |-> {}, times |-> {}]
Idle == [pc |-> "idle", req |-> 0, todo |-> <<>>, rows |-> <<>>, at |-> 1,
         row |-> NoSeries, got |-> {}, err |-> FALSE, nil |-> FALSE, cut |-> FALSE]

ASSUME ReadPathAssumption ==
    /\ MaxConns \in Nat \ {0}
    /\ MaxFaults \in Nat
    /\ MinTime \in Int /\ MaxTime \in Int /\ MinTime < MaxTime /\ MaxInt64 \in Nat
    /\ MetricOrder \in Seq(Seq(Nat))
    /\ Asks \in [Queries -> SUBSET DOMAIN Requests]
    /\ \A r \in DOMAIN Requests :
          /\ Requests[r].matchers \in Seq(Matchers)
          /\ Requests[r].from \in MinTime..MaxTime
          /\ Requests[r].to \in MinTime..MaxTime
    /\ \A s \in Series :
          /\ s.labels \subseteq Seq(Nat) \X Seq(Nat) /\ IsFiniteSet(s.labels)
          /\ \A k, l \in s.labels : k[1] = l[1] => k = l
          /\ <<MetricNameLabel, s.metric>> \in s.labels
          /\ s.times \subseteq (MinTime + 1)..(MaxTime - 1)
          /\ \A t \in s.times : HasNanos(t)
          /\ \E i \in DOMAIN MetricOrder : MetricOrder[i] = s.metric

Init ==
    /\ free = MaxConns
    /\ query = [q \in Queries |-> Idle]
    /\ labelCache = <<>>
    /\ tableCache = {}
    /\ faults = 0

(* What the code derives from every request: the clauses and their           *)
(* arguments, the series they select and the samples in the range.           *)
Plan == [r \in DOMAIN Requests |-> buildSubQueries(Requests[r].matchers)]
TimesIn(s, r) ==
    {t \in s.times :
        InTimeRange(toRFC3339Nano(t), toRFC3339Nano(Requests[r].from), toRFC3339Nano(Requests[r].to))}
Selected == [r \in DOMAIN Requests |-> {s \in Series : Where(Plan[r], s.labels)}]
RowsOf == [r \in DOMAIN Requests |-> {s \in Selected[r] : TimesIn(s, r) # {}}]
Sent == [r \in DOMAIN Requests |-> [s \in Series |-> {toMilis(toRFC3339Nano(t)) : t \in TimesIn(s, r)}]]

Ended(q) == query[q].pc \in {"ok", "failed"}
OpenRows(Q) == {i \in DOMAIN Q.rows : Q.rows[i].open}

Fault(kind) ==
    /\ kind \in FaultKinds
    /\ faults < MaxFaults
    /\ faults' = faults + 1

(* The end of a query; what it still has open is closed or left behind, and  *)
(* an error has no result.                                                   *)
CloseAll(Q) == [Q EXCEPT !.rows = [i \in DOMAIN @ |-> [@[i] EXCEPT !.open = FALSE]]]
Keeps(q, Q) ==
    /\ query' = [query EXCEPT ![q] = Q]
    /\ UNCHANGED free
Closes(q, Q) ==
    /\ query' = [query EXCEPT ![q] = CloseAll(Q)]
    /\ free' = free + Cardinality(OpenRows(Q))
Failed(Q) == [Q EXCEPT !.pc = "failed", !.row = NoSeries, !.got = {}, !.err = FALSE, !.nil = FALSE,
                       !.cut = FALSE, !.rows = [i \in DOMAIN @ |-> [@[i] EXCEPT !.left = {}]]]

(* A result whose error nobody asks for (rows.Err), or whose error is wiped  *)
(* out by the next row: it ends early and counts as complete.                *)
CutShort(Q) == [Q EXCEPT !.cut = TRUE]
-----------------------------------------------------------------------------
(* LabelNames, LabelValues and HealthCheck ask one question. *)
Lists == {"names", "values", "health"}

(* A metric is left: its table name is next, or the rows are read. *)
Advance(Q) == [Q EXCEPT !.pc = IF Q.todo = <<>> THEN "next" ELSE "table"]

(* Query, Select: the clauses; nothing is asked without one. *)
Begun(r, b) ==
    LET Q == [Idle EXCEPT !.req = r] IN
    IF Requests[r].api \in Lists THEN [Q EXCEPT !.pc = "list"]
    ELSE IF b.err THEN Failed(Q)
    ELSE IF b.metric # <<>> THEN Advance([Q EXCEPT !.todo = <<b.metric>>])
    ELSE [Q EXCEPT !.pc = "catalog"]

Begin(q) ==
    /\ query[q].pc = "idle"
    /\ \E r \in Asks[q] : query' = [query EXCEPT ![q] = Begun(r, Plan[r])]
    /\ UNCHANGED <<free, labelCache, tableCache, faults>>

(* buildMetricNameSeriesIDQuery and getSeriesPerMetric: the metrics with a   *)
(* series that is selected, ordered by name.  The rows are closed at their   *)
(* end, so the connection is only borrowed.                                  *)
Ascending(S) == [k \in 1..Cardinality(S) |-> CHOOSE i \in S : Cardinality({j \in S : j < i}) = k - 1]
Metrics == [r \in DOMAIN Requests |->
    LET found == Ascending({i \in DOMAIN MetricOrder : \E s \in Selected[r] : s.metric = MetricOrder[i]})
    IN  [k \in DOMAIN found |-> MetricOrder[found[k]]]]

Catalog(q) ==
    /\ query[q].pc = "catalog"
    /\ free > 0
    /\ \E all \in {Metrics[query[q].req]} :
         LET Of(todo) == Advance([query[q] EXCEPT !.todo = todo]) IN
         \/ Keeps(q, Of(all)) /\ UNCHANGED faults
         \/ /\ Fault("row")
            /\ \E n \in 0..Len(all) : Keeps(q, CutShort(Of(SubSeq(all, 1, n))))
         \/ Fault("query") /\ Keeps(q, Failed(query[q]))
    /\ UNCHANGED <<labelCache, tableCache>>

(* getMetricTableName.  A metric without a table has no rows.  An error      *)
(* returns at once: the rows opened for other metrics stay open.             *)
TableName(q) ==
    /\ query[q].pc = "table"
    /\ LET m == Head(query[q].todo)
           skipped == Advance([query[q] EXCEPT !.todo = Tail(@)])
           known == [query[q] EXCEPT !.pc = "open"] IN
       \/ /\ m \in tableCache
          /\ Keeps(q, known)
          /\ UNCHANGED <<tableCache, faults>>
       \/ /\ m \notin tableCache /\ free > 0
          /\ \/ /\ Keeps(q, IF m \in Tables THEN known ELSE skipped)
                /\ tableCache' = IF m \in Tables THEN tableCache \cup {m} ELSE tableCache
                /\ UNCHANGED faults
             \/ /\ \/ Fault("query") /\ Keeps(q, Failed(query[q]))
                   \/ Fault("row") /\ Keeps(q, CutShort(skipped))
                /\ UNCHANGED tableCache
    /\ UNCHANGED labelCache

(* buildTimeseriesByLabelClausesQuery, buildTimeseriesBySeriesIDQuery: the   *)
(* rows of a metric are opened and keep their connection.                    *)
OpenRowsOf(q) ==
    /\ query[q].pc = "open"
    /\ free > 0
    /\ LET m == Head(query[q].todo)
           opened == [query[q] EXCEPT
                            !.todo = Tail(@),
                            !.rows = Append(@, [left |-> {s \in RowsOf[query[q].req] : s.metric = m}, open |-> TRUE])] IN
       \/ /\ query' = [query EXCEPT ![q] = Advance(opened)]
          /\ free' = free - 1
          /\ UNCHANGED faults
       \/ Fault("query") /\ Keeps(q, Failed(query[q]))
    /\ UNCHANGED <<labelCache, tableCache>>
-----------------------------------------------------------------------------
IsRead(q) == Requests[query[q].req].api = "read"

(* The next row of the present rows; at their end they are closed and the    *)
(* next ones are taken.                                                      *)
NeverClosed(Q) == {}
ClosedAtEnd(Q) == {Q.at}

NextRow(q) ==
    /\ query[q].pc = "next"
    /\ query[q].at <= Len(query[q].rows)
    /\ LET Q == query[q]
           here == Q.rows[Q.at] IN
       \/ \E s \in here.left :
             /\ Keeps(q, [Q EXCEPT !.pc = "row", !.row = s, !.rows[Q.at].left = @ \ {s}])
             /\ UNCHANGED faults
       \/ /\ here.left = {}
          /\ query' = [query EXCEPT ![q] =
                          [Q EXCEPT !.at = @ + 1,
                                    !.rows = [i \in DOMAIN @ |-> IF i \in ClosedAtEnd(Q)
                                                THEN [@[i] EXCEPT !.open = FALSE] ELSE @[i]]]]
          /\ free' = free + Cardinality(ClosedAtEnd(Q))
          /\ UNCHANGED faults
       \/ (* the rows end in an error *)
          /\ Fault("row")
          /\ IF IsRead(q)
             THEN Closes(q, Failed(Q))
             ELSE /\ query' = [query EXCEPT ![q] =
                                  [Q EXCEPT !.at = @ + 1, !.err = TRUE, !.rows[Q.at].open = FALSE]]
                  /\ free' = free + 1
    /\ UNCHANGED <<labelCache, tableCache>>

(* getLabelsForIds: the labels of the ids that are cached, which GetValues   *)
(* puts in front, and behind them those that the database answers for the    *)
(* others, in its own order.                                                 *)
Orders(S) == Surjection(1..Cardinality(S), S)
FromTheStart(hits, cache, answered) ==
    [i \in DOMAIN hits \cup DOMAIN answered |-> IF i \in DOMAIN answered THEN answered[i] ELSE cache[hits[i]]]
getLabelsForIds(hits, cache, answered) ==
    [i \in 1..(Len(hits) + Len(answered)) |->
        IF i <= Len(hits) THEN cache[hits[i]] ELSE answered[i - Len(hits)]]

(* fetchMissingLabels, InsertBatch: what was answered is cached under the    *)
(* ids of the answer, up to the first that finds no room.  A label that is   *)
(* there stays.                                                              *)
InsertBatch(cache, answered, n) ==
    [id \in DOMAIN cache \cup {answered[i] : i \in 1..n} |-> IF id \in DOMAIN cache THEN cache[id] ELSE id]

(* buildTimeSeries, At: a row with its labels.  Those that are not cached    *)
(* are fetched over another connection.  An error ends a read; a series set  *)
(* keeps it, for as long as no later row is read: At sets p.err to nil when  *)
(* it has read one.                                                          *)
OnePerLabel(misses) == Cardinality(misses)
ConnsFor(misses) == IF misses = {} THEN 0 ELSE 1
Missing(Q) == Q.row.labels \ DOMAIN labelCache

Row(q) ==
    /\ query[q].pc = "row"
    /\ LET Q == query[q]
           With(labels) == [Q EXCEPT !.pc = "next", !.row = NoSeries, !.err = FALSE, !.cut = @ \/ Q.err,
                                     !.got = @ \cup {[labels |-> labels, times |-> Sent[Q.req][Q.row]]}]
           Read(hits, answered) == With(Range(getLabelsForIds(hits, labelCache, answered)))
           lost == [Q EXCEPT !.pc = "next", !.row = NoSeries, !.err = TRUE, !.nil = TRUE] IN
       /\ free >= ConnsFor(Missing(Q))
       /\ \/ /\ \E hits \in Orders(Q.row.labels \ Missing(Q)), answered \in Orders(Missing(Q)) :
                   /\ Keeps(q, Read(hits, answered))
                   /\ \E n \in 0..Len(answered) : labelCache' = InsertBatch(labelCache, answered, n)
             /\ UNCHANGED faults
          \/ /\ Fault("scan") \/ (Missing(Q) # {} /\ Fault("query"))
             /\ IF IsRead(q) THEN Closes(q, Failed(Q)) ELSE Keeps(q, lost)
             /\ UNCHANGED labelCache
          \/ /\ Missing(Q) # {} /\ Fault("row")
             /\ \E hits \in Orders(Q.row.labels \ Missing(Q)) : Keeps(q, CutShort(Read(hits, <<>>)))
             /\ UNCHANGED labelCache
    /\ UNCHANGED tableCache

(* All rows are read.  A series that could not be read is a nil in the       *)
(* result of Select, and fails the evaluation.                               *)
Finish(q) ==
    /\ query[q].pc = "next"
    /\ query[q].at > Len(query[q].rows)
    /\ LET Q == IF query[q].err \/ query[q].nil THEN Failed(query[q]) ELSE [query[q] EXCEPT !.pc = "ok"]
       IN  IF IsRead(q) THEN Closes(q, Q) ELSE Keeps(q, Q)
    /\ UNCHANGED <<labelCache, tableCache, faults>>

(* The context of a query ends before its series set is read, or is found    *)
(* ended at a row (expandSeriesSet): nothing closes the rows.                *)
Cancel(q) ==
    /\ \/ query[q].pc = "next" /\ query[q].at = 1 /\ query[q].got = {}
       \/ query[q].pc = "row"
    /\ ~IsRead(q)
    /\ Fault("cancel")
    /\ Keeps(q, Failed(query[q]))
    /\ UNCHANGED <<labelCache, tableCache>>

(* A question with one result, which is read and closed at once. *)
Listed(r) ==
    LET all == UNION {s.labels : s \in Series} IN
    CASE Requests[r].api = "names" -> {l[1] : l \in all}
      [] Requests[r].api = "values" -> {l[2] : l \in {k \in all : k[1] = Requests[r].matchers[1].name}}
      [] Requests[r].api = "health" -> {}

List(q) ==
    /\ query[q].pc = "list"
    /\ free > 0
    /\ LET Of(got) == [query[q] EXCEPT !.pc = "ok", !.got = got] IN
       \/ Keeps(q, Of(Listed(query[q].req))) /\ UNCHANGED faults
       \/ Fault("row") /\ \E part \in SUBSET Listed(query[q].req) : Keeps(q, CutShort(Of(part)))
       \/ Fault("query") /\ Keeps(q, Failed(query[q]))
    /\ UNCHANGED <<labelCache, tableCache>>

(* The caches make room. *)
Forget ==
    /\ \/ /\ \E l \in DOMAIN labelCache : labelCache' = Restrict(labelCache, DOMAIN labelCache \ {l})
          /\ UNCHANGED tableCache
       \/ \E m \in tableCache : tableCache' = tableCache \ {m} /\ UNCHANGED labelCache
    /\ UNCHANGED <<free, query, faults>>

Step(q) ==
    \/ List(q) \/ Catalog(q) \/ TableName(q)
    \/ OpenRowsOf(q) \/ NextRow(q) \/ Row(q) \/ Finish(q)

Next == (\E q \in Queries : Begin(q) \/ Step(q) \/ Cancel(q)) \/ Forget

(* A query that has begun goes on as soon as it can; the pool hands out what is free. *)
Fairness == \A q \in Queries : WF_vars(Step(q))

Spec == Init /\ [][Next]_vars /\ Fairness
-----------------------------------------------------------------------------
(* Properties.                                                               *)

(* What a request should get. *)
Answer == [r \in DOMAIN Requests |->
    LET asked == Requests[r]
        In(s) == {t \in s.times : asked.from <= t /\ t <= asked.to} IN
    IF asked.api \in Lists THEN Listed(r)
    ELSE {[labels |-> s.labels, times |-> In(s)] :
        s \in {t \in Series : t.metric \in Tables /\ SelectedBy(asked.matchers, t.labels) /\ In(t) # {}}}]

(* Matchers of a type whose expression is not made whole by its anchors: one *)
(* with alternatives, anchored at its two ends only as in "^a|b$", and one   *)
(* that ends in an escaped "$".  It matches more than whole values.          *)
Loose == [r \in DOMAIN Requests |-> [type \in {"RE", "NRE"} |->
    \E i \in DOMAIN Requests[r].matchers :
        LET m == Requests[r].matchers[i] IN m.type = type /\ anchorValue(m.re) # Whole(m.re)]]

(* A query that succeeds returns the series that all its matchers match,     *)
(* with all their labels and their samples in the range, no less (unless an  *)
(* expression to be excluded matches too much, or a result was cut short by  *)
(* an error the code does not ask for or forgets) and no more (unless an     *)
(* expression to be matched matches too much), whatever was cached, evicted  *)
(* or failed meanwhile (buildSubQueries, getLabelsForIds, buildTimeSeries,   *)
(* At).                                                                      *)
ReadIsExact ==
    \A q \in Queries : query[q].pc = "ok" /\ ~query[q].cut =>
        /\ ~Loose[query[q].req]["NRE"] => Answer[query[q].req] \subseteq query[q].got
        /\ ~Loose[query[q].req]["RE"] => query[q].got \subseteq Answer[query[q].req]

HeldConns == UNION {{q} \X OpenRows(query[q]) : q \in Queries}

(* The connections are where the code knows of them: idle, or held by open   *)
(* rows; and a query that succeeds, or a read that fails once its rows are   *)
(* open, gives all of them back (Close in Query, in Next and at the end).    *)
ConnectionsReturned ==
    /\ free + Cardinality(HeldConns) = MaxConns
    /\ \A q \in Queries : query[q].pc = "ok" => OpenRows(query[q]) = {}
    /\ \A q \in Queries : query[q].pc = "failed" /\ IsRead(q) /\ query[q].todo = <<>>
                              => OpenRows(query[q]) = {}

(* A query whose next step needs a connection. *)
Waits(q) ==
    \/ query[q].pc \in {"list", "catalog", "open"}
    \/ query[q].pc = "table" /\ Head(query[q].todo) \notin tableCache
    \/ query[q].pc = "row" /\ Missing(query[q]) # {}

(* No connection is idle, and none will be: those who hold them wait for one *)
(* themselves, or have ended and left rows open.                             *)
Exhausted ==
    /\ free = 0
    /\ \A q \in Queries : OpenRows(query[q]) # {} => Ended(q) \/ Waits(q)

(* Every query that has begun ends, in whatever order the queries take and   *)
(* return connections, unless the pool is exhausted for good: Query opens    *)
(* the rows of all metrics before it reads any and asks for labels while     *)
(* they are open, on a context that never ends, so queries that hold all     *)
(* connections (client.go allows five for every processor) wait for each     *)
(* other.  There is no other way to hang: one idle connection, or one holder *)
(* that need not wait, is enough for all to go on.                           *)
EveryQueryEnds == \A q \in Queries : query[q].pc # "idle" ~> Ended(q) \/ Exhausted
=============================================================================
