---------------------------- MODULE QueryBuilder ----------------------------
(* From label matchers to SQL and back to series: pkg/pgmodel/               *)
(* query_builder.go and FromLabelMatchers of labels.go.  A string is a       *)
(* sequence of characters; SQL text is what it selects.                      *)
EXTENDS Integers, Sequences, FiniteSets

CONSTANTS MetricNameLabel,   \* MetricNameLabelName
          MinTime, MaxTime,  \* the times that stand for no bound
          MaxInt64           \* 2^63 - 1

(* A regular expression is a sequence of alternatives, "a|b".  Each is a     *)
(* literal or ".*", perhaps between "^" and "$"; a literal may end in "\$".  *)
Alt(bol, lit, any, eol) == [bol |-> bol, lit |-> lit, any |-> any, eol |-> eol]
Dollar == 36
Alternatives == [bol : BOOLEAN, lit : Seq(Nat), any : BOOLEAN, eol : BOOLEAN]

Spans(v) == {s \in (1..(Len(v) + 1)) \X (0..Len(v)) : s[2] >= s[1] - 1}

(* Where an alternative matches somewhere in a value. *)
Found(alt, v) ==
    \E s \in Spans(v) :
        /\ alt.any \/ SubSeq(v, s[1], s[2]) = alt.lit
        /\ alt.bol => s[1] = 1
        /\ alt.eol => s[2] = Len(v)

(* PostgreSQL's operator ~ *)
Tilde(v, re) == \E k \in DOMAIN re : Found(re[k], v)

(* The matchers of Prometheus, whose expressions match whole values. *)
Matcher(type, name, value, re) == [type |-> type, name |-> name, value |-> value, re |-> re]
Matchers == [type : {"EQ", "NEQ", "RE", "NRE"}, name : Seq(Nat), value : Seq(Nat),
             re : Seq(Alternatives) \ {<<>>}]
Whole(re) == [k \in DOMAIN re |-> [re[k] EXCEPT !.bol = TRUE, !.eol = TRUE]]
Matches(m, v) ==
    CASE m.type = "EQ" -> v = m.value
      [] m.type = "NEQ" -> v # m.value
      [] m.type = "RE" -> Tilde(v, Whole(m.re))
      [] m.type = "NRE" -> ~Tilde(v, Whole(m.re))

(* FromLabelMatchers: the matchers of a remote read, by their wire numbers;  *)
(* a number of no type is an error, shown as no matcher at all.              *)
MatcherTypes == <<"EQ", "NEQ", "RE", "NRE">>
FromLabelMatchers(wire) ==
    IF \E i \in DOMAIN wire : wire[i].number \notin 0..3 THEN <<>>
    ELSE [i \in DOMAIN wire |-> Matcher(MatcherTypes[wire[i].number + 1], wire[i].name,
                                        wire[i].value, wire[i].re)]
-----------------------------------------------------------------------------
(* "^" and "$" are added where the text does not begin or end with them.     *)
BeginsAnchored(re) == re[1].bol
EndsAnchored(re) ==
    LET last == re[Len(re)]
    IN  last.eol \/ (~last.any /\ last.lit # <<>> /\ last.lit[Len(last.lit)] = Dollar)

anchorValue(re) ==
    LET begun == IF BeginsAnchored(re) THEN re ELSE [re EXCEPT ![1].bol = TRUE]
    IN  IF EndsAnchored(re) THEN begun ELSE [begun EXCEPT ![Len(re)].eol = TRUE]

(* A clause compares the labels of a series with those of the catalog that   *)
(* have key $key and a value in relation op to $value.                       *)
SubQuery(negated, op) == [negated |-> negated, op |-> op]
subQueryEQ == SubQuery(FALSE, "=")
subQueryEQMatchEmpty == SubQuery(TRUE, "!=")
subQueryNEQ == SubQuery(FALSE, "!=")
subQueryNEQMatchEmpty == SubQuery(TRUE, "=")
subQueryRE == SubQuery(FALSE, "~")
subQueryREMatchEmpty == SubQuery(TRUE, "!~")
subQueryNRE == SubQuery(FALSE, "!~")
subQueryNREMatchEmpty == SubQuery(TRUE, "~")

(* The parameters of a clause are numbered behind those that are there. *)
FromOne(args, new) == [i \in DOMAIN new |-> i]
fillInParameters(args, new) == [i \in DOMAIN new |-> Len(args) + i]

addClause(cb, sub, name, value, re) ==
    LET new == << [text |-> name, re |-> <<>>], [text |-> value, re |-> re] >>
        at == fillInParameters(cb.args, new) IN
    [clauses |-> Append(cb.clauses, [sub |-> sub, key |-> at[1], value |-> at[2]]),
     args |-> cb.args \o new]

AddMatcher(cb, m) ==
    LET empty == Matches(m, <<>>)
        Either(yes, no) == IF empty THEN yes ELSE no IN
    CASE m.type = "EQ" -> addClause(cb, Either(subQueryEQMatchEmpty, subQueryEQ), m.name, m.value, <<>>)
      [] m.type = "NEQ" -> addClause(cb, Either(subQueryNEQMatchEmpty, subQueryNEQ), m.name, m.value, <<>>)
      [] m.type = "RE" ->
            addClause(cb, Either(subQueryREMatchEmpty, subQueryRE), m.name, <<>>, anchorValue(m.re))
      [] m.type = "NRE" ->
            addClause(cb, Either(subQueryNREMatchEmpty, subQueryNRE), m.name, <<>>, anchorValue(m.re))

(* The query is for one metric only if exactly one matcher names one.        *)
(* Without matchers there is nothing to ask for.                             *)
NoClauses == [clauses |-> <<>>, args |-> <<>>]

(* The clauses of the first n matchers. *)
ClausesUpTo(matchers) ==
    LET upTo[n \in 0..Len(matchers)] ==
            IF n = 0 THEN NoClauses ELSE AddMatcher(upTo[n - 1], matchers[n])
    IN  upTo

NameMatchers(matchers) ==
    {i \in DOMAIN matchers : matchers[i].type = "EQ" /\ matchers[i].name = MetricNameLabel}

buildSubQueries(matchers) ==
    LET named == NameMatchers(matchers)
        Build(built) ==
            [metric |-> IF \E i \in named : named = {i}
                        THEN matchers[CHOOSE i \in named : TRUE].value ELSE <<>>,
             clauses |-> built.clauses, args |-> built.args, err |-> built.clauses = <<>>]
    IN  Build(ClausesUpTo(matchers)[Len(matchers)])
-----------------------------------------------------------------------------
(* What the database selects.  Labels are pairs of a name and a value.       *)
Compare(op, v, arg) ==
    CASE op = "=" -> v = arg.text
      [] op = "!=" -> v # arg.text
      [] op = "~" -> Tilde(v, arg.re)
      [] op = "!~" -> ~Tilde(v, arg.re)

(* labels && (SELECT array_agg(l.id) FROM label l WHERE ...), or its negation *)
Selects(clause, args, labels) ==
    LET overlap == \E l \in labels : /\ l[1] = args[clause.key].text
                                     /\ Compare(clause.sub.op, l[2], args[clause.value])
    IN  overlap # clause.sub.negated

(* The clauses of the WHERE, joined with AND. *)
Where(q, labels) == \A i \in DOMAIN q.clauses : Selects(q.clauses[i], q.args, labels)

(* toRFC3339Nano, and the comparison of the database with what it wrote. *)
toRFC3339Nano(ms) ==
    [inf |-> IF ms = MinTime THEN -1 ELSE IF ms = MaxTime THEN 1 ELSE 0,
     sec |-> ms \div 1000, nsec |-> (ms % 1000) * 1000000]
NotAfter(a, b) ==
    \/ a.inf < b.inf
    \/ /\ a.inf = 0 /\ b.inf = 0
       /\ a.sec < b.sec \/ (a.sec = b.sec /\ a.nsec <= b.nsec)
InTimeRange(t, from, to) == NotAfter(from, t) /\ NotAfter(t, to)

(* toMilis: through the nanoseconds in 64 bits, which hold the years from    *)
(* 1678 to 2262 and wrap around outside.                                     *)
FitsInt64(n) == -MaxInt64 - 1 <= n /\ n <= MaxInt64
Int64Of(n) ==
    IF FitsInt64(n) THEN n ELSE ((n + MaxInt64 + 1) % (2 * (MaxInt64 + 1))) - MaxInt64 - 1
HasNanos(ms) == FitsInt64(ms * 1000000)
UnixNano(t) == Int64Of(t.sec * 1000000000 + t.nsec)
toMilis(t) == IF UnixNano(t) >= 0 THEN UnixNano(t) \div 1000000 ELSE -((-UnixNano(t)) \div 1000000)
-----------------------------------------------------------------------------
(* A series matches when every matcher matches the value it has under the    *)
(* name, the empty one if it has none: what PromQL says of matchers.         *)
ValueOf(labels, name) ==
    IF \E l \in labels : l[1] = name THEN (CHOOSE l \in labels : l[1] = name)[2] ELSE <<>>
SelectedBy(matchers, labels) ==
    \A i \in DOMAIN matchers : Matches(matchers[i], ValueOf(labels, matchers[i].name))
=============================================================================
