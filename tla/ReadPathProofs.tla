--------------------------- MODULE ReadPathProofs ---------------------------
(* Proofs about the read path: what a query returns, and where the           *)
(* connections of the pool are.                                              *)
EXTENDS ReadPath, FiniteSetTheorems, SequenceTheorems, WellFoundedInduction, TLAPS

-----------------------------------------------------------------------------
(* Regular expressions.                                                      *)

(* An expression anchored at both ends of every alternative matches less.    *)
LEMMA WholeMatchesLess ==
    ASSUME NEW v, NEW re \in Seq(Alternatives), re # <<>>, Tilde(v, Whole(re))
    PROVE  Tilde(v, anchorValue(re))
<1>1. PICK k \in DOMAIN re : Found(Whole(re)[k], v)
  BY DEF Tilde, Whole
<1>0. re[k] \in Alternatives
  OBVIOUS
<1>2. /\ Whole(re)[k].bol /\ Whole(re)[k].eol
      /\ Whole(re)[k].lit = re[k].lit /\ Whole(re)[k].any = re[k].any
  BY <1>0, Zenon DEF Whole, Alternatives
<1>3. PICK s \in Spans(v) :
          /\ re[k].any \/ SubSeq(v, s[1], s[2]) = re[k].lit
          /\ s[1] = 1
          /\ s[2] = Len(v)
  BY <1>1, <1>2 DEF Found
<1>4. DOMAIN anchorValue(re) = DOMAIN re
  BY DEF anchorValue
<1>5. anchorValue(re)[k].lit = re[k].lit /\ anchorValue(re)[k].any = re[k].any
  BY <1>0 DEF anchorValue, Alternatives
<1>6. Found(anchorValue(re)[k], v)
  BY <1>3, <1>5 DEF Found
<1> QED
  BY <1>4, <1>6 DEF Tilde

-----------------------------------------------------------------------------
(* The clauses.                                                              *)

(* What AddMatcher makes of a matcher. *)
SubOf(m) ==
    LET empty == Matches(m, <<>>) IN
    CASE m.type = "EQ" -> IF empty THEN subQueryEQMatchEmpty ELSE subQueryEQ
      [] m.type = "NEQ" -> IF empty THEN subQueryNEQMatchEmpty ELSE subQueryNEQ
      [] m.type = "RE" -> IF empty THEN subQueryREMatchEmpty ELSE subQueryRE
      [] m.type = "NRE" -> IF empty THEN subQueryNREMatchEmpty ELSE subQueryNRE
NameArg(m) == [text |-> m.name, re |-> <<>>]
ValueArg(m) ==
    IF m.type \in {"EQ", "NEQ"} THEN [text |-> m.value, re |-> <<>>]
                                ELSE [text |-> <<>>, re |-> anchorValue(m.re)]

(* The clauses of the first n matchers, without recursion: clause i takes    *)
(* parameters 2i - 1 and 2i.                                                 *)
ClauseList(ms, n) == [i \in 1..n |-> [sub |-> SubOf(ms[i]), key |-> 2 * i - 1, value |-> 2 * i]]
ArgList(ms, n) ==
    [j \in 1..(2 * n) |-> IF j % 2 = 1 THEN NameArg(ms[(j + 1) \div 2]) ELSE ValueArg(ms[j \div 2])]
Direct(ms, n) == [clauses |-> ClauseList(ms, n), args |-> ArgList(ms, n)]

(* A function on 1..n is a sequence of length n. *)
LEMMA FunctionIsSeq ==
    ASSUME NEW n \in Nat, NEW S, NEW f \in [1..n -> S]
    PROVE  f \in Seq(S) /\ Len(f) = n
<1>1. f \in Seq(S)
  BY SeqDef, Zenon
<1>2. DOMAIN f = 1..n /\ DOMAIN f = 1..Len(f) /\ Len(f) \in Nat
  BY <1>1, LenProperties
<1> QED
  BY <1>1, <1>2

LEMMA ListsAreSeqs ==
    ASSUME NEW ms, NEW n \in Nat
    PROVE  /\ ClauseList(ms, n) \in Seq({ClauseList(ms, n)[i] : i \in 1..n})
           /\ Len(ClauseList(ms, n)) = n
           /\ ArgList(ms, n) \in Seq({ArgList(ms, n)[j] : j \in 1..(2 * n)})
           /\ Len(ArgList(ms, n)) = 2 * n
<1>1. ClauseList(ms, n) \in [1..n -> {ClauseList(ms, n)[i] : i \in 1..n}]
  BY Zenon DEF ClauseList
<1>2. ArgList(ms, n) \in [1..(2 * n) -> {ArgList(ms, n)[j] : j \in 1..(2 * n)}]
  BY Zenon DEF ArgList
<1>3. 2 * n \in Nat
  OBVIOUS
<1> HIDE DEF ClauseList, ArgList
<1> QED
  BY <1>1, <1>2, <1>3, FunctionIsSeq

(* One more matcher adds the clause and the parameters of the list. *)
LEMMA AddMatcherExtends ==
    ASSUME NEW ms \in Seq(Matchers), NEW n \in 1..Len(ms)
    PROVE  AddMatcher(Direct(ms, n - 1), ms[n]) = Direct(ms, n)
<1> DEFINE m == ms[n]
           C == ClauseList(ms, n - 1)
           A == ArgList(ms, n - 1)
           c == [sub |-> SubOf(m), key |-> 2 * n - 1, value |-> 2 * n]
           new == << NameArg(m), ValueArg(m) >>
<1>1. m \in Matchers /\ n - 1 \in Nat /\ 2 * (n - 1) \in Nat /\ n \in Nat /\ 2 * n \in Nat
  OBVIOUS
<1>2. Len(C) = n - 1 /\ Len(A) = 2 * (n - 1)
  BY <1>1, ListsAreSeqs
<1>3. AddMatcher(Direct(ms, n - 1), m) = addClause(Direct(ms, n - 1), SubOf(m), m.name, ValueArg(m).text, ValueArg(m).re)
  BY <1>1 DEF AddMatcher, SubOf, ValueArg, Matchers
<1>4. new = << [text |-> m.name, re |-> <<>>], [text |-> ValueArg(m).text, re |-> ValueArg(m).re] >>
  BY DEF NameArg, ValueArg
<1>5. addClause(Direct(ms, n - 1), SubOf(m), m.name, ValueArg(m).text, ValueArg(m).re)
        = [clauses |-> Append(C, c), args |-> A \o new]
  <2>1. Direct(ms, n - 1).clauses = C /\ Direct(ms, n - 1).args = A
    BY DEF Direct
  <2>2. fillInParameters(A, new)[1] = 2 * n - 1 /\ fillInParameters(A, new)[2] = 2 * n
    BY <1>1, <1>2 DEF fillInParameters
  <2> HIDE DEF C, A, new, m
  <2> QED
    BY <1>4, <2>1, <2>2 DEF addClause, c
<1>6. Append(C, c) = ClauseList(ms, n)
  <2> DEFINE S == {C[i] : i \in 1..(n - 1)} \cup {c}
  <2>1. C \in Seq(S)
    <3>1. C \in [1..(n - 1) -> S]
      BY Zenon DEF ClauseList
    <3> QED BY <3>1, <1>1, FunctionIsSeq
  <2>2. c \in S
    BY Zenon
  <2>3. ClauseList(ms, n) \in [1..n -> S]
    <3>1. ASSUME NEW i \in 1..n PROVE ClauseList(ms, n)[i] \in S
      <4>1. CASE i = n
        BY <4>1, <2>2 DEF ClauseList
      <4>2. CASE i # n
        <5>1. i \in 1..(n - 1) /\ ClauseList(ms, n)[i] = C[i]
          BY <4>2 DEF ClauseList
        <5> HIDE DEF C
        <5> QED BY <5>1
      <4> QED BY <4>1, <4>2
    <3> QED BY <3>1, Zenon DEF ClauseList
  <2>4. ClauseList(ms, n) \in Seq(S) /\ Len(ClauseList(ms, n)) = n
    BY <2>3, <1>1, FunctionIsSeq
  <2>5. \A i \in 1..(n - 1) : ClauseList(ms, n)[i] = C[i]
    BY DEF ClauseList
  <2>6. ClauseList(ms, n)[n] = c
    BY DEF ClauseList
  <2> HIDE DEF C, c, S
  <2>7. /\ Append(C, c) \in Seq(S) /\ Len(Append(C, c)) = n
        /\ \A i \in 1..(n - 1) : Append(C, c)[i] = C[i]
        /\ Append(C, c)[n] = c
    BY <1>1, <1>2, <2>1, <2>2
  <2>8. \A i \in 1..n : Append(C, c)[i] = ClauseList(ms, n)[i]
    BY <2>5, <2>6, <2>7, <1>1, SMTT(60)
  <2> QED
    BY <2>4, <2>7, <2>8, SeqEqual
<1>7. A \o new = ArgList(ms, n)
  <2> DEFINE S == {A[j] : j \in 1..(2 * (n - 1))} \cup {NameArg(m), ValueArg(m)}
  <2>1. A \in Seq(S)
    <3>1. A \in [1..(2 * (n - 1)) -> S]
      BY Zenon DEF ArgList
    <3> QED BY <3>1, <1>1, FunctionIsSeq
  <2>2. new \in Seq(S) /\ Len(new) = 2 /\ new[1] = NameArg(m) /\ new[2] = ValueArg(m)
    <3> HIDE DEF A, m
    <3> QED OBVIOUS
  <2>3. \A j \in 1..(2 * (n - 1)) : ArgList(ms, n)[j] = A[j]
    BY <1>1 DEF ArgList
  <2>4. ArgList(ms, n)[2 * n - 1] = NameArg(m) /\ ArgList(ms, n)[2 * n] = ValueArg(m)
    BY <1>1 DEF ArgList
  <2>5. \A j \in 1..(2 * n) : j \in 1..(2 * (n - 1)) \/ j = 2 * n - 1 \/ j = 2 * n
    BY <1>1
  <2>6. ArgList(ms, n) \in [1..(2 * n) -> S]
    <3>1. \A j \in 1..(2 * n) : ArgList(ms, n)[j] \in S
      BY <2>3, <2>4, <2>5
    <3> QED BY <3>1, Zenon DEF ArgList
  <2>7. ArgList(ms, n) \in Seq(S) /\ Len(ArgList(ms, n)) = 2 * n
    BY <2>6, <1>1, FunctionIsSeq
  <2> HIDE DEF A, new, S, m
  <2>8. /\ A \o new \in Seq(S) /\ Len(A \o new) = 2 * n
        /\ \A j \in 1..(2 * (n - 1)) : (A \o new)[j] = A[j]
        /\ (A \o new)[2 * n - 1] = new[1]
        /\ (A \o new)[2 * n] = new[2]
    <3>1. Len(A) + 1 = 2 * n - 1 /\ Len(A) + 2 = 2 * n /\ Len(A) \in Nat
      BY <1>1, <1>2
    <3>2. /\ A \o new \in Seq(S)
          /\ Len(A \o new) = Len(A) + Len(new)
          /\ \A j \in 1..(Len(A) + Len(new)) :
                (A \o new)[j] = IF j <= Len(A) THEN A[j] ELSE new[j - Len(A)]
      <4>1. A \in Seq(S) /\ new \in Seq(S)
        BY <2>1, <2>2
      <4> QED BY <4>1, ConcatProperties, Zenon
    <3>3. \A j \in 1..Len(A) : (A \o new)[j] = A[j]
      BY <2>2, <3>1, <3>2
    <3>4. (A \o new)[Len(A) + 1] = new[1] /\ (A \o new)[Len(A) + 2] = new[2]
      <4>1. Len(A) + 1 \in 1..(Len(A) + Len(new)) /\ Len(A) + 2 \in 1..(Len(A) + Len(new))
        BY <2>2, <3>1
      <4>2. Len(A) + 1 - Len(A) = 1 /\ Len(A) + 2 - Len(A) = 2 /\ ~(Len(A) + 1 <= Len(A)) /\ ~(Len(A) + 2 <= Len(A))
        BY <3>1
      <4> QED BY <3>2, <4>1, <4>2
    <3> QED
      BY <1>2, <2>2, <3>1, <3>2, <3>3, <3>4
  <2>9. \A j \in 1..(2 * n) : (A \o new)[j] = ArgList(ms, n)[j]
    BY <2>2, <2>3, <2>4, <2>5, <2>8
  <2> QED
    BY <2>7, <2>8, <2>9, SeqEqual
<1> QED
  BY <1>3, <1>5, <1>6, <1>7 DEF Direct

(* A set of natural numbers has a least one: the induction of the proofs     *)
(* below is by a least counterexample.                                       *)
LEMMA LeastNatural ==
    ASSUME NEW T \in SUBSET Nat, T # {}
    PROVE  \E m \in T : \A k \in T : m <= k
<1> DEFINE F == {1..n : n \in T}
<1>1. F # {}
  OBVIOUS
<1>2. ASSUME NEW n \in T PROVE 1..n \in FiniteSubsetsOf(Nat)
  <2>1. n \in Nat /\ 1 \in Int /\ n \in Int
    OBVIOUS
  <2>2. IsFiniteSet(1..n)
    BY <2>1, FS_Interval
  <2>3. 1..n \in SUBSET Nat
    OBVIOUS
  <2> QED
    BY <2>2, <2>3 DEF FiniteSubsetsOf
<1>3. F \subseteq FiniteSubsetsOf(Nat)
  BY <1>2
<1>4. IsWellFoundedOn(StrictSubsetOrdering(Nat), FiniteSubsetsOf(Nat))
  BY FS_StrictSubsetOrderingWellFounded
<1> HIDE DEF F
<1>5. PICK x \in F : \A y \in F : ~(<<y, x>> \in StrictSubsetOrdering(Nat))
  BY <1>1, <1>3, <1>4, WFMin
<1>6. PICK m \in T : x = 1..m
  BY DEF F
<1>7. ASSUME NEW k \in T PROVE m <= k
  <2>1. SUFFICES ASSUME k < m PROVE FALSE
    OBVIOUS
  <2>2. 1..k \in SUBSET Nat /\ 1..m \in SUBSET Nat
    OBVIOUS
  <2>3. 1..k \subseteq 1..m /\ 1..k # 1..m
    <3>1. m \in 1..m /\ m \notin 1..k
      BY <2>1
    <3> QED BY <2>1, <3>1
  <2>4. <<1..k, 1..m>> \in StrictSubsetOrdering(Nat)
    BY <2>2, <2>3, Zenon DEF StrictSubsetOrdering
  <2>5. 1..k \in F
    BY DEF F
  <2> QED
    BY <1>5, <1>6, <2>4, <2>5
<1> QED
  BY <1>7

(* The recursion over the matchers computes the list. *)
LEMMA ClausesAreDirect ==
    ASSUME NEW ms \in Seq(Matchers)
    PROVE  ClausesUpTo(ms)[Len(ms)] = Direct(ms, Len(ms))
<1> DEFINE D == [n \in 0..Len(ms) |-> Direct(ms, n)]
           f == ClausesUpTo(ms)
<1>1. Direct(ms, 0) = NoClauses
  <2>1. 1..0 = {} /\ 1..(2 * 0) = {}
    OBVIOUS
  <2>2. ClauseList(ms, 0) = <<>> /\ ArgList(ms, 0) = <<>>
    <3>1. ClauseList(ms, 0) \in [1..0 -> {}] /\ ArgList(ms, 0) \in [1..0 -> {}]
      BY <2>1 DEF ClauseList, ArgList
    <3>2. /\ ClauseList(ms, 0) \in Seq({}) /\ Len(ClauseList(ms, 0)) = 0
          /\ ArgList(ms, 0) \in Seq({}) /\ Len(ArgList(ms, 0)) = 0
      BY <3>1, FunctionIsSeq
    <3> QED BY <3>2, EmptySeq
  <2> QED
    BY <2>2 DEF Direct, NoClauses
<1>2. D = [n \in 0..Len(ms) |-> IF n = 0 THEN NoClauses ELSE AddMatcher(D[n - 1], ms[n])]
  <2>1. ASSUME NEW n \in 0..Len(ms)
        PROVE  D[n] = IF n = 0 THEN NoClauses ELSE AddMatcher(D[n - 1], ms[n])
    <3>1. CASE n = 0
      BY <1>1, <3>1
    <3>2. CASE n # 0
      <4>1. n \in 1..Len(ms) /\ n - 1 \in 0..Len(ms)
        BY <3>2
      <4>2. D[n - 1] = Direct(ms, n - 1) /\ D[n] = Direct(ms, n)
        BY <4>1
      <4> HIDE DEF D
      <4> QED
        BY <3>2, <4>1, <4>2, AddMatcherExtends
    <3> QED BY <3>1, <3>2
  <2> QED
    BY <2>1, Zenon
<1>3. f = [n \in 0..Len(ms) |-> IF n = 0 THEN NoClauses ELSE AddMatcher(f[n - 1], ms[n])]
  <2> HIDE DEF D
  <2> QED
    BY <1>2, Zenon DEF ClausesUpTo
<1> HIDE DEF f, D
<1>4. ASSUME NEW n \in 0..Len(ms), f[n] # Direct(ms, n) PROVE FALSE
  <2> DEFINE T == {k \in 0..Len(ms) : f[k] # Direct(ms, k)}
  <2>1. T \in SUBSET Nat /\ T # {}
    BY <1>4
  <2>2. PICK k \in T : \A j \in T : k <= j
    <3> HIDE DEF T
    <3> QED BY <2>1, LeastNatural
  <2>3. CASE k = 0
    <3>1. f[0] = NoClauses
      BY <1>3
    <3> QED
      BY <1>1, <2>3, <3>1
  <2>4. CASE k # 0
    <3>1. k \in 1..Len(ms) /\ k - 1 \in 0..Len(ms) /\ ~(k <= k - 1)
      BY <2>4
    <3>2. f[k - 1] = Direct(ms, k - 1)
      BY <2>2, <3>1
    <3>3. f[k] = AddMatcher(f[k - 1], ms[k])
      BY <1>3, <2>4, <3>1
    <3> QED
      BY <3>1, <3>2, <3>3, AddMatcherExtends
  <2> QED
    BY <2>3, <2>4
<1> QED
  BY <1>4 DEF f

-----------------------------------------------------------------------------
(* What the clauses select.                                                  *)

(* The clause of one matcher, on the labels of a series. *)
Picks(m, labels) ==
    (\E l \in labels : l[1] = m.name /\ Compare(SubOf(m).op, l[2], ValueArg(m))) # SubOf(m).negated

Functional(labels) == \A k, l \in labels : k[1] = l[1] => k = l
Exact(m) == anchorValue(m.re) = Whole(m.re)

(* Every clause finds its own parameters: the WHERE is the conjunction of    *)
(* the clauses of the matchers.                                              *)
LEMMA WhereIsPicks ==
    ASSUME NEW ms \in Seq(Matchers), NEW labels
    PROVE  Where(buildSubQueries(ms), labels) <=> \A i \in DOMAIN ms : Picks(ms[i], labels)
<1> DEFINE q == buildSubQueries(ms)
<1>1. q.clauses = ClauseList(ms, Len(ms)) /\ q.args = ArgList(ms, Len(ms))
  <2>1. ClausesUpTo(ms)[Len(ms)] = Direct(ms, Len(ms))
    BY ClausesAreDirect
  <2>2. /\ q.clauses = ClausesUpTo(ms)[Len(ms)].clauses
        /\ q.args = ClausesUpTo(ms)[Len(ms)].args
    BY DEF buildSubQueries
  <2> HIDE DEF q
  <2> QED
    BY <2>1, <2>2 DEF Direct
<1>2. Len(ms) \in Nat /\ DOMAIN ms = 1..Len(ms)
  OBVIOUS
<1>3. DOMAIN q.clauses = DOMAIN ms
  BY <1>1, <1>2 DEF ClauseList
<1>4. ASSUME NEW i \in DOMAIN ms
      PROVE  Selects(q.clauses[i], q.args, labels) <=> Picks(ms[i], labels)
  <2>1. /\ q.clauses[i] = [sub |-> SubOf(ms[i]), key |-> 2 * i - 1, value |-> 2 * i]
        /\ q.args[2 * i - 1] = NameArg(ms[i])
        /\ q.args[2 * i] = ValueArg(ms[i])
    <3>1. i \in Int /\ 2 * i - 1 \in 1..(2 * Len(ms)) /\ 2 * i \in 1..(2 * Len(ms))
      BY <1>2
    <3>2. (2 * i - 1) % 2 = 1 /\ (2 * i) % 2 = 0 /\ (2 * i - 1 + 1) \div 2 = i /\ (2 * i) \div 2 = i
      BY <3>1
    <3>3. q.clauses[i] = [sub |-> SubOf(ms[i]), key |-> 2 * i - 1, value |-> 2 * i]
      BY <1>1, <1>2 DEF ClauseList
    <3>4. ArgList(ms, Len(ms))[2 * i - 1] = NameArg(ms[i])
      BY <3>1, <3>2 DEF ArgList
    <3>5. ArgList(ms, Len(ms))[2 * i] = ValueArg(ms[i])
      <4>1. (2 * i) % 2 # 1
        BY <3>2
      <4> QED BY <3>1, <3>2, <4>1 DEF ArgList
    <3> HIDE DEF q
    <3> QED
      BY <1>1, <3>3, <3>4, <3>5
  <2> HIDE DEF q
  <2>2. /\ q.args[q.clauses[i].key].text = ms[i].name
        /\ q.args[q.clauses[i].value] = ValueArg(ms[i])
        /\ q.clauses[i].sub = SubOf(ms[i])
    BY <2>1 DEF NameArg
  <2> QED
    BY <2>2 DEF Selects, Picks
<1> HIDE DEF q
<1> QED
  BY <1>3, <1>4 DEF Where, q

(* The clause of a matcher selects a series by the value under the name, the *)
(* empty one if there is none.  An expression that its anchors do not make   *)
(* whole selects too much, and one to be excluded too little.                *)
LEMMA PicksByValue ==
    ASSUME NEW m \in Matchers, NEW labels, Functional(labels)
    PROVE  /\ m.type \in {"EQ", "NEQ"} \/ Exact(m)
                 => (Picks(m, labels) <=> Matches(m, ValueOf(labels, m.name)))
           /\ m.type = "RE" => (Matches(m, ValueOf(labels, m.name)) => Picks(m, labels))
           /\ m.type = "NRE" => (Picks(m, labels) => Matches(m, ValueOf(labels, m.name)))
<1>0. m.type \in {"EQ", "NEQ", "RE", "NRE"} /\ m.re \in Seq(Alternatives) /\ m.re # <<>>
  BY DEF Matchers
<1>1. CASE ~\E l \in labels : l[1] = m.name
  <2>1. ValueOf(labels, m.name) = <<>>
    BY <1>1 DEF ValueOf
  <2>2. Picks(m, labels) <=> SubOf(m).negated = TRUE
    <3>1. SubOf(m).negated \in BOOLEAN
      BY <1>0 DEF SubOf, SubQuery, subQueryEQ, subQueryEQMatchEmpty, subQueryNEQ, subQueryNEQMatchEmpty,
                  subQueryRE, subQueryREMatchEmpty, subQueryNRE, subQueryNREMatchEmpty
    <3> QED
      BY <1>1, <3>1 DEF Picks
  <2>3. SubOf(m).negated = TRUE <=> Matches(m, <<>>)
    BY <1>0 DEF SubOf, SubQuery, subQueryEQ, subQueryEQMatchEmpty, subQueryNEQ, subQueryNEQMatchEmpty,
                subQueryRE, subQueryREMatchEmpty, subQueryNRE, subQueryNREMatchEmpty
  <2> QED
    BY <2>1, <2>2, <2>3
<1>2. CASE \E l \in labels : l[1] = m.name
  <2> DEFINE v == ValueOf(labels, m.name)
  <2>1. PICK l \in labels : l[1] = m.name
    BY <1>2
  <2>2. \A k \in labels : k[1] = m.name => k = l
    BY <2>1 DEF Functional
  <2>3. v = l[2]
    BY <2>1, <2>2 DEF ValueOf
  <2>4. Picks(m, labels) <=> (Compare(SubOf(m).op, v, ValueArg(m)) # SubOf(m).negated)
    <3>1. (\E k \in labels : k[1] = m.name /\ Compare(SubOf(m).op, k[2], ValueArg(m)))
             <=> Compare(SubOf(m).op, v, ValueArg(m))
      BY <2>1, <2>2, <2>3
    <3>2. Compare(SubOf(m).op, v, ValueArg(m)) \in BOOLEAN
      BY <1>0 DEF Compare, SubOf, SubQuery, subQueryEQ, subQueryEQMatchEmpty, subQueryNEQ, subQueryNEQMatchEmpty,
                  subQueryRE, subQueryREMatchEmpty, subQueryNRE, subQueryNREMatchEmpty, Tilde
    <3> QED
      BY <3>1, <3>2 DEF Picks
  <2>5. CASE m.type = "EQ"
    <3>1. Picks(m, labels) <=> v = m.value
      BY <2>4, <2>5 DEF Compare, ValueArg, SubOf, SubQuery, subQueryEQ, subQueryEQMatchEmpty
    <3> QED BY <3>1, <2>5 DEF Matches
  <2>6. CASE m.type = "NEQ"
    <3>1. Picks(m, labels) <=> v # m.value
      BY <2>4, <2>6 DEF Compare, ValueArg, SubOf, SubQuery, subQueryNEQ, subQueryNEQMatchEmpty
    <3> QED BY <3>1, <2>6 DEF Matches
  <2>7. Tilde(v, Whole(m.re)) => Tilde(v, anchorValue(m.re))
    BY <1>0, WholeMatchesLess
  <2>8. CASE m.type = "RE"
    <3>1. Picks(m, labels) <=> Tilde(v, anchorValue(m.re))
      BY <2>4, <2>8 DEF Compare, ValueArg, SubOf, SubQuery, subQueryRE, subQueryREMatchEmpty, Tilde
    <3> QED BY <3>1, <2>7, <2>8 DEF Matches, Exact
  <2>9. CASE m.type = "NRE"
    <3>1. Picks(m, labels) <=> ~Tilde(v, anchorValue(m.re))
      BY <2>4, <2>9 DEF Compare, ValueArg, SubOf, SubQuery, subQueryNRE, subQueryNREMatchEmpty, Tilde
    <3> QED BY <3>1, <2>7, <2>9 DEF Matches, Exact
  <2> QED
    BY <1>0, <2>5, <2>6, <2>8, <2>9
<1> QED
  BY <1>1, <1>2

(* What the SQL of a request selects against what its matchers say: nothing  *)
(* is missed but by a loose expression to be excluded, and nothing added but *)
(* by a loose one to be matched (buildSubQueries, anchorValue).              *)
THEOREM ClausesSelectMatches ==
    ASSUME NEW ms \in Seq(Matchers), NEW labels, Functional(labels)
    PROVE  /\ (\A i \in DOMAIN ms : ms[i].type = "NRE" => Exact(ms[i]))
                 => (SelectedBy(ms, labels) => Where(buildSubQueries(ms), labels))
           /\ (\A i \in DOMAIN ms : ms[i].type = "RE" => Exact(ms[i]))
                 => (Where(buildSubQueries(ms), labels) => SelectedBy(ms, labels))
<1>1. Where(buildSubQueries(ms), labels) <=> \A i \in DOMAIN ms : Picks(ms[i], labels)
  BY WhereIsPicks
<1>2. ASSUME NEW i \in DOMAIN ms
      PROVE  /\ (ms[i].type = "NRE" => Exact(ms[i])) =>
                   (Matches(ms[i], ValueOf(labels, ms[i].name)) => Picks(ms[i], labels))
             /\ (ms[i].type = "RE" => Exact(ms[i])) =>
                   (Picks(ms[i], labels) => Matches(ms[i], ValueOf(labels, ms[i].name)))
  <2>1. ms[i] \in Matchers
    OBVIOUS
  <2>2. ms[i].type \in {"EQ", "NEQ", "RE", "NRE"}
    BY <2>1 DEF Matchers
  <2> QED
    BY <2>1, <2>2, PicksByValue
<1> QED
  BY <1>1, <1>2 DEF SelectedBy

-----------------------------------------------------------------------------
(* Times.                                                                    *)

(* Milliseconds whose nanoseconds fit in 64 bits survive the conversion to   *)
(* seconds and nanoseconds and back (toRFC3339Nano, toMilis).                *)
LEMMA MilisSurvive ==
    ASSUME NEW t \in Int, HasNanos(t)
    PROVE  toMilis(toRFC3339Nano(t)) = t
<1>1. /\ toRFC3339Nano(t).sec = t \div 1000
      /\ toRFC3339Nano(t).nsec = (t % 1000) * 1000000
  BY DEF toRFC3339Nano
<1>2. t \div 1000 \in Int /\ t % 1000 \in 0..999 /\ t = (t \div 1000) * 1000 + (t % 1000)
  OBVIOUS
<1>3. (t \div 1000) * 1000000000 + (t % 1000) * 1000000 = t * 1000000
  BY <1>2
<1>4. UnixNano(toRFC3339Nano(t)) = t * 1000000
  BY <1>1, <1>3 DEF UnixNano, Int64Of, HasNanos
<1>5. \A n \in Nat : (n * 1000000) \div 1000000 = n
  OBVIOUS
<1>6. CASE t >= 0
  BY <1>4, <1>5, <1>6 DEF toMilis
<1>7. CASE t < 0
  <2>1. -t \in Nat /\ (-(t * 1000000)) = (-t) * 1000000 /\ ~(t * 1000000 >= 0)
    BY <1>7
  <2>2. (-(t * 1000000)) \div 1000000 = -t
    BY <1>5, <2>1
  <2> QED BY <1>4, <2>1, <2>2 DEF toMilis
<1> QED
  BY <1>6, <1>7

(* A time is compared as a number; no bound is below or above all times. *)
LEMMA ComparedAsNumbers ==
    ASSUME NEW t \in (MinTime + 1)..(MaxTime - 1), NEW u \in MinTime..MaxTime
    PROVE  /\ NotAfter(toRFC3339Nano(u), toRFC3339Nano(t)) <=> u <= t
           /\ NotAfter(toRFC3339Nano(t), toRFC3339Nano(u)) <=> t <= u
<1>0. MinTime \in Int /\ MaxTime \in Int /\ t \in Int /\ u \in Int /\ MinTime < t /\ t < MaxTime
  BY ReadPathAssumption
<1>1. ASSUME NEW n \in Int
      PROVE  n \div 1000 \in Int /\ n % 1000 \in 0..999 /\ n = (n \div 1000) * 1000 + (n % 1000)
  BY <1>1
<1> DEFINE a == t \div 1000  b == t % 1000  c == u \div 1000  d == u % 1000
<1>2. /\ a \in Int /\ b \in 0..999 /\ t = a * 1000 + b
      /\ c \in Int /\ d \in 0..999 /\ u = c * 1000 + d
  BY <1>0, <1>1
<1>3. toRFC3339Nano(t) = [inf |-> 0, sec |-> a, nsec |-> b * 1000000]
  BY <1>0 DEF toRFC3339Nano
<1>4. toRFC3339Nano(u) = [inf |-> IF u = MinTime THEN -1 ELSE IF u = MaxTime THEN 1 ELSE 0,
                          sec |-> c, nsec |-> d * 1000000]
  BY DEF toRFC3339Nano
<1> HIDE DEF a, b, c, d
<1>5. CASE u = MinTime
  BY <1>0, <1>3, <1>4, <1>5 DEF NotAfter
<1>6. CASE u = MaxTime
  BY <1>0, <1>3, <1>4, <1>6 DEF NotAfter
<1>7. CASE u # MinTime /\ u # MaxTime
  <2>1. toRFC3339Nano(u) = [inf |-> 0, sec |-> c, nsec |-> d * 1000000]
    BY <1>4, <1>7
  <2>2. u <= t <=> c < a \/ (c = a /\ d * 1000000 <= b * 1000000)
    BY <1>2
  <2>3. t <= u <=> a < c \/ (a = c /\ b * 1000000 <= d * 1000000)
    BY <1>2
  <2> QED
    BY <1>3, <2>1, <2>2, <2>3 DEF NotAfter
<1> QED
  BY <1>5, <1>6, <1>7

(* The samples of a series in the range of a request. *)
SamplesIn(s, r) == {t \in s.times : Requests[r].from <= t /\ t <= Requests[r].to}

LEMMA SamplesAreSent ==
    ASSUME NEW r \in DOMAIN Requests, NEW s \in Series
    PROVE  TimesIn(s, r) = SamplesIn(s, r) /\ Sent[r][s] = SamplesIn(s, r)
<1>1. /\ s.times \subseteq (MinTime + 1)..(MaxTime - 1) /\ MinTime \in Int /\ MaxTime \in Int
      /\ Requests[r].from \in MinTime..MaxTime /\ Requests[r].to \in MinTime..MaxTime
      /\ \A t \in s.times : HasNanos(t)
  BY ReadPathAssumption, Zenon
<1>2. ASSUME NEW t \in s.times
      PROVE  InTimeRange(toRFC3339Nano(t), toRFC3339Nano(Requests[r].from), toRFC3339Nano(Requests[r].to))
                <=> Requests[r].from <= t /\ t <= Requests[r].to
  BY <1>1, ComparedAsNumbers DEF InTimeRange
<1>3. TimesIn(s, r) = SamplesIn(s, r)
  BY <1>2, Zenon DEF TimesIn, SamplesIn
<1>4. Sent[r][s] = {toMilis(toRFC3339Nano(t)) : t \in SamplesIn(s, r)}
  BY <1>3 DEF Sent
<1>5. ASSUME NEW t \in SamplesIn(s, r) PROVE toMilis(toRFC3339Nano(t)) = t
  <2>1. t \in Int /\ HasNanos(t)
    BY <1>1 DEF SamplesIn
  <2> QED
    BY <2>1, MilisSurvive
<1>6. {toMilis(toRFC3339Nano(t)) : t \in SamplesIn(s, r)} = SamplesIn(s, r)
  BY <1>5, Zenon
<1> QED
  BY <1>3, <1>4, <1>6

-----------------------------------------------------------------------------
(* What a request gets from the database.                                    *)

Wanted(r) == {s \in RowsOf[r] : s.metric \in Tables}
Record(r, s) == [labels |-> s.labels, times |-> Sent[r][s]]
Result(r) == IF Requests[r].api \in Lists THEN Listed(r) ELSE {Record(r, s) : s \in Wanted(r)}

LEMMA ResultIsAnswer ==
    ASSUME NEW r \in DOMAIN Requests
    PROVE  /\ ~Loose[r]["NRE"] => Answer[r] \subseteq Result(r)
           /\ ~Loose[r]["RE"] => Result(r) \subseteq Answer[r]
<1> DEFINE ms == Requests[r].matchers
           Meant == {s \in Series : s.metric \in Tables /\ SelectedBy(ms, s.labels) /\ SamplesIn(s, r) # {}}
<1>1. CASE Requests[r].api \in Lists
  <2>1. Answer[r] = Listed(r)
    BY <1>1, Zenon DEF Answer
  <2> QED
    BY <1>1, <2>1, Zenon DEF Result
<1>2. CASE Requests[r].api \notin Lists
  <2>0. ms \in Seq(Matchers)
    BY ReadPathAssumption
  <2>1. Answer[r] = {[labels |-> s.labels, times |-> SamplesIn(s, r)] : s \in Meant}
    BY <1>2, Zenon DEF Answer, SamplesIn
  <2>2. Wanted(r) = {s \in Series : s.metric \in Tables /\ Where(buildSubQueries(ms), s.labels) /\ SamplesIn(s, r) # {}}
    <3>1. ASSUME NEW s \in Series PROVE TimesIn(s, r) = SamplesIn(s, r)
      BY SamplesAreSent
    <3>2. RowsOf[r] = {s \in Series : Where(buildSubQueries(ms), s.labels) /\ TimesIn(s, r) # {}}
      BY Zenon DEF RowsOf, Selected, Plan
    <3> HIDE DEF ms
    <3> QED
      BY <3>1, <3>2, Zenon DEF Wanted
  <2>3. ASSUME NEW s \in Wanted(r) PROVE Record(r, s) = [labels |-> s.labels, times |-> SamplesIn(s, r)]
    <3>1. s \in Series
      BY <2>2, Zenon
    <3> QED
      BY <3>1, SamplesAreSent DEF Record
  <2>4. Result(r) = {[labels |-> s.labels, times |-> SamplesIn(s, r)] : s \in Wanted(r)}
    BY <1>2, <2>3, Zenon DEF Result
  <2>5. \A s \in Series : Functional(s.labels)
    BY ReadPathAssumption, Zenon DEF Functional
  <2>6. ASSUME ~Loose[r]["NRE"] PROVE Meant \subseteq Wanted(r)
    <3>1. \A i \in DOMAIN ms : ms[i].type = "NRE" => Exact(ms[i])
      BY <2>6, Zenon DEF Loose, Exact
    <3>2. \A s \in Series : SelectedBy(ms, s.labels) => Where(buildSubQueries(ms), s.labels)
      <4> HIDE DEF ms
      <4> QED BY <2>0, <2>5, <3>1, ClausesSelectMatches
    <3> QED
      BY <2>2, <3>2, Zenon
  <2>7. ASSUME ~Loose[r]["RE"] PROVE Wanted(r) \subseteq Meant
    <3>1. \A i \in DOMAIN ms : ms[i].type = "RE" => Exact(ms[i])
      BY <2>7, Zenon DEF Loose, Exact
    <3>2. \A s \in Series : Where(buildSubQueries(ms), s.labels) => SelectedBy(ms, s.labels)
      <4> HIDE DEF ms
      <4> QED BY <2>0, <2>5, <3>1, ClausesSelectMatches
    <3> QED
      BY <2>2, <3>2, Zenon
  <2> HIDE DEF Meant
  <2> QED
    BY <2>1, <2>4, <2>6, <2>7, Zenon
<1> QED
  BY <1>1, <1>2

-----------------------------------------------------------------------------
(* The metrics of a request.                                                 *)

(* A finite set of numbers in ascending order has each of them, and nothing  *)
(* else.                                                                     *)
LEMMA AscendingLists ==
    ASSUME NEW S \in SUBSET Int, IsFiniteSet(S)
    PROVE  /\ Cardinality(S) \in Nat
           /\ Ascending(S) \in [1..Cardinality(S) -> S]
           /\ \A i \in S : \E k \in 1..Cardinality(S) : Ascending(S)[k] = i
<1> DEFINE Below(i) == {j \in S : j < i}
           n == Cardinality(S)
           rank == [i \in S |-> Cardinality(Below(i)) + 1]
<1>1. n \in Nat
  BY FS_CardinalityType
<1>2. ASSUME NEW i \in S
      PROVE  IsFiniteSet(Below(i)) /\ Cardinality(Below(i)) \in Nat /\ Cardinality(Below(i)) < n
  <2>1. Below(i) \in SUBSET S /\ i \notin Below(i)
    OBVIOUS
  <2> HIDE DEF Below
  <2>2. /\ IsFiniteSet(Below(i)) /\ Cardinality(Below(i)) <= n
        /\ Cardinality(S) = Cardinality(Below(i)) => S = Below(i)
    BY <2>1, FS_Subset
  <2>3. Cardinality(Below(i)) \in Nat
    BY <2>2, FS_CardinalityType
  <2> QED
    BY <1>1, <2>1, <2>2, <2>3
<1>3. ASSUME NEW i \in S, NEW j \in S, j < i
      PROVE  Cardinality(Below(j)) < Cardinality(Below(i))
  <2>1. Below(j) \in SUBSET Below(i) /\ j \in Below(i) /\ j \notin Below(j)
    <3>1. \A k \in S : k < j => k < i
      BY <1>3
    <3>2. ~(j < j)
      OBVIOUS
    <3> QED BY <1>3, <3>1, <3>2, Zenon
  <2>2. /\ IsFiniteSet(Below(i)) /\ Cardinality(Below(i)) \in Nat /\ Cardinality(Below(j)) \in Nat
    BY <1>2
  <2> HIDE DEF Below
  <2>3. /\ Cardinality(Below(j)) <= Cardinality(Below(i))
        /\ Cardinality(Below(i)) = Cardinality(Below(j)) => Below(i) = Below(j)
    BY <2>1, <2>2, FS_Subset
  <2> QED
    BY <2>1, <2>2, <2>3
<1>4. rank \in [S -> 1..n]
  <2>1. \A i \in S : Cardinality(Below(i)) + 1 \in 1..n
    BY <1>1, <1>2
  <2> QED BY <2>1, Zenon
<1>5. \A i, j \in S : rank[i] = rank[j] => i = j
  <2>1. SUFFICES ASSUME NEW i \in S, NEW j \in S, rank[i] = rank[j] PROVE i = j
    OBVIOUS
  <2>2. Cardinality(Below(i)) = Cardinality(Below(j))
    BY <1>2, <2>1
  <2>3. Cardinality(Below(i)) \in Nat /\ Cardinality(Below(j)) \in Nat
    BY <1>2
  <2>4. ~(i < j) /\ ~(j < i)
    BY <1>3, <2>2, <2>3
  <2> QED BY <2>4
<1>6. rank \in Injection(S, 1..n)
  BY <1>4, <1>5, Zenon DEF Injection, IsInjective
<1>7. IsFiniteSet(1..n) /\ Cardinality(1..n) = n
  <2>1. 1 \in Int /\ n \in Int
    BY <1>1
  <2>2. IsFiniteSet(1..n) /\ Cardinality(1..n) = IF 1 > n THEN 0 ELSE n - 1 + 1
    BY <2>1, FS_Interval
  <2> QED BY <1>1, <2>2
<1>8. rank \in Surjection(S, 1..n)
  <2> HIDE DEF rank
  <2> QED BY <1>6, <1>7, FS_Injection
<1>9. \A k \in 1..n : \E i \in S : Cardinality(Below(i)) = k - 1
  <2>1. SUFFICES ASSUME NEW k \in 1..n PROVE \E i \in S : Cardinality(Below(i)) = k - 1
    OBVIOUS
  <2>2. PICK i \in S : rank[i] = k
    BY <1>8, Zenon DEF Surjection
  <2>3. Cardinality(Below(i)) + 1 = k
    BY <2>2
  <2> HIDE DEF Below
  <2>4. Cardinality(Below(i)) = k - 1
    BY <1>2, <2>3
  <2> QED BY <2>4
<1>10. Ascending(S) = [k \in 1..n |-> CHOOSE i \in S : Cardinality(Below(i)) = k - 1]
  BY DEF Ascending
<1>11. \A k \in 1..n : Ascending(S)[k] \in S /\ Cardinality(Below(Ascending(S)[k])) = k - 1
  <2> HIDE DEF Below
  <2> QED BY <1>9, <1>10
<1>12. Ascending(S) \in [1..n -> S]
  BY <1>10, <1>11, Zenon
<1>13. ASSUME NEW i \in S PROVE \E k \in 1..n : Ascending(S)[k] = i
  <2> DEFINE k == Cardinality(Below(i)) + 1
  <2>1. k \in 1..n /\ Cardinality(Below(i)) = k - 1
    BY <1>1, <1>2
  <2>2. Ascending(S)[k] \in S /\ Cardinality(Below(Ascending(S)[k])) = Cardinality(Below(i))
    <3> HIDE DEF Below, k
    <3> QED BY <1>11, <2>1
  <2>3. rank[Ascending(S)[k]] = rank[i]
    BY <2>2
  <2> HIDE DEF k, rank
  <2>4. Ascending(S)[k] = i
    BY <1>5, <2>2, <2>3, Zenon
  <2> QED BY <2>1, <2>4
<1> QED
  BY <1>1, <1>12, <1>13

(* Every metric with a series that is selected is listed                     *)
(* (buildMetricNameSeriesIDQuery).                                           *)
LEMMA MetricsListed ==
    ASSUME NEW r \in DOMAIN Requests
    PROVE  /\ Metrics[r] \in Seq(Seq(Nat))
           /\ \A s \in Selected[r] : \E k \in DOMAIN Metrics[r] : Metrics[r][k] = s.metric
<1> DEFINE S == {i \in DOMAIN MetricOrder : \E s \in Selected[r] : s.metric = MetricOrder[i]}
           found == Ascending(S)
<1>1. MetricOrder \in Seq(Seq(Nat)) /\ DOMAIN MetricOrder = 1..Len(MetricOrder) /\ Len(MetricOrder) \in Nat
  BY ReadPathAssumption
<1>2. S \in SUBSET Int
  BY <1>1
<1>3. IsFiniteSet(S)
  <2>1. IsFiniteSet(1..Len(MetricOrder))
    BY <1>1, FS_Interval
  <2>2. S \in SUBSET (1..Len(MetricOrder))
    BY <1>1
  <2> HIDE DEF S
  <2> QED BY <2>1, <2>2, FS_Subset, Zenon
<1>4. /\ Cardinality(S) \in Nat
      /\ found \in [1..Cardinality(S) -> S]
      /\ \A i \in S : \E k \in 1..Cardinality(S) : found[k] = i
  <2> HIDE DEF S
  <2> QED BY <1>2, <1>3, AscendingLists
<1>5. Metrics[r] = [k \in DOMAIN found |-> MetricOrder[found[k]]]
  BY Zenon DEF Metrics
<1>6. \A k \in 1..Cardinality(S) : MetricOrder[found[k]] \in Seq(Nat)
  <2>1. \A i \in S : MetricOrder[i] \in Seq(Nat)
    BY <1>1
  <2> HIDE DEF S, found
  <2> QED BY <1>4, <2>1
<1>7. Metrics[r] \in [1..Cardinality(S) -> Seq(Nat)]
  <2> HIDE DEF S, found
  <2> QED BY <1>4, <1>5, <1>6, Zenon
<1>8. Metrics[r] \in Seq(Seq(Nat))
  <2> HIDE DEF S
  <2> QED BY <1>4, <1>7, FunctionIsSeq, Zenon
<1>9. ASSUME NEW s \in Selected[r] PROVE \E k \in DOMAIN Metrics[r] : Metrics[r][k] = s.metric
  <2>1. s \in Series
    BY Zenon DEF Selected
  <2>2. PICK i \in DOMAIN MetricOrder : MetricOrder[i] = s.metric
    BY <2>1, ReadPathAssumption, Zenon
  <2>3. i \in S
    BY <2>2
  <2> HIDE DEF S, found
  <2>4. PICK k \in 1..Cardinality(S) : found[k] = i
    BY <1>4, <2>3
  <2>5. k \in DOMAIN found
    BY <1>4
  <2> QED BY <1>5, <2>2, <2>4, <2>5
<1> QED
  BY <1>8, <1>9

(* A query for one metric: every series that is selected is of the metric    *)
(* that the only matcher for the name equals.                                *)
LEMMA NamedMetric ==
    ASSUME NEW r \in DOMAIN Requests
    PROVE  /\ Plan[r].metric \in Seq(Nat)
           /\ Plan[r].metric # <<>> => \A s \in Selected[r] : s.metric = Plan[r].metric
<1> DEFINE ms == Requests[r].matchers
           named == NameMatchers(ms)
<1>0. ms \in Seq(Matchers)
  BY ReadPathAssumption
<1>1. Plan[r] = buildSubQueries(ms)
  BY DEF Plan
<1>2. Plan[r].metric = IF \E i \in named : named = {i} THEN ms[CHOOSE i \in named : TRUE].value ELSE <<>>
  BY <1>1 DEF buildSubQueries
<1>3. CASE ~\E i \in named : named = {i}
  <2> HIDE DEF named, ms
  <2>1. Plan[r].metric = <<>>
    BY <1>2, <1>3
  <2> QED BY <2>1
<1>4. CASE \E i \in named : named = {i}
  <2>1. PICK i \in named : named = {i}
    BY <1>4
  <2>2. (CHOOSE k \in named : TRUE) = i
    BY <2>1
  <2>3. Plan[r].metric = ms[i].value
    BY <1>2, <1>4, <2>2
  <2>4. i \in DOMAIN ms /\ ms[i].type = "EQ" /\ ms[i].name = MetricNameLabel
    BY <2>1 DEF NameMatchers
  <2>5. ms[i] \in Matchers
    BY <1>0, <2>4
  <2>6. ms[i].value \in Seq(Nat)
    BY <2>5 DEF Matchers
  <2>7. ASSUME NEW s \in Selected[r], ms[i].value # <<>> PROVE s.metric = ms[i].value
    <3>1. s \in Series /\ Where(buildSubQueries(ms), s.labels)
      BY <1>1, Zenon DEF Selected
    <3>2. Functional(s.labels) /\ <<MetricNameLabel, s.metric>> \in s.labels
      BY <3>1, ReadPathAssumption, Zenon DEF Functional
    <3> HIDE DEF ms
    <3>3. Picks(ms[i], s.labels)
      BY <1>0, <2>4, <3>1, WhereIsPicks
    <3>4. Matches(ms[i], ValueOf(s.labels, ms[i].name))
      BY <2>4, <2>5, <3>2, <3>3, PicksByValue
    <3>5. ValueOf(s.labels, MetricNameLabel) = ms[i].value
      BY <2>4, <3>4 DEF Matches
    <3>6. ValueOf(s.labels, MetricNameLabel) = s.metric
      <4> DEFINE named_ == <<MetricNameLabel, s.metric>>
      <4>1. named_ \in s.labels /\ named_[1] = MetricNameLabel /\ named_[2] = s.metric
        BY <3>2
      <4> HIDE DEF named_
      <4>2. \A l \in s.labels : l[1] = MetricNameLabel => l = named_
        BY <3>2, <4>1 DEF Functional
      <4> QED BY <4>1, <4>2 DEF ValueOf
    <3> QED BY <3>5, <3>6
  <2> HIDE DEF ms
  <2> QED BY <2>3, <2>6, <2>7
<1> QED
  BY <1>3, <1>4

-----------------------------------------------------------------------------
(* The invariant.                                                            *)

Parts ==
    [labels : SUBSET (Seq(Nat) \X Seq(Nat)), times : SUBSET Int]
      \cup UNION {Listed(r) : r \in {k \in DOMAIN Requests : Requests[k].api \in Lists}}
RowSet == [left : SUBSET Series, open : BOOLEAN]
Stages == {"idle", "list", "catalog", "table", "open", "next", "row", "ok", "failed"}
QueryStates ==
    [pc : Stages, req : DOMAIN Requests \cup {0}, todo : Seq(Seq(Nat)), rows : Seq(RowSet), at : Nat \ {0},
     row : Series \cup {NoSeries}, got : SUBSET Parts,
     err : BOOLEAN, nil : BOOLEAN, cut : BOOLEAN]

(* Where the parts of a query's state stand at every stage. *)
Staged(Q) ==
    /\ Q \in QueryStates
    /\ Q.pc # "idle" => Q.req \in DOMAIN Requests
    /\ Q.pc = "list" => Requests[Q.req].api \in Lists
    /\ Q.pc \in {"catalog", "table", "open", "next", "row"} => Requests[Q.req].api \notin Lists
    /\ Q.pc \in {"idle", "list", "catalog"} => Q.rows = <<>> /\ Q.got = {} /\ ~Q.err /\ ~Q.nil /\ ~Q.cut
    /\ Q.pc \in {"table", "open"} => Q.todo # <<>>
    /\ Q.pc = "open" => Head(Q.todo) \in Tables
    /\ Q.pc \in {"idle", "list", "catalog", "table", "open"} => Q.at = 1
    /\ Q.pc \in {"list", "next", "row", "ok"} => Q.todo = <<>>
    /\ Q.pc = "row" => Q.at <= Len(Q.rows) /\ Q.row \in Wanted(Q.req)
    /\ \A i \in DOMAIN Q.rows : Q.rows[i].left \subseteq Wanted(Q.req)
    /\ Q.pc = "ok" => ~Q.err /\ ~Q.nil

(* Rows that are not at their end hold their connection, the others do not.  *)
RowsOpen(Q) ==
    /\ Q.pc \notin {"ok", "failed"} => OpenRows(Q) = {i \in DOMAIN Q.rows : Q.at <= i}
    /\ Q.pc = "ok" => OpenRows(Q) = {}
    /\ Q.pc = "failed" /\ Requests[Q.req].api = "read" /\ Q.todo = <<>> => OpenRows(Q) = {}

(* What is wanted has been read, is being read, or will be.  That holds as   *)
(* long as no error was met; what has been read is wanted in any case.       *)
ToCome(Q, s) ==
    \/ Q.pc = "row" /\ s = Q.row
    \/ \E i \in DOMAIN Q.rows : Q.at <= i /\ s \in Q.rows[i].left
    \/ \E k \in DOMAIN Q.todo : Q.todo[k] = s.metric
Accounts(Q) ==
    /\ Q.pc \in {"table", "open", "next", "row"} /\ ~Q.cut =>
          /\ Q.got \subseteq Result(Q.req)
          /\ ~Q.err /\ ~Q.nil => \A s \in Wanted(Q.req) : Record(Q.req, s) \in Q.got \/ ToCome(Q, s)
    /\ Q.pc = "ok" /\ ~Q.cut => Q.got = Result(Q.req)

(* The inductive invariant. *)
ReadInv ==
    /\ query \in [Queries -> QueryStates]
    /\ tableCache \subseteq Tables
    /\ \A q \in Queries : Staged(query[q]) /\ RowsOpen(query[q]) /\ Accounts(query[q])

(* A label is cached under its own id. *)
CacheInv == \A id \in DOMAIN labelCache : labelCache[id] = id

(* The connections, counted. *)
PoolInv ==
    /\ free \in Nat
    /\ IsFiniteSet(HeldConns)
    /\ free + Cardinality(HeldConns) = MaxConns

-----------------------------------------------------------------------------
(* The parts of the states that the steps make.                              *)

(* Rows with some parts changed are rows. *)
LEMMA RowsChanged ==
    ASSUME NEW rows \in Seq(RowSet), NEW f \in [DOMAIN rows -> RowSet]
    PROVE  f \in Seq(RowSet) /\ Len(f) = Len(rows)
<1>1. Len(rows) \in Nat /\ DOMAIN rows = 1..Len(rows)
  OBVIOUS
<1>2. f \in [1..Len(rows) -> RowSet]
  BY <1>1, Zenon
<1> QED
  BY <1>1, <1>2, FunctionIsSeq

LEMMA RowsReplaced ==
    ASSUME NEW Q \in QueryStates, NEW rows \in Seq(RowSet), NEW C, C = [Q EXCEPT !.rows = rows]
    PROVE  /\ C \in QueryStates
           /\ C.pc = Q.pc /\ C.req = Q.req /\ C.todo = Q.todo /\ C.at = Q.at /\ C.row = Q.row
           /\ C.got = Q.got /\ C.err = Q.err /\ C.nil = Q.nil /\ C.cut = Q.cut /\ C.rows = rows
<1>1. C \in QueryStates
  BY Zenon DEF QueryStates
<1>2. /\ C.pc = Q.pc /\ C.req = Q.req /\ C.todo = Q.todo /\ C.at = Q.at /\ C.row = Q.row
      /\ C.got = Q.got /\ C.err = Q.err /\ C.nil = Q.nil /\ C.cut = Q.cut /\ C.rows = rows
  BY Zenon DEF QueryStates
<1> QED
  BY <1>1, <1>2

LEMMA FailedParts ==
    ASSUME NEW Q \in QueryStates
    PROVE  /\ Failed(Q) \in QueryStates
           /\ Failed(Q).pc = "failed" /\ Failed(Q).req = Q.req /\ Failed(Q).todo = Q.todo
           /\ ~Failed(Q).cut
           /\ DOMAIN Failed(Q).rows = DOMAIN Q.rows
           /\ \A i \in DOMAIN Q.rows : Failed(Q).rows[i].left = {} /\ Failed(Q).rows[i].open = Q.rows[i].open
           /\ OpenRows(Failed(Q)) = OpenRows(Q)
<1> DEFINE rows == [i \in DOMAIN Q.rows |-> [Q.rows[i] EXCEPT !.left = {}]]
<1>1. Q.rows \in Seq(RowSet) /\ \A i \in DOMAIN Q.rows : Q.rows[i] \in RowSet
  BY DEF QueryStates
<1>2. \A i \in DOMAIN Q.rows : rows[i] \in RowSet /\ rows[i].left = {} /\ rows[i].open = Q.rows[i].open
  BY <1>1 DEF RowSet
<1>3. rows \in Seq(RowSet)
  <2>1. rows \in [DOMAIN Q.rows -> RowSet]
    BY <1>2, Zenon
  <2> HIDE DEF rows
  <2> QED
    BY <1>1, <2>1, RowsChanged
<1>4. /\ Failed(Q).pc = "failed" /\ Failed(Q).req = Q.req /\ Failed(Q).todo = Q.todo
      /\ Failed(Q).rows = rows /\ ~Failed(Q).cut
  BY DEF Failed, QueryStates
<1>5. Failed(Q) \in QueryStates
  <2>1. Failed(Q) = [Q EXCEPT !.pc = "failed", !.row = NoSeries, !.got = {}, !.err = FALSE, !.nil = FALSE,
                             !.cut = FALSE, !.rows = rows]
    BY DEF Failed
  <2> HIDE DEF rows
  <2> QED
    <3>1. "failed" \in Stages
      BY DEF Stages
    <3> QED BY <1>3, <2>1, <3>1, Zenon DEF QueryStates
<1> HIDE DEF rows
<1>6. DOMAIN rows = DOMAIN Q.rows
  BY DEF rows
<1>7. OpenRows(Failed(Q)) = OpenRows(Q)
  BY <1>2, <1>4, <1>6 DEF OpenRows
<1> QED
  BY <1>2, <1>4, <1>5, <1>6, <1>7

LEMMA CloseAllParts ==
    ASSUME NEW Q \in QueryStates
    PROVE  /\ CloseAll(Q) \in QueryStates
           /\ CloseAll(Q).pc = Q.pc /\ CloseAll(Q).req = Q.req /\ CloseAll(Q).todo = Q.todo
           /\ CloseAll(Q).got = Q.got /\ CloseAll(Q).at = Q.at /\ CloseAll(Q).row = Q.row
           /\ CloseAll(Q).cut = Q.cut /\ CloseAll(Q).err = Q.err /\ CloseAll(Q).nil = Q.nil
           /\ DOMAIN CloseAll(Q).rows = DOMAIN Q.rows
           /\ \A i \in DOMAIN Q.rows : CloseAll(Q).rows[i].left = Q.rows[i].left
           /\ OpenRows(CloseAll(Q)) = {}
<1> DEFINE rows == [i \in DOMAIN Q.rows |-> [Q.rows[i] EXCEPT !.open = FALSE]]
<1>1. Q.rows \in Seq(RowSet) /\ \A i \in DOMAIN Q.rows : Q.rows[i] \in RowSet
  BY DEF QueryStates
<1>2. \A i \in DOMAIN Q.rows : rows[i] \in RowSet /\ rows[i].left = Q.rows[i].left /\ ~rows[i].open
  <2>1. ASSUME NEW R \in RowSet
        PROVE  LET X == [R EXCEPT !.open = FALSE] IN X \in RowSet /\ X.left = R.left /\ ~X.open
    BY Zenon DEF RowSet
  <2> QED BY <1>1, <2>1, Zenon
<1>3. rows \in Seq(RowSet)
  <2>1. rows \in [DOMAIN Q.rows -> RowSet]
    BY <1>2, Zenon
  <2> HIDE DEF rows
  <2> QED
    BY <1>1, <2>1, RowsChanged
<1>4. CloseAll(Q) = [Q EXCEPT !.rows = rows]
  BY DEF CloseAll
<1>5. DOMAIN rows = DOMAIN Q.rows
  OBVIOUS
<1> HIDE DEF rows
<1>6. /\ CloseAll(Q) \in QueryStates
      /\ CloseAll(Q).pc = Q.pc /\ CloseAll(Q).req = Q.req /\ CloseAll(Q).todo = Q.todo
      /\ CloseAll(Q).got = Q.got /\ CloseAll(Q).at = Q.at /\ CloseAll(Q).row = Q.row
      /\ CloseAll(Q).cut = Q.cut /\ CloseAll(Q).err = Q.err /\ CloseAll(Q).nil = Q.nil
      /\ CloseAll(Q).rows = rows
  BY <1>3, <1>4, RowsReplaced
<1>7. OpenRows(CloseAll(Q)) = {}
  BY <1>2, <1>5, <1>6 DEF OpenRows
<1> QED
  BY <1>2, <1>5, <1>6, <1>7

(* A query that fails is as the invariant says, whether it closes its rows   *)
(* or must not be a read with rows to close.                                 *)
Good(Q) == Staged(Q) /\ RowsOpen(Q) /\ Accounts(Q)

LEMMA FailedIsGood ==
    ASSUME NEW Q \in QueryStates, Q.req \in DOMAIN Requests
    PROVE  /\ Requests[Q.req].api # "read" \/ Q.todo # <<>> \/ OpenRows(Q) = {} => Good(Failed(Q))
           /\ Good(CloseAll(Failed(Q)))
<1> DEFINE F == Failed(Q)
           C == CloseAll(F)
<1>1. /\ F \in QueryStates /\ F.pc = "failed" /\ F.req = Q.req /\ F.todo = Q.todo /\ ~F.cut
      /\ \A i \in DOMAIN F.rows : F.rows[i].left = {}
      /\ OpenRows(F) = OpenRows(Q)
  BY FailedParts
<1> HIDE DEF F
<1>2. /\ C \in QueryStates /\ C.pc = "failed" /\ C.req = Q.req /\ ~C.cut
      /\ \A i \in DOMAIN C.rows : C.rows[i].left = {}
      /\ OpenRows(C) = {}
  BY <1>1, CloseAllParts
<1> HIDE DEF C
<1>3. Staged(F) /\ Staged(C)
  BY <1>1, <1>2 DEF Staged
<1>4. RowsOpen(C) /\ Accounts(C) /\ Accounts(F)
  BY <1>1, <1>2 DEF RowsOpen, Accounts
<1>5. Requests[Q.req].api # "read" \/ Q.todo # <<>> \/ OpenRows(Q) = {} => RowsOpen(F)
  BY <1>1 DEF RowsOpen
<1> QED
  BY <1>3, <1>4, <1>5 DEF Good, F, C

-----------------------------------------------------------------------------
(* The steps of a query.                                                     *)

(* The rows of the metrics are being opened, and nothing is missed unless an *)
(* error was met.                                                            *)
Opened(X) ==
    /\ X \in QueryStates
    /\ X.req \in DOMAIN Requests /\ Requests[X.req].api \notin Lists /\ X.at = 1
    /\ \A i \in DOMAIN X.rows : X.rows[i].open /\ X.rows[i].left \subseteq Wanted(X.req)
Opening(X) ==
    /\ Opened(X)
    /\ ~X.cut => X.got \subseteq Result(X.req)
    /\ ~X.cut /\ ~X.err /\ ~X.nil =>
          \A s \in Wanted(X.req) : \/ Record(X.req, s) \in X.got
                                   \/ \E i \in DOMAIN X.rows : s \in X.rows[i].left
                                   \/ \E k \in DOMAIN X.todo : X.todo[k] = s.metric

LEMMA AdvanceIsGood ==
    ASSUME NEW X, Opened(X)
    PROVE  /\ Staged(Advance(X)) /\ RowsOpen(Advance(X))
           /\ Opening(X) => Good(Advance(X))
           /\ Advance(X).pc \in {"next", "table"} /\ OpenRows(Advance(X)) = OpenRows(X)
<1> DEFINE Y == Advance(X)
           pc == IF X.todo = <<>> THEN "next" ELSE "table"
<1>1. X \in QueryStates
  BY DEF Opened
<1>2. pc \in {"next", "table"} /\ pc \in Stages
  BY DEF Stages
<1>3. Y = [X EXCEPT !.pc = pc]
  BY DEF Advance
<1>4. /\ Y.pc = pc /\ Y.req = X.req /\ Y.todo = X.todo /\ Y.at = X.at /\ Y.row = X.row
      /\ Y.got = X.got /\ Y.err = X.err /\ Y.nil = X.nil /\ Y.cut = X.cut /\ Y.rows = X.rows
  <2> HIDE DEF pc, Y
  <2> QED BY <1>1, <1>3, Zenon DEF QueryStates
<1>5. Y \in QueryStates
  <2> HIDE DEF pc, Y
  <2> QED BY <1>1, <1>2, <1>3, Zenon DEF QueryStates
<1>6. \A i \in DOMAIN X.rows : 1 <= i
  <2>1. X.rows \in Seq(RowSet)
    BY <1>1, Zenon DEF QueryStates
  <2> QED BY <2>1
<1> HIDE DEF Y
<1>7. Staged(Y)
  BY <1>2, <1>4, <1>5 DEF Staged, Opened
<1>8. RowsOpen(Y)
  <2>1. OpenRows(Y) = DOMAIN Y.rows
    BY <1>4 DEF OpenRows, Opened
  <2>2. {i \in DOMAIN Y.rows : Y.at <= i} = DOMAIN Y.rows
    BY <1>4, <1>6 DEF Opened
  <2> QED
    BY <1>2, <1>4, <2>1, <2>2 DEF RowsOpen
<1>9. ASSUME Opening(X) PROVE Accounts(Y)
  <2>1. ~Y.cut => Y.got \subseteq Result(Y.req)
    BY <1>4, <1>9 DEF Opening
  <2>2. ASSUME ~Y.cut, ~Y.err, ~Y.nil, NEW s \in Wanted(Y.req)
        PROVE  Record(Y.req, s) \in Y.got \/ ToCome(Y, s)
    BY <1>4, <1>6, <1>9, <2>2 DEF Opening, Opened, ToCome
  <2> QED
    BY <1>2, <1>4, <2>1, <2>2 DEF Accounts
<1>10. OpenRows(Y) = OpenRows(X)
  BY <1>4 DEF OpenRows
<1> QED
  BY <1>2, <1>4, <1>7, <1>8, <1>9, <1>10 DEF Good, Y

(* A result that ends early no longer has to be complete. *)
LEMMA CutIsGood ==
    ASSUME NEW Q, Staged(Q), RowsOpen(Q), Q.pc \in {"table", "open", "next", "row", "ok"}
    PROVE  Good(CutShort(Q)) /\ OpenRows(CutShort(Q)) = OpenRows(Q)
<1> DEFINE Y == CutShort(Q)
<1>1. Q \in QueryStates
  BY DEF Staged
<1>2. /\ Y.pc = Q.pc /\ Y.req = Q.req /\ Y.todo = Q.todo /\ Y.at = Q.at /\ Y.row = Q.row
      /\ Y.got = Q.got /\ Y.err = Q.err /\ Y.nil = Q.nil /\ Y.cut = TRUE /\ Y.rows = Q.rows
  BY <1>1, Zenon DEF CutShort, QueryStates
<1>3. Y \in QueryStates
  BY <1>1, Zenon DEF CutShort, QueryStates
<1> HIDE DEF Y
<1>4. OpenRows(Y) = OpenRows(Q)
  BY <1>2 DEF OpenRows
<1>5. Staged(Y) /\ RowsOpen(Y) /\ Accounts(Y)
  BY <1>2, <1>3, <1>4 DEF Staged, RowsOpen, Accounts
<1> QED
  BY <1>4, <1>5 DEF Good, Y

LEMMA IdleIsGood == Good(Idle) /\ OpenRows(Idle) = {} /\ Idle \in QueryStates
<1>1. Idle \in QueryStates
  <2>1. "idle" \in Stages /\ <<>> \in Seq(Seq(Nat)) /\ <<>> \in Seq(RowSet) /\ 1 \in Nat \ {0}
    BY DEF Stages
  <2> QED
    BY <2>1, Zenon DEF Idle, QueryStates
<1>2. /\ Idle.pc = "idle" /\ Idle.rows = <<>> /\ Idle.got = {} /\ ~Idle.err /\ ~Idle.nil /\ ~Idle.cut
      /\ Idle.at = 1 /\ Idle.todo = <<>>
  BY DEF Idle
<1>3. DOMAIN Idle.rows = {}
  BY <1>2
<1>4. OpenRows(Idle) = {}
  BY <1>3 DEF OpenRows
<1>5. Staged(Idle)
  BY <1>1, <1>2, <1>3 DEF Staged
<1>6. RowsOpen(Idle) /\ Accounts(Idle)
  BY <1>2, <1>3, <1>4 DEF RowsOpen, Accounts
<1> QED
  BY <1>1, <1>4, <1>5, <1>6 DEF Good

(* What is wanted is selected. *)
LEMMA WantedSelected ==
    ASSUME NEW r \in DOMAIN Requests
    PROVE  /\ Wanted(r) \subseteq Selected[r] /\ Wanted(r) \subseteq Series
           /\ \A s \in Wanted(r) : s.metric \in Tables
<1> QED
  BY Zenon DEF Wanted, RowsOf, Selected

LEMMA BegunIsGood ==
    ASSUME NEW r \in DOMAIN Requests
    PROVE  Good(Begun(r, Plan[r])) /\ OpenRows(Begun(r, Plan[r])) = {}
<1> DEFINE Q == [Idle EXCEPT !.req = r]
           b == Plan[r]
<1>1. Idle \in QueryStates
  BY IdleIsGood
<1>2. Q \in QueryStates
  BY <1>1, Zenon DEF QueryStates
<1>3. /\ Q.pc = "idle" /\ Q.req = r /\ Q.todo = <<>> /\ Q.rows = <<>> /\ Q.at = 1 /\ Q.got = {}
      /\ Q.err = FALSE /\ Q.nil = FALSE /\ Q.cut = FALSE
  BY DEF Idle
<1>4. Begun(r, b) = IF Requests[r].api \in Lists THEN [Q EXCEPT !.pc = "list"]
                    ELSE IF b.err THEN Failed(Q)
                    ELSE IF b.metric # <<>> THEN Advance([Q EXCEPT !.todo = <<b.metric>>])
                    ELSE [Q EXCEPT !.pc = "catalog"]
  BY Zenon DEF Begun
<1>5. DOMAIN Q.rows = {} /\ OpenRows(Q) = {}
  BY <1>3 DEF OpenRows
<1> HIDE DEF Q, b
<1>6. ASSUME NEW pc \in {"list", "catalog"}, pc = "list" <=> Requests[r].api \in Lists
      PROVE  Good([Q EXCEPT !.pc = pc]) /\ OpenRows([Q EXCEPT !.pc = pc]) = {}
  <2> DEFINE Y == [Q EXCEPT !.pc = pc]
  <2>1. pc \in Stages
    BY DEF Stages
  <2>2. Y \in QueryStates
    BY <1>2, <2>1, Zenon DEF QueryStates
  <2>3. /\ Y.pc = pc /\ Y.req = r /\ Y.todo = <<>> /\ Y.rows = <<>> /\ Y.at = 1 /\ Y.got = {}
        /\ Y.err = FALSE /\ Y.nil = FALSE /\ Y.cut = FALSE
    BY <1>2, <1>3, Zenon DEF QueryStates
  <2> HIDE DEF Y
  <2>4. DOMAIN Y.rows = {} /\ OpenRows(Y) = {}
    BY <2>3 DEF OpenRows
  <2>5. Staged(Y) /\ RowsOpen(Y) /\ Accounts(Y)
    BY <1>6, <2>2, <2>3, <2>4 DEF Staged, RowsOpen, Accounts
  <2> QED
    BY <2>4, <2>5 DEF Good, Y
<1>7. CASE Requests[r].api \in Lists
  <2>1. Good([Q EXCEPT !.pc = "list"]) /\ OpenRows([Q EXCEPT !.pc = "list"]) = {}
    BY <1>6, <1>7
  <2> QED
    BY <1>4, <1>7, <2>1 DEF b
<1>8. CASE Requests[r].api \notin Lists /\ b.err
  <2>1. Good(Failed(Q)) /\ OpenRows(Failed(Q)) = {}
    BY <1>2, <1>3, <1>5, FailedIsGood, FailedParts
  <2> QED
    BY <1>4, <1>8, <2>1 DEF b
<1>9. CASE Requests[r].api \notin Lists /\ ~b.err /\ b.metric # <<>>
  <2> DEFINE X == [Q EXCEPT !.todo = <<b.metric>>]
             Y == Advance(X)
  <2>1. b.metric \in Seq(Nat) /\ \A s \in Selected[r] : s.metric = b.metric
    BY <1>9, NamedMetric DEF b
  <2>2. <<b.metric>> \in Seq(Seq(Nat)) /\ <<b.metric>> # <<>> /\ 1 \in DOMAIN <<b.metric>> /\ <<b.metric>>[1] = b.metric
    BY <2>1
  <2>3. X \in QueryStates
    BY <1>2, <2>2, Zenon DEF QueryStates
  <2>4. /\ X.req = r /\ X.todo = <<b.metric>> /\ X.rows = <<>> /\ X.at = 1 /\ X.got = {}
        /\ X.err = FALSE /\ X.nil = FALSE /\ X.cut = FALSE
    BY <1>2, <1>3, Zenon DEF QueryStates
  <2>5. Begun(r, b) = Y
    BY <1>4, <1>9
  <2> HIDE DEF X
  <2>6. DOMAIN X.rows = {} /\ OpenRows(X) = {}
    BY <2>4 DEF OpenRows
  <2>7. Opening(X)
    BY <1>9, <2>1, <2>2, <2>3, <2>4, <2>6, WantedSelected DEF Opened, Opening
  <2>8. Good(Y) /\ OpenRows(Y) = {}
    BY <2>6, <2>7, AdvanceIsGood DEF Opening
  <2> QED
    BY <2>5, <2>8 DEF b
<1>10. CASE Requests[r].api \notin Lists /\ ~b.err /\ b.metric = <<>>
  <2>1. Good([Q EXCEPT !.pc = "catalog"]) /\ OpenRows([Q EXCEPT !.pc = "catalog"]) = {}
    BY <1>6, <1>10
  <2> QED
    BY <1>4, <1>10, <2>1 DEF b
<1> QED
  BY <1>7, <1>8, <1>9, <1>10 DEF b

(* A step of a query: its new state is as the invariant says, and it takes a *)
(* connection for rows it opens, or returns those of the rows it closes.     *)
Moves(q, R) ==
    /\ query' = [query EXCEPT ![q] = R]
    /\ R \in QueryStates
    /\ Good(R)
    /\ tableCache' \subseteq Tables
    /\ \/ free' = free /\ OpenRows(R) = OpenRows(query[q])
       \/ /\ free > 0 /\ free' = free - 1
          /\ \E k : k \notin OpenRows(query[q]) /\ OpenRows(R) = OpenRows(query[q]) \cup {k}
       \/ \E C \in SUBSET OpenRows(query[q]) : /\ OpenRows(R) = OpenRows(query[q]) \ C
                                               /\ free' = free + Cardinality(C)

LEMMA KeepsMoves ==
    ASSUME NEW q, NEW R, Good(R), Keeps(q, R), tableCache' \subseteq Tables,
           OpenRows(R) = OpenRows(query[q])
    PROVE  Moves(q, R)
<1>1. R \in QueryStates
  BY DEF Good, Staged
<1> QED
  BY <1>1 DEF Moves, Keeps

(* A failure without or with its rows closed. *)
LEMMA FailsMoves ==
    ASSUME NEW q \in Queries, ReadInv, query[q].pc # "idle", tableCache' \subseteq Tables
    PROVE  /\ Keeps(q, Failed(query[q])) /\ (Requests[query[q].req].api # "read" \/ query[q].todo # <<>>
                                             \/ OpenRows(query[q]) = {})
                  => Moves(q, Failed(query[q]))
           /\ Closes(q, Failed(query[q])) => Moves(q, CloseAll(Failed(query[q])))
<1> DEFINE Q == query[q]
           C == CloseAll(Failed(Q))
<1>1. Q \in QueryStates /\ Good(Q) /\ Q.req \in DOMAIN Requests
  BY DEF ReadInv, Staged, Good
<1>2. OpenRows(Failed(Q)) = OpenRows(Q) /\ Failed(Q) \in QueryStates
  BY <1>1, FailedParts
<1>3. Requests[Q.req].api # "read" \/ Q.todo # <<>> \/ OpenRows(Q) = {} => Good(Failed(Q))
  BY <1>1, FailedIsGood
<1>4. Good(C) /\ C \in QueryStates /\ OpenRows(C) = {}
  BY <1>1, <1>2, FailedIsGood, CloseAllParts
<1>5. Closes(q, Failed(Q)) => query' = [query EXCEPT ![q] = C] /\ free' = free + Cardinality(OpenRows(Q))
  BY <1>2 DEF Closes
<1> HIDE DEF C
<1>6. OpenRows(Q) \in SUBSET OpenRows(Q) /\ OpenRows(C) = OpenRows(Q) \ OpenRows(Q)
  BY <1>4
<1>7. Closes(q, Failed(Q)) => Moves(q, C)
  BY <1>4, <1>5, <1>6 DEF Moves
<1> QED
  BY <1>2, <1>3, <1>7, KeepsMoves DEF C

LEMMA BeginMoves ==
    ASSUME NEW q \in Queries, ReadInv, Begin(q)
    PROVE  \E R : Moves(q, R)
<1>1. PICK r \in Asks[q] : query' = [query EXCEPT ![q] = Begun(r, Plan[r])]
  BY Zenon DEF Begin
<1>2. r \in DOMAIN Requests
  BY <1>1, ReadPathAssumption
<1>3. query[q] \in QueryStates /\ query[q].pc = "idle" /\ query[q].rows = <<>> /\ Good(query[q])
  BY DEF ReadInv, Staged, Begin, Good
<1>4. OpenRows(query[q]) = {}
  BY <1>3 DEF OpenRows
<1>5. Good(Begun(r, Plan[r])) /\ OpenRows(Begun(r, Plan[r])) = {}
  BY <1>2, BegunIsGood
<1>6. Keeps(q, Begun(r, Plan[r])) /\ tableCache' \subseteq Tables
  BY <1>1, Zenon DEF Keeps, Begin, ReadInv
<1> QED
  BY <1>4, <1>5, <1>6, KeepsMoves

LEMMA CatalogMoves ==
    ASSUME NEW q \in Queries, ReadInv, Catalog(q)
    PROVE  \E R : Moves(q, R)
<1> DEFINE Q == query[q]
           all == Metrics[Q.req]
           X(todo) == [Q EXCEPT !.todo = todo]
<1>1. /\ Q \in QueryStates /\ Q.pc = "catalog" /\ Good(Q) /\ Q.req \in DOMAIN Requests
      /\ Requests[Q.req].api \notin Lists
      /\ Q.rows = <<>> /\ Q.got = {} /\ ~Q.err /\ ~Q.nil /\ ~Q.cut /\ Q.at = 1
      /\ tableCache' \subseteq Tables
  BY DEF ReadInv, Staged, Catalog, Good
<1>2. DOMAIN Q.rows = {} /\ OpenRows(Q) = {}
  BY <1>1 DEF OpenRows
<1>3. all \in Seq(Seq(Nat)) /\ \A s \in Selected[Q.req] : \E k \in DOMAIN all : all[k] = s.metric
  BY <1>1, MetricsListed
<1>4. ASSUME NEW todo \in Seq(Seq(Nat))
      PROVE  /\ X(todo) \in QueryStates
             /\ X(todo).req = Q.req /\ X(todo).todo = todo /\ X(todo).rows = Q.rows /\ X(todo).at = Q.at
             /\ X(todo).got = Q.got /\ X(todo).err = Q.err /\ X(todo).nil = Q.nil /\ X(todo).cut = Q.cut
  BY <1>1, Zenon DEF QueryStates
<1>5. CASE Keeps(q, Advance(X(all)))
  <2> HIDE DEF X
  <2>1. Opening(X(all))
    <3> DEFINE Y == X(all)
    <3>1. /\ Y \in QueryStates /\ Y.req = Q.req /\ Y.todo = all /\ Y.rows = Q.rows /\ Y.at = Q.at
          /\ Y.got = Q.got /\ Y.err = Q.err /\ Y.nil = Q.nil /\ Y.cut = Q.cut
      BY <1>3, <1>4, Zenon
    <3>2. \A s \in Wanted(Q.req) : \E k \in DOMAIN all : all[k] = s.metric
      BY <1>1, <1>3, WantedSelected, Zenon
    <3> HIDE DEF Y, Q, all
    <3>3. Opened(Y)
      BY <1>1, <1>2, <3>1, Zenon DEF Opened
    <3>4. Y.got \subseteq Result(Y.req)
      BY <1>1, <3>1
    <3>5. Opening(Y)
      BY <3>1, <3>2, <3>3, <3>4, Zenon DEF Opening
    <3> QED BY <3>5 DEF Y
  <2>2. OpenRows(X(all)) = {}
    BY <1>2, <1>3, <1>4 DEF OpenRows
  <2>3. Good(Advance(X(all))) /\ OpenRows(Advance(X(all))) = {}
    BY <2>1, <2>2, AdvanceIsGood DEF Opening
  <2>4. Moves(q, Advance(X(all)))
    <3>1. OpenRows(Advance(X(all))) = OpenRows(query[q])
      BY <1>2, <2>3
    <3> QED BY <1>1, <1>5, <2>3, <3>1, KeepsMoves, Zenon
  <2> QED BY <2>4
<1>6. ASSUME NEW n \in 0..Len(all), Keeps(q, CutShort(Advance(X(SubSeq(all, 1, n)))))
      PROVE  \E R : Moves(q, R)
  <2> DEFINE part == SubSeq(all, 1, n)
  <2>1. part \in Seq(Seq(Nat))
    BY <1>3
  <2> HIDE DEF X, part
  <2>2. Opened(X(part)) /\ OpenRows(X(part)) = {}
    BY <1>1, <1>2, <1>4, <2>1 DEF Opened, OpenRows
  <2>3. Good(CutShort(Advance(X(part)))) /\ OpenRows(CutShort(Advance(X(part)))) = {}
    BY <2>2, AdvanceIsGood, CutIsGood
  <2>4. Moves(q, CutShort(Advance(X(part))))
    BY <1>1, <1>2, <1>6, <2>3, KeepsMoves DEF part
  <2> QED BY <2>4
<1>7. CASE Keeps(q, Failed(Q))
  <2>1. Moves(q, Failed(Q))
    BY <1>1, <1>2, <1>7, FailsMoves
  <2> QED BY <2>1
<1> QED
  BY <1>5, <1>6, <1>7, Zenon DEF Catalog

LEMMA GoodIsOpening ==
    ASSUME NEW Q, Good(Q), Q.pc \in {"table", "open"}
    PROVE  Opening(Q)
<1>1. Q \in QueryStates /\ Q.at = 1 /\ Q.req \in DOMAIN Requests /\ Requests[Q.req].api \notin Lists
  BY DEF Good, Staged
<1>2. Q.rows \in Seq(RowSet)
  BY <1>1, Zenon DEF QueryStates
<1>3. \A i \in DOMAIN Q.rows : Q.at <= i
  BY <1>1, <1>2
<1>4. \A i \in DOMAIN Q.rows : Q.rows[i].open /\ Q.rows[i].left \subseteq Wanted(Q.req)
  BY <1>3 DEF Good, Staged, RowsOpen, OpenRows
<1>5. Opened(Q)
  BY <1>1, <1>4 DEF Opened
<1> QED
  BY <1>5 DEF Opening, Good, Accounts, ToCome

(* The first metric is dealt with: the others are still to come. *)
LEMMA TailLeaves ==
    ASSUME NEW todo \in Seq(Seq(Nat)), todo # <<>>
    PROVE  /\ Tail(todo) \in Seq(Seq(Nat))
           /\ \A k \in DOMAIN todo : todo[k] # Head(todo) => \E j \in DOMAIN Tail(todo) : Tail(todo)[j] = todo[k]
<1>1. Tail(todo) \in Seq(Seq(Nat)) /\ Len(Tail(todo)) = Len(todo) - 1
  OBVIOUS
<1>2. ASSUME NEW k \in DOMAIN todo, todo[k] # Head(todo)
      PROVE  \E j \in DOMAIN Tail(todo) : Tail(todo)[j] = todo[k]
  <2>1. k \in 2..Len(todo)
    BY <1>2
  <2>2. k - 1 \in DOMAIN Tail(todo) /\ Tail(todo)[k - 1] = todo[k]
    BY <1>1, <2>1
  <2> QED BY <2>2
<1> QED
  BY <1>1, <1>2

LEMMA TableNameMoves ==
    ASSUME NEW q \in Queries, ReadInv, TableName(q)
    PROVE  \E R : Moves(q, R)
<1> DEFINE Q == query[q]
           m == Head(Q.todo)
           X == [Q EXCEPT !.todo = Tail(@)]
           K == [Q EXCEPT !.pc = "open"]
<1>1. /\ Q \in QueryStates /\ Q.pc = "table" /\ Good(Q) /\ Q.req \in DOMAIN Requests /\ Q.todo # <<>>
  BY DEF ReadInv, Staged, TableName, Good
<1>2. tableCache' \subseteq Tables
  BY DEF ReadInv, TableName, Keeps
<1>3. Opening(Q)
  BY <1>1, GoodIsOpening
<1>4. Q.todo \in Seq(Seq(Nat))
  BY <1>1, Zenon DEF QueryStates
<1>5. /\ X \in QueryStates
      /\ X.req = Q.req /\ X.todo = Tail(Q.todo) /\ X.rows = Q.rows /\ X.at = Q.at
      /\ X.got = Q.got /\ X.err = Q.err /\ X.nil = Q.nil /\ X.cut = Q.cut
  <2>1. Tail(Q.todo) \in Seq(Seq(Nat))
    BY <1>1, <1>4, TailLeaves
  <2> QED
    BY <1>1, <2>1, Zenon DEF QueryStates
<1>6. /\ K \in QueryStates
      /\ K.pc = "open" /\ K.req = Q.req /\ K.todo = Q.todo /\ K.rows = Q.rows /\ K.at = Q.at /\ K.row = Q.row
      /\ K.got = Q.got /\ K.err = Q.err /\ K.nil = Q.nil /\ K.cut = Q.cut
  <2>1. "open" \in Stages
    BY DEF Stages
  <2> QED
    BY <1>1, <2>1, Zenon DEF QueryStates
<1> HIDE DEF X, K
<1>7. Opened(X) /\ OpenRows(X) = OpenRows(Q)
  BY <1>3, <1>5 DEF Opening, Opened, OpenRows
<1>8. ASSUME m \in Tables, Keeps(q, K) PROVE Moves(q, K)
  <2>1. Staged(K)
    BY <1>1, <1>6, <1>8 DEF Good, Staged
  <2>2. OpenRows(K) = OpenRows(Q)
    BY <1>6 DEF OpenRows
  <2>3. RowsOpen(K)
    BY <1>1, <1>6, <2>2 DEF Good, RowsOpen
  <2>4. Accounts(K)
    <3>1. \A s : ToCome(Q, s) <=> ToCome(K, s)
      BY <1>1, <1>6 DEF ToCome
    <3> QED
      BY <1>1, <1>6, <3>1 DEF Good, Accounts
  <2> QED
    BY <1>2, <1>8, <2>1, <2>2, <2>3, <2>4, KeepsMoves DEF Good
<1>9. ASSUME m \notin Tables, Keeps(q, Advance(X)) PROVE Moves(q, Advance(X))
  <2>1. \A s \in Wanted(Q.req) : s.metric # m
    BY <1>1, <1>9, WantedSelected
  <2>2. \A k \in DOMAIN Q.todo : Q.todo[k] # m => \E j \in DOMAIN X.todo : X.todo[j] = Q.todo[k]
    <3> DEFINE t == Q.todo
    <3>1. t \in Seq(Seq(Nat)) /\ t # <<>> /\ X.todo = Tail(t)
      BY <1>1, <1>4, <1>5
    <3> HIDE DEF t
    <3>2. \A k \in DOMAIN t : t[k] # Head(t) => \E j \in DOMAIN Tail(t) : Tail(t)[j] = t[k]
      BY <3>1, TailLeaves
    <3> QED BY <3>1, <3>2 DEF t
  <2>3. Opening(X)
    <3> HIDE DEF Q, m
    <3>1. ~X.cut => X.got \subseteq Result(X.req)
      BY <1>3, <1>5, Zenon DEF Opening
    <3>2. ASSUME ~X.cut, ~X.err, ~X.nil, NEW s \in Wanted(X.req)
          PROVE  \/ Record(X.req, s) \in X.got
                 \/ \E i \in DOMAIN X.rows : s \in X.rows[i].left
                 \/ \E k \in DOMAIN X.todo : X.todo[k] = s.metric
      <4>1. \/ Record(Q.req, s) \in Q.got
            \/ \E i \in DOMAIN Q.rows : s \in Q.rows[i].left
            \/ \E k \in DOMAIN Q.todo : Q.todo[k] = s.metric
        BY <1>3, <1>5, <3>2, Zenon DEF Opening
      <4>2. s.metric # m
        BY <1>5, <2>1, <3>2, Zenon
      <4> QED BY <1>5, <2>2, <4>1, <4>2, Zenon
    <3> QED BY <1>7, <3>1, <3>2, Zenon DEF Opening
  <2>4. Good(Advance(X)) /\ OpenRows(Advance(X)) = OpenRows(Q)
    BY <1>7, <2>3, AdvanceIsGood
  <2> QED
    BY <1>2, <1>9, <2>4, KeepsMoves
<1>10. ASSUME Keeps(q, CutShort(Advance(X))) PROVE Moves(q, CutShort(Advance(X)))
  <2>1. Good(CutShort(Advance(X))) /\ OpenRows(CutShort(Advance(X))) = OpenRows(Q)
    BY <1>7, AdvanceIsGood, CutIsGood
  <2> QED
    BY <1>2, <1>10, <2>1, KeepsMoves
<1>11. ASSUME Keeps(q, Failed(Q)) PROVE Moves(q, Failed(Q))
  BY <1>1, <1>2, <1>11, FailsMoves
<1>12. \/ m \in Tables /\ Keeps(q, K)
       \/ m \notin Tables /\ Keeps(q, Advance(X))
       \/ Keeps(q, CutShort(Advance(X)))
       \/ Keeps(q, Failed(Q))
  <2>1. \/ m \in tableCache /\ Keeps(q, K)
        \/ Keeps(q, IF m \in Tables THEN K ELSE Advance(X))
        \/ Keeps(q, Failed(Q))
        \/ Keeps(q, CutShort(Advance(X)))
    BY Zenon DEF TableName, K, X
  <2>2. m \in tableCache => m \in Tables
    BY DEF ReadInv
  <2> QED
    BY <2>1, <2>2
<1> QED
  BY <1>8, <1>9, <1>10, <1>11, <1>12

LEMMA OpenRowsMoves ==
    ASSUME NEW q \in Queries, ReadInv, free \in Nat, OpenRowsOf(q)
    PROVE  \E R : Moves(q, R)
<1> DEFINE Q == query[q]
           m == Head(Q.todo)
           left == {s \in RowsOf[Q.req] : s.metric = m}
           X == [Q EXCEPT !.todo = Tail(@), !.rows = Append(@, [left |-> left, open |-> TRUE])]
<1>1. /\ Q \in QueryStates /\ Q.pc = "open" /\ Good(Q) /\ Q.req \in DOMAIN Requests
      /\ Q.todo # <<>> /\ m \in Tables /\ tableCache' \subseteq Tables /\ free > 0
  BY DEF ReadInv, Staged, OpenRowsOf, Good
<1>2. Opening(Q)
  BY <1>1, GoodIsOpening
<1>3. Q.todo \in Seq(Seq(Nat)) /\ Q.rows \in Seq(RowSet)
  BY <1>1, Zenon DEF QueryStates
<1>4. left \subseteq Wanted(Q.req) /\ \A s \in Wanted(Q.req) : s.metric = m => s \in left
  BY <1>1, Zenon DEF Wanted
<1>5. left \in SUBSET Series
  BY <1>1, <1>4, WantedSelected
<1>6. CASE query' = [query EXCEPT ![q] = Advance(X)] /\ free' = free - 1
  <2> DEFINE new == [left |-> left, open |-> TRUE]
             n == Len(Q.rows)
  <2>1. new \in RowSet /\ new.left = left /\ new.open = TRUE
    BY <1>5 DEF RowSet
  <2> HIDE DEF left, new
  <2>2. /\ Append(Q.rows, new) \in Seq(RowSet) /\ n \in Nat
        /\ DOMAIN Append(Q.rows, new) = 1..(n + 1) /\ DOMAIN Q.rows = 1..n
        /\ \A i \in 1..n : Append(Q.rows, new)[i] = Q.rows[i]
        /\ Append(Q.rows, new)[n + 1] = new
    BY <1>3, <2>1
  <2>3. Tail(Q.todo) \in Seq(Seq(Nat))
    BY <1>1, <1>3, TailLeaves
  <2>4. /\ X \in QueryStates
        /\ X.req = Q.req /\ X.todo = Tail(Q.todo) /\ X.rows = Append(Q.rows, new) /\ X.at = Q.at
        /\ X.got = Q.got /\ X.err = Q.err /\ X.nil = Q.nil /\ X.cut = Q.cut
    BY <1>1, <2>2, <2>3, Zenon DEF QueryStates, new
  <2> HIDE DEF X
  <2>5. Opened(X)
    <3>1. \A i \in DOMAIN X.rows : X.rows[i].open /\ X.rows[i].left \subseteq Wanted(X.req)
      <4>1. ASSUME NEW i \in 1..(n + 1) PROVE i \in 1..n \/ i = n + 1
        BY <2>2
      <4>2. \A i \in 1..n : Q.rows[i].open /\ Q.rows[i].left \subseteq Wanted(Q.req)
        BY <1>2, <2>2 DEF Opening, Opened
      <4> QED
        BY <1>4, <2>1, <2>2, <2>4, <4>1, <4>2
    <3> QED
      BY <1>2, <2>4, <3>1 DEF Opening, Opened
  <2>6. Opening(X)
    <3>1. \A i \in DOMAIN Q.rows : i \in DOMAIN X.rows /\ X.rows[i] = Q.rows[i]
      BY <2>2, <2>4
    <3>2. n + 1 \in DOMAIN X.rows /\ X.rows[n + 1].left = left
      BY <2>1, <2>2, <2>4
    <3>3. \A k \in DOMAIN Q.todo : Q.todo[k] # m => \E j \in DOMAIN X.todo : X.todo[j] = Q.todo[k]
      <4> DEFINE t == Q.todo
      <4>1. t \in Seq(Seq(Nat)) /\ t # <<>> /\ X.todo = Tail(t)
        BY <1>1, <1>3, <2>4
      <4> HIDE DEF t
      <4>2. \A k \in DOMAIN t : t[k] # Head(t) => \E j \in DOMAIN Tail(t) : Tail(t)[j] = t[k]
        BY <4>1, TailLeaves
      <4> QED BY <4>1, <4>2 DEF t
    <3>4. ~X.cut => X.got \subseteq Result(X.req)
      BY <1>2, <2>4 DEF Opening
    <3>5. ASSUME ~X.cut, ~X.err, ~X.nil, NEW s \in Wanted(X.req)
          PROVE  \/ Record(X.req, s) \in X.got
                 \/ \E i \in DOMAIN X.rows : s \in X.rows[i].left
                 \/ \E k \in DOMAIN X.todo : X.todo[k] = s.metric
      <4>1. CASE s.metric = m
        BY <1>4, <2>4, <3>2, <4>1
      <4>2. CASE s.metric # m
        <5> HIDE DEF Q, m
        <5>1. \/ Record(Q.req, s) \in Q.got
              \/ \E i \in DOMAIN Q.rows : s \in Q.rows[i].left
              \/ \E k \in DOMAIN Q.todo : Q.todo[k] = s.metric
          BY <1>2, <2>4, <3>5, Zenon DEF Opening
        <5>2. CASE Record(Q.req, s) \in Q.got
          BY <2>4, <5>2, Zenon
        <5>3. CASE \E i \in DOMAIN Q.rows : s \in Q.rows[i].left
          BY <3>1, <5>3, Zenon
        <5>4. CASE \E k \in DOMAIN Q.todo : Q.todo[k] = s.metric
          BY <3>3, <4>2, <5>4, Zenon
        <5> QED BY <5>1, <5>2, <5>3, <5>4, Zenon
      <4> QED BY <4>1, <4>2
    <3> QED
      BY <2>5, <3>4, <3>5 DEF Opening
  <2>7. OpenRows(X) = OpenRows(Q) \cup {n + 1} /\ n + 1 \notin OpenRows(Q)
    <3>1. OpenRows(X) = 1..(n + 1)
      BY <2>2, <2>4, <2>5 DEF OpenRows, Opened
    <3>2. OpenRows(Q) = 1..n
      BY <1>2, <2>2 DEF OpenRows, Opening, Opened
    <3> QED
      BY <2>2, <3>1, <3>2
  <2>8. Good(Advance(X)) /\ OpenRows(Advance(X)) = OpenRows(X)
    BY <2>5, <2>6, AdvanceIsGood
  <2>9. Advance(X) \in QueryStates
    BY <2>8 DEF Good, Staged
  <2>10. Moves(q, Advance(X))
    BY <1>1, <1>6, <2>7, <2>8, <2>9 DEF Moves
  <2> QED BY <2>10
<1>7. CASE Keeps(q, Failed(Q))
  <2>1. Moves(q, Failed(Q))
    BY <1>1, <1>7, FailsMoves
  <2> QED BY <2>1
<1> QED
  BY <1>6, <1>7, Zenon DEF OpenRowsOf

LEMMA RowSetUpdated ==
    ASSUME NEW rows \in Seq(RowSet), NEW n \in DOMAIN rows, NEW R \in RowSet
    PROVE  LET new == [rows EXCEPT ![n] = R] IN
           /\ new \in Seq(RowSet) /\ Len(new) = Len(rows) /\ DOMAIN new = DOMAIN rows
           /\ new[n] = R /\ \A i \in DOMAIN rows : i # n => new[i] = rows[i]
  OBVIOUS

LEMMA RowSetParts ==
    ASSUME NEW R \in RowSet, NEW left \in SUBSET Series
    PROVE  /\ [R EXCEPT !.open = FALSE] \in RowSet /\ [R EXCEPT !.left = left] \in RowSet
           /\ [R EXCEPT !.open = FALSE].left = R.left /\ [R EXCEPT !.open = FALSE].open = FALSE
           /\ [R EXCEPT !.left = left].left = left /\ [R EXCEPT !.left = left].open = R.open
  BY Zenon DEF RowSet

(* The state of a query that reads its rows. *)
Reading(Q) ==
    /\ Q \in QueryStates /\ Q.req \in DOMAIN Requests /\ Requests[Q.req].api \notin Lists
    /\ Q.todo = <<>> /\ Q.at \in DOMAIN Q.rows
    /\ Q.rows \in Seq(RowSet) /\ Q.at \in Nat /\ Q.at >= 1
    /\ DOMAIN Q.rows = 1..Len(Q.rows) /\ Len(Q.rows) \in Nat
    /\ OpenRows(Q) = {i \in DOMAIN Q.rows : Q.at <= i}
    /\ \A i \in DOMAIN Q.rows : Q.rows[i] \in RowSet /\ Q.rows[i].left \subseteq Wanted(Q.req)

LEMMA GoodIsReading ==
    ASSUME NEW Q, Good(Q), Q.pc \in {"next", "row"}, Q.at <= Len(Q.rows)
    PROVE  Reading(Q)
<1>1. /\ Q \in QueryStates /\ Q.req \in DOMAIN Requests /\ Requests[Q.req].api \notin Lists
      /\ Q.todo = <<>>
      /\ \A i \in DOMAIN Q.rows : Q.rows[i].left \subseteq Wanted(Q.req)
  BY DEF Good, Staged
<1>2. Q.rows \in Seq(RowSet) /\ Q.at \in Nat /\ Q.at >= 1
  <2>1. Q.rows \in Seq(RowSet) /\ Q.at \in Nat \ {0}
    BY <1>1, Zenon DEF QueryStates
  <2> QED BY <2>1
<1>3. OpenRows(Q) = {i \in DOMAIN Q.rows : Q.at <= i}
  BY DEF Good, RowsOpen
<1>4. DOMAIN Q.rows = 1..Len(Q.rows) /\ Len(Q.rows) \in Nat /\ \A i \in DOMAIN Q.rows : Q.rows[i] \in RowSet
  BY <1>2
<1>5. Q.at \in DOMAIN Q.rows
  BY <1>1, <1>2, <1>4
<1> QED
  BY <1>1, <1>2, <1>3, <1>4, <1>5 DEF Reading

LEMMA RowTakenIsGood ==
    ASSUME NEW Q, Good(Q), Q.pc = "next", Reading(Q), NEW s \in Q.rows[Q.at].left, NEW X,
           X = [Q EXCEPT !.pc = "row", !.row = s,
                         !.rows = [Q.rows EXCEPT ![Q.at] = [Q.rows[Q.at] EXCEPT !.left = Q.rows[Q.at].left \ {s}]]]
    PROVE  Good(X) /\ OpenRows(X) = OpenRows(Q)
<1> DEFINE at == Q.at
           here == Q.rows[at]
           R == [here EXCEPT !.left = here.left \ {s}]
           rows == [Q.rows EXCEPT ![at] = R]
<1>1. here \in RowSet /\ s \in Wanted(Q.req) /\ s \in Series /\ here.left \ {s} \in SUBSET Series
  <2>1. here \in RowSet /\ here.left \subseteq Wanted(Q.req)
    BY DEF Reading
  <2> QED BY <2>1, WantedSelected DEF Reading
<1>2. R \in RowSet /\ R.left = here.left \ {s} /\ R.open = here.open
  <2> HIDE DEF here
  <2> DEFINE rest == here.left \ {s}
  <2>1. rest \in SUBSET Series
    BY <1>1
  <2> HIDE DEF rest
  <2>2. [here EXCEPT !.left = rest] \in RowSet /\ [here EXCEPT !.left = rest].left = rest
        /\ [here EXCEPT !.left = rest].open = here.open
    BY <1>1, <2>1, RowSetParts, Zenon
  <2> QED BY <2>2 DEF rest
<1> HIDE DEF R
<1>3. /\ rows \in Seq(RowSet) /\ Len(rows) = Len(Q.rows) /\ DOMAIN rows = DOMAIN Q.rows
      /\ rows[at] = R /\ \A i \in DOMAIN Q.rows : i # at => rows[i] = Q.rows[i]
  BY <1>2, RowSetUpdated DEF Reading
<1>4. X = [Q EXCEPT !.pc = "row", !.row = s, !.rows = rows]
  BY DEF R
<1> HIDE DEF rows
<1>5. /\ X \in QueryStates
      /\ X.pc = "row" /\ X.req = Q.req /\ X.todo = Q.todo /\ X.rows = rows /\ X.at = at /\ X.row = s
      /\ X.got = Q.got /\ X.err = Q.err /\ X.nil = Q.nil /\ X.cut = Q.cut
  <2>1. "row" \in Stages /\ Q \in QueryStates
    BY DEF Stages, Reading
  <2> QED BY <1>1, <1>3, <1>4, <2>1, Zenon DEF QueryStates
<1>6. \A i \in DOMAIN rows : rows[i].left \subseteq Q.rows[i].left /\ rows[i].open = Q.rows[i].open
  BY <1>2, <1>3
<1>7. OpenRows(X) = OpenRows(Q)
  BY <1>3, <1>5, <1>6 DEF OpenRows
<1>8. Staged(X)
  <2>1. \A i \in DOMAIN X.rows : X.rows[i].left \subseteq Wanted(X.req)
    BY <1>3, <1>5, <1>6 DEF Reading
  <2>2. at <= Len(X.rows) /\ at >= 1
    BY <1>3, <1>5 DEF Reading
  <2> QED
    BY <1>1, <1>5, <2>1, <2>2 DEF Staged, Reading
<1>9. RowsOpen(X)
  BY <1>3, <1>5, <1>7 DEF RowsOpen, Reading
<1>10. Accounts(X)
  <2>1. ASSUME NEW t, ToCome(Q, t) PROVE ToCome(X, t)
    <3>1. DOMAIN Q.todo = {}
      BY DEF Reading
    <3>2. PICK i \in DOMAIN Q.rows : at <= i /\ t \in Q.rows[i].left
      BY <2>1, <3>1 DEF ToCome
    <3>3. CASE i = at /\ t = s
      BY <1>5, <3>3 DEF ToCome
    <3>4. CASE i # at \/ t # s
      <4>1. t \in rows[i].left
        BY <1>2, <1>3, <3>2, <3>4
      <4> QED BY <1>3, <1>5, <3>2, <4>1 DEF ToCome
    <3> QED BY <3>3, <3>4
  <2> QED
    BY <1>5, <2>1 DEF Good, Accounts
<1> QED
  BY <1>7, <1>8, <1>9, <1>10 DEF Good

(* An empty list has no places. *)
LEMMA NothingListed == DOMAIN <<>> = {}
  OBVIOUS

(* The present rows are left, at their end or for an error. *)
LEMMA RowsLeftIsGood ==
    ASSUME NEW Q, Good(Q), Q.pc = "next", Reading(Q), NEW X \in QueryStates,
           X.pc = "next", X.req = Q.req, X.todo = Q.todo, X.at = Q.at + 1, X.got = Q.got,
           X.nil = Q.nil, X.cut = Q.cut,
           X.err \/ (Q.rows[Q.at].left = {} /\ X.err = Q.err),
           DOMAIN X.rows = DOMAIN Q.rows,
           \A i \in DOMAIN Q.rows : /\ X.rows[i].left = Q.rows[i].left
                                    /\ X.rows[i].open <=> i # Q.at /\ Q.rows[i].open
    PROVE  /\ Good(X)
           /\ OpenRows(X) = OpenRows(Q) \ {Q.at} /\ {Q.at} \in SUBSET OpenRows(Q)
<1>1. OpenRows(X) = OpenRows(Q) \ {Q.at}
  BY DEF OpenRows
<1>2. {Q.at} \in SUBSET OpenRows(Q)
  <2>1. Q.at <= Q.at
    BY DEF Reading
  <2> QED BY <2>1 DEF Reading
<1>3. Staged(X)
  <2>1. Q.at + 1 >= 1
    BY DEF Reading
  <2> QED BY <2>1 DEF Staged, Reading
<1>4. \A i \in DOMAIN Q.rows : (Q.at <= i /\ i # Q.at <=> Q.at + 1 <= i)
  BY DEF Reading
<1>5. RowsOpen(X)
  <2>1. OpenRows(X) = {i \in DOMAIN X.rows : X.at <= i}
    <3>1. OpenRows(Q) = {i \in DOMAIN Q.rows : Q.at <= i}
      BY Zenon DEF Reading
    <3>2. {i \in DOMAIN Q.rows : Q.at <= i} \ {Q.at} = {i \in DOMAIN Q.rows : Q.at + 1 <= i}
      BY <1>4, Zenon
    <3>3. OpenRows(X) = {i \in DOMAIN Q.rows : Q.at + 1 <= i}
      BY <1>1, <3>1, <3>2
    <3> QED BY <3>3
  <2> QED BY <2>1 DEF RowsOpen
<1>6. Accounts(X)
  <2>1. ASSUME ~X.cut, ~X.err, ~X.nil, NEW s \in Wanted(X.req)
        PROVE  Record(X.req, s) \in X.got \/ ToCome(X, s)
    <3>1. Q.rows[Q.at].left = {} /\ ~Q.err /\ ~Q.nil /\ ~Q.cut
      BY <2>1
    <3>2. Record(Q.req, s) \in Q.got \/ ToCome(Q, s)
      BY <2>1, <3>1 DEF Good, Accounts
    <3>3. ASSUME ToCome(Q, s) PROVE ToCome(X, s)
      <4>1. DOMAIN Q.todo = {}
        BY NothingListed, Zenon DEF Reading
      <4>2. PICK i \in DOMAIN Q.rows : Q.at <= i /\ s \in Q.rows[i].left
        BY <3>3, <4>1 DEF ToCome
      <4>3. i # Q.at
        BY <3>1, <4>2
      <4> QED BY <1>4, <4>2, <4>3 DEF ToCome
    <3> QED BY <3>2, <3>3
  <2> QED
    BY <2>1 DEF Good, Accounts
<1> QED
  BY <1>1, <1>2, <1>3, <1>5, <1>6 DEF Good

LEMMA NextRowMoves ==
    ASSUME NEW q \in Queries, ReadInv, NextRow(q)
    PROVE  \E R : Moves(q, R)
<1> DEFINE Q == query[q]
           at == Q.at
<1>1. /\ Q \in QueryStates /\ Q.pc = "next" /\ Good(Q) /\ Q.at <= Len(Q.rows)
      /\ tableCache' \subseteq Tables
  <2>1. Q \in QueryStates /\ Good(Q)
    BY DEF ReadInv, Good
  <2>2. Q.pc = "next" /\ Q.at <= Len(Q.rows) /\ tableCache' = tableCache
    BY Zenon DEF NextRow
  <2> QED BY <2>1, <2>2 DEF ReadInv
<1>2. Reading(Q)
  BY <1>1, GoodIsReading
<1>3. ASSUME NEW s \in Q.rows[at].left,
             Keeps(q, [Q EXCEPT !.pc = "row", !.row = s, !.rows[Q.at].left = @ \ {s}])
      PROVE  \E R : Moves(q, R)
  <2> DEFINE X == [Q EXCEPT !.pc = "row", !.row = s,
                            !.rows = [Q.rows EXCEPT ![Q.at] = [Q.rows[Q.at] EXCEPT !.left = Q.rows[Q.at].left \ {s}]]]
  <2>1. Keeps(q, X)
    BY <1>3
  <2>2. Good(X) /\ OpenRows(X) = OpenRows(Q)
    <3> HIDE DEF Q
    <3>1. ASSUME NEW Y, Y = X PROVE Good(Y) /\ OpenRows(Y) = OpenRows(Q)
      <4>1. s \in Q.rows[Q.at].left /\ Good(Q) /\ Q.pc = "next" /\ Reading(Q)
        BY <1>1, <1>2, <1>3
      <4> QED BY <3>1, <4>1, RowTakenIsGood, Zenon
    <3> QED BY <3>1, Zenon
  <2> HIDE DEF X
  <2>3. Moves(q, X)
    BY <1>1, <2>1, <2>2, KeepsMoves
  <2> QED BY <2>3
<1>4. ASSUME NEW X \in QueryStates,
             query' = [query EXCEPT ![q] = X], free' = free + Cardinality({at}),
             Good(X), OpenRows(X) = OpenRows(Q) \ {at}, {at} \in SUBSET OpenRows(Q)
      PROVE  Moves(q, X)
  BY <1>1, <1>4 DEF Moves
<1>5. /\ Q.rows[at] \in RowSet /\ Q.rows \in Seq(RowSet) /\ at \in DOMAIN Q.rows
      /\ at + 1 \in Nat \ {0} /\ \A i \in DOMAIN Q.rows : Q.rows[i] \in RowSet
  <2>1. at \in Nat /\ Q.rows \in Seq(RowSet) /\ at \in DOMAIN Q.rows /\ \A i \in DOMAIN Q.rows : Q.rows[i] \in RowSet
    BY <1>2, Zenon DEF Reading
  <2> HIDE DEF at, Q
  <2>2. at + 1 \in Nat \ {0}
    BY <2>1
  <2> QED BY <2>1, <2>2, Zenon
<1>6. ASSUME Q.rows[at].left = {}, free' = free + Cardinality(ClosedAtEnd(Q)),
             query' = [query EXCEPT ![q] =
                          [Q EXCEPT !.at = @ + 1,
                                    !.rows = [i \in DOMAIN @ |-> IF i \in ClosedAtEnd(Q)
                                                THEN [@[i] EXCEPT !.open = FALSE] ELSE @[i]]]]
      PROVE  \E R : Moves(q, R)
  <2> DEFINE rows == [i \in DOMAIN Q.rows |-> IF i \in ClosedAtEnd(Q)
                                                THEN [Q.rows[i] EXCEPT !.open = FALSE] ELSE Q.rows[i]]
             X == [Q EXCEPT !.at = at + 1, !.rows = rows]
  <2>1. \A R \in RowSet : LET C == [R EXCEPT !.open = FALSE]
                          IN  C \in RowSet /\ C.left = R.left /\ C.open = FALSE
    BY RowSetParts, Zenon
  <2>2. \A i \in DOMAIN Q.rows : /\ rows[i] \in RowSet /\ rows[i].left = Q.rows[i].left
                                 /\ rows[i].open <=> i # at /\ Q.rows[i].open
    <3>1. ASSUME NEW i \in DOMAIN Q.rows, i = at
          PROVE  rows[i] = [Q.rows[i] EXCEPT !.open = FALSE]
      BY <3>1, Zenon DEF ClosedAtEnd
    <3>2. ASSUME NEW i \in DOMAIN Q.rows, i # at
          PROVE  rows[i] = Q.rows[i]
      BY <3>2, Zenon DEF ClosedAtEnd
    <3> HIDE DEF rows
    <3>3. ASSUME NEW i \in DOMAIN Q.rows
          PROVE  /\ rows[i] \in RowSet /\ rows[i].left = Q.rows[i].left
                 /\ rows[i].open <=> i # at /\ Q.rows[i].open
      <4>1. CASE i = at
        BY <1>5, <2>1, <3>1, <4>1, Zenon
      <4>2. CASE i # at
        BY <1>5, <3>2, <4>2, Zenon
      <4> QED BY <4>1, <4>2
    <3> QED BY <3>3
  <2>3. rows \in [DOMAIN Q.rows -> RowSet]
    BY <2>2, Zenon
  <2>4. query' = [query EXCEPT ![q] = X]
    BY <1>6
  <2> HIDE DEF rows
  <2>5. rows \in Seq(RowSet) /\ DOMAIN rows = DOMAIN Q.rows
    BY <1>5, <2>3, RowsChanged
  <2>6. /\ X \in QueryStates
        /\ X.pc = "next" /\ X.req = Q.req /\ X.todo = Q.todo /\ X.at = at + 1 /\ X.got = Q.got
        /\ X.nil = Q.nil /\ X.cut = Q.cut /\ X.err = Q.err /\ X.rows = rows
    <3> HIDE DEF Q, at
    <3> QED BY <1>1, <1>5, <2>5, Zenon DEF QueryStates
  <2> HIDE DEF X
  <2>7. Good(X) /\ OpenRows(X) = OpenRows(Q) \ {at} /\ {at} \in SUBSET OpenRows(Q)
    BY <1>1, <1>2, <1>6, <2>2, <2>5, <2>6, RowsLeftIsGood
  <2>8. Moves(q, X)
    BY <1>4, <1>6, <2>4, <2>6, <2>7, Zenon DEF ClosedAtEnd
  <2> QED BY <2>8
<1>7. ASSUME free' = free + 1,
             query' = [query EXCEPT ![q] =
                          [Q EXCEPT !.at = @ + 1, !.err = TRUE, !.rows[Q.at].open = FALSE]]
      PROVE  \E R : Moves(q, R)
  <2> DEFINE R == [Q.rows[at] EXCEPT !.open = FALSE]
             rows == [Q.rows EXCEPT ![at] = R]
             X == [Q EXCEPT !.at = at + 1, !.err = TRUE, !.rows = rows]
  <2>1. R \in RowSet /\ R.left = Q.rows[at].left /\ R.open = FALSE
    <3> DEFINE here == Q.rows[at]
    <3> HIDE DEF here
    <3>1. here \in RowSet
      BY <1>5 DEF here
    <3>2. [here EXCEPT !.open = FALSE] \in RowSet /\ [here EXCEPT !.open = FALSE].left = here.left
          /\ [here EXCEPT !.open = FALSE].open = FALSE
      BY <3>1, RowSetParts, Zenon
    <3> QED BY <3>2 DEF here
  <2>2. query' = [query EXCEPT ![q] = X]
    BY <1>7
  <2> HIDE DEF R
  <2>3. /\ rows \in Seq(RowSet) /\ DOMAIN rows = DOMAIN Q.rows
        /\ rows[at] = R /\ \A i \in DOMAIN Q.rows : i # at => rows[i] = Q.rows[i]
    BY <1>5, <2>1, RowSetUpdated
  <2> HIDE DEF rows
  <2>4. \A i \in DOMAIN Q.rows : /\ rows[i].left = Q.rows[i].left
                                 /\ rows[i].open <=> i # at /\ Q.rows[i].open
    BY <2>1, <2>3, Zenon
  <2>5. /\ X \in QueryStates
        /\ X.pc = "next" /\ X.req = Q.req /\ X.todo = Q.todo /\ X.at = at + 1 /\ X.got = Q.got
        /\ X.nil = Q.nil /\ X.cut = Q.cut /\ X.err = TRUE /\ X.rows = rows
    <3> HIDE DEF Q, at
    <3> QED BY <1>1, <1>5, <2>3, Zenon DEF QueryStates
  <2> HIDE DEF X
  <2>6. Good(X) /\ OpenRows(X) = OpenRows(Q) \ {at} /\ {at} \in SUBSET OpenRows(Q)
    <3>1. at = Q.at /\ Good(Q) /\ Q.pc = "next" /\ DOMAIN X.rows = DOMAIN Q.rows
      BY <1>1, <2>3, <2>5, Zenon
    <3>2. \A i \in DOMAIN Q.rows : X.rows[i].left = Q.rows[i].left /\ (X.rows[i].open <=> i # at /\ Q.rows[i].open)
      BY <2>4, <2>5, Zenon
    <3> HIDE DEF Q, at
    <3> QED BY <1>2, <2>5, <3>1, <3>2, RowsLeftIsGood
  <2>7. Cardinality({at}) = 1
    BY FS_Singleton, Zenon
  <2>8. Moves(q, X)
    BY <1>4, <1>7, <2>2, <2>5, <2>6, <2>7, Zenon
  <2> QED BY <2>8
<1>8. CASE Closes(q, Failed(Q))
  <2>1. Moves(q, CloseAll(Failed(Q)))
    BY <1>1, <1>8, FailsMoves
  <2> QED BY <2>1
<1> QED
  BY <1>3, <1>6, <1>7, <1>8, Zenon DEF NextRow

(* The row that was taken is added to the result, with all its labels or,    *)
(* when some could not be fetched, with fewer.                               *)
Added(Q, labels) ==
    [Q EXCEPT !.pc = "next", !.row = NoSeries, !.err = FALSE, !.cut = @ \/ Q.err,
              !.got = @ \cup {[labels |-> labels, times |-> Sent[Q.req][Q.row]]}]

LEMMA RowAddedIsGood ==
    ASSUME NEW Q, Good(Q), Q.pc = "row", NEW labels \in SUBSET (Seq(Nat) \X Seq(Nat)), NEW X,
           X = Added(Q, labels)
    PROVE  /\ Staged(X) /\ RowsOpen(X) /\ X.pc = "next" /\ OpenRows(X) = OpenRows(Q)
           /\ labels = Q.row.labels => Good(X)
<1> DEFINE new == [labels |-> labels, times |-> Sent[Q.req][Q.row]]
           cut == Q.cut \/ Q.err
           got == Q.got \cup {new}
<1>1. /\ Q \in QueryStates /\ Q.req \in DOMAIN Requests /\ Requests[Q.req].api \notin Lists
      /\ Q.todo = <<>> /\ Q.row \in Wanted(Q.req) /\ Q.at <= Len(Q.rows)
  BY DEF Good, Staged
<1>2. Q.row \in Series /\ Sent[Q.req][Q.row] \subseteq Int
  <2>1. Q.row \in Series
    BY <1>1, WantedSelected
  <2>2. Sent[Q.req][Q.row] = SamplesIn(Q.row, Q.req) /\ Q.row.times \subseteq (MinTime + 1)..(MaxTime - 1)
    <3>1. Sent[Q.req][Q.row] = SamplesIn(Q.row, Q.req)
      BY <1>1, <2>1, SamplesAreSent, Zenon
    <3>2. Q.row.times \subseteq (MinTime + 1)..(MaxTime - 1)
      BY <2>1, ReadPathAssumption, Zenon
    <3> QED BY <3>1, <3>2
  <2>3. SamplesIn(Q.row, Q.req) \subseteq Q.row.times
    BY DEF SamplesIn
  <2>4. (MinTime + 1)..(MaxTime - 1) \subseteq Int
    BY ReadPathAssumption
  <2> QED BY <2>1, <2>2, <2>3, <2>4, Zenon
<1>3. new \in Parts
  BY <1>2 DEF Parts
<1>4. got \in SUBSET Parts /\ cut \in BOOLEAN
  BY <1>1, <1>3 DEF QueryStates
<1>5. new = Record(Q.req, Q.row) \/ labels # Q.row.labels
  BY DEF Record
<1>6. X = [Q EXCEPT !.pc = "next", !.row = NoSeries, !.err = FALSE, !.cut = cut, !.got = got]
  BY DEF Added
<1> HIDE DEF got, cut, new
<1>7. /\ X \in QueryStates
      /\ X.pc = "next" /\ X.req = Q.req /\ X.todo = Q.todo /\ X.rows = Q.rows /\ X.at = Q.at
      /\ X.got = got /\ X.nil = Q.nil /\ X.cut = cut /\ X.err = FALSE
  <2>1. "next" \in Stages
    BY DEF Stages
  <2> QED BY <1>1, <1>4, <1>6, <2>1, Zenon DEF QueryStates
<1>8. OpenRows(X) = OpenRows(Q)
  BY <1>7 DEF OpenRows
<1>9. Staged(X)
  <2>1. \A i \in DOMAIN X.rows : X.rows[i].left \subseteq Wanted(X.req)
    BY <1>7 DEF Good, Staged
  <2> QED BY <1>1, <1>7, <2>1 DEF Staged
<1>10. RowsOpen(X)
  BY <1>7, <1>8 DEF Good, RowsOpen
<1>11. ASSUME new = Record(Q.req, Q.row) PROVE Accounts(X)
  <2>1. ASSUME ~X.cut PROVE X.got \subseteq Result(X.req) /\ ~Q.cut /\ ~Q.err
    <3>1. ~Q.cut /\ ~Q.err
      BY <1>7, <2>1, Zenon DEF cut
    <3>2. Q.got \subseteq Result(Q.req)
      BY <3>1 DEF Good, Accounts
    <3>3. new \in Result(Q.req)
      BY <1>1, <1>11 DEF Result
    <3> QED BY <1>7, <3>1, <3>2, <3>3 DEF got
  <2>2. ASSUME ~X.cut, ~X.nil, NEW s \in Wanted(X.req)
        PROVE  Record(X.req, s) \in X.got \/ ToCome(X, s)
    <3>1. Record(Q.req, s) \in Q.got \/ ToCome(Q, s)
      BY <1>7, <2>1, <2>2 DEF Good, Accounts
    <3>2. CASE s = Q.row
      BY <1>7, <1>11, <3>2 DEF got
    <3>3. CASE s # Q.row
      BY <1>7, <3>1, <3>3 DEF got, ToCome
    <3> QED BY <3>2, <3>3
  <2> QED
    BY <1>7, <2>1, <2>2 DEF Accounts
<1> QED
  BY <1>5, <1>7, <1>8, <1>9, <1>10, <1>11 DEF Good

LEMMA RowLostIsGood ==
    ASSUME NEW Q, Good(Q), Q.pc = "row", NEW X,
           X = [Q EXCEPT !.pc = "next", !.row = NoSeries, !.err = TRUE, !.nil = TRUE]
    PROVE  Good(X) /\ OpenRows(X) = OpenRows(Q)
<1>1. /\ Q \in QueryStates /\ Q.req \in DOMAIN Requests /\ Requests[Q.req].api \notin Lists
      /\ Q.todo = <<>>
  BY DEF Good, Staged
<1>2. /\ X \in QueryStates
      /\ X.pc = "next" /\ X.req = Q.req /\ X.todo = Q.todo /\ X.rows = Q.rows /\ X.at = Q.at
      /\ X.got = Q.got /\ X.nil = TRUE /\ X.cut = Q.cut /\ X.err = TRUE
  <2>1. "next" \in Stages
    BY DEF Stages
  <2> QED BY <1>1, <2>1, Zenon DEF QueryStates
<1>3. OpenRows(X) = OpenRows(Q)
  BY <1>2 DEF OpenRows
<1>4. Staged(X)
  <2>1. \A i \in DOMAIN X.rows : X.rows[i].left \subseteq Wanted(X.req)
    BY <1>2 DEF Good, Staged
  <2> QED BY <1>1, <1>2, <2>1 DEF Staged
<1>5. RowsOpen(X) /\ Accounts(X)
  BY <1>2, <1>3 DEF Good, RowsOpen, Accounts
<1> QED
  BY <1>3, <1>4, <1>5 DEF Good

(* Every row was read, and nothing was lost: the result is complete.         *)
LEMMA FinishedIsGood ==
    ASSUME NEW Q, Good(Q), Q.pc = "next", Q.at > Len(Q.rows)
    PROVE  /\ OpenRows(Q) = {}
           /\ ~Q.err /\ ~Q.nil => LET X == [Q EXCEPT !.pc = "ok"] IN
                 /\ Good(X) /\ Good(CloseAll(X)) /\ OpenRows(X) = {} /\ OpenRows(CloseAll(X)) = {}
<1> DEFINE X == [Q EXCEPT !.pc = "ok"]
           C == CloseAll(X)
<1>1. /\ Q \in QueryStates /\ Q.req \in DOMAIN Requests /\ Requests[Q.req].api \notin Lists
      /\ Q.todo = <<>>
  BY DEF Good, Staged
<1>2. Q.rows \in Seq(RowSet) /\ Q.at \in Nat
  BY <1>1, Zenon DEF QueryStates
<1>3. \A i \in DOMAIN Q.rows : ~(Q.at <= i)
  BY <1>2
<1>4. OpenRows(Q) = {}
  BY <1>3 DEF Good, RowsOpen
<1>5. ASSUME ~Q.err, ~Q.nil
      PROVE  Good(X) /\ Good(C) /\ OpenRows(X) = {} /\ OpenRows(C) = {}
  <2>1. /\ X \in QueryStates
        /\ X.pc = "ok" /\ X.req = Q.req /\ X.todo = Q.todo /\ X.rows = Q.rows
        /\ X.got = Q.got /\ X.nil = Q.nil /\ X.cut = Q.cut /\ X.err = Q.err
    <3>1. "ok" \in Stages
      BY DEF Stages
    <3> QED BY <1>1, <3>1, Zenon DEF QueryStates
  <2> HIDE DEF X
  <2>2. /\ C \in QueryStates
        /\ C.pc = "ok" /\ C.req = Q.req /\ C.todo = Q.todo /\ DOMAIN C.rows = DOMAIN Q.rows
        /\ C.got = Q.got /\ C.nil = Q.nil /\ C.cut = Q.cut /\ C.err = Q.err /\ OpenRows(C) = {}
        /\ \A i \in DOMAIN Q.rows : C.rows[i].left = Q.rows[i].left
    <3>1. /\ C \in QueryStates
          /\ C.pc = X.pc /\ C.req = X.req /\ C.todo = X.todo /\ C.got = X.got
          /\ C.cut = X.cut /\ C.err = X.err /\ C.nil = X.nil
          /\ DOMAIN C.rows = DOMAIN X.rows
          /\ \A i \in DOMAIN X.rows : C.rows[i].left = X.rows[i].left
          /\ OpenRows(C) = {}
      BY <2>1, CloseAllParts
    <3> HIDE DEF C
    <3> QED BY <2>1, <3>1, Zenon
  <2> HIDE DEF C
  <2>3. OpenRows(X) = {}
    BY <1>4, <2>1 DEF OpenRows
  <2>4. ~Q.cut => Q.got = Result(Q.req)
    <3>1. SUFFICES ASSUME ~Q.cut PROVE Q.got = Result(Q.req)
      OBVIOUS
    <3>2. DOMAIN Q.todo = {}
      BY <1>1
    <3>3. Q.got \subseteq Result(Q.req) /\ \A s \in Wanted(Q.req) : Record(Q.req, s) \in Q.got
      BY <1>3, <1>5, <3>1, <3>2 DEF Good, Accounts, ToCome
    <3> QED BY <1>1, <3>3 DEF Result
  <2>5. \A i \in DOMAIN Q.rows : Q.rows[i].left \subseteq Wanted(Q.req)
    BY DEF Good, Staged
  <2>6. Staged(X) /\ Staged(C)
    BY <1>1, <1>5, <2>1, <2>2, <2>5 DEF Staged
  <2>7. RowsOpen(X) /\ RowsOpen(C) /\ Accounts(X) /\ Accounts(C)
    BY <2>1, <2>2, <2>3, <2>4 DEF RowsOpen, Accounts
  <2> QED
    BY <2>2, <2>3, <2>6, <2>7 DEF Good
<1> QED
  BY <1>4, <1>5

LEMMA ListedIsGood ==
    ASSUME NEW Q, Good(Q), Q.pc = "list", NEW got \in SUBSET Listed(Q.req), NEW X,
           X = [Q EXCEPT !.pc = "ok", !.got = got]
    PROVE  /\ Staged(X) /\ RowsOpen(X) /\ X.pc = "ok" /\ OpenRows(X) = {} /\ OpenRows(Q) = {}
           /\ got = Listed(Q.req) => Good(X)
<1>1. /\ Q \in QueryStates /\ Q.req \in DOMAIN Requests /\ Requests[Q.req].api \in Lists
      /\ Q.todo = <<>> /\ Q.rows = <<>> /\ ~Q.err /\ ~Q.nil /\ ~Q.cut
  BY DEF Good, Staged
<1>2. got \in SUBSET Parts
  BY <1>1, Zenon DEF Parts
<1>3. /\ X \in QueryStates
      /\ X.pc = "ok" /\ X.req = Q.req /\ X.todo = Q.todo /\ X.rows = Q.rows
      /\ X.got = got /\ X.nil = Q.nil /\ X.cut = Q.cut /\ X.err = Q.err
  <2>1. "ok" \in Stages
    BY DEF Stages
  <2> QED BY <1>1, <1>2, <2>1, Zenon DEF QueryStates
<1>4. DOMAIN X.rows = {} /\ OpenRows(X) = {} /\ OpenRows(Q) = {}
  BY <1>1, <1>3 DEF OpenRows
<1>5. Staged(X) /\ RowsOpen(X)
  BY <1>1, <1>3, <1>4 DEF Staged, RowsOpen
<1>6. ASSUME got = Listed(Q.req) PROVE Accounts(X)
  BY <1>1, <1>3, <1>6 DEF Accounts, Result
<1> QED
  BY <1>3, <1>4, <1>5, <1>6 DEF Good

(* The labels that are cached and, behind them, those that are answered: all *)
(* of the ids asked for, in any order of the two.                            *)
LEMMA LabelsLineUp ==
    ASSUME NEW ids, NEW hits, NEW answered, CacheInv,
           hits \in Orders(ids \cap DOMAIN labelCache), answered \in Orders(ids \ DOMAIN labelCache),
           IsFiniteSet(ids)
    PROVE  Range(getLabelsForIds(hits, labelCache, answered)) = ids
<1> DEFINE H == ids \cap DOMAIN labelCache
           M == ids \ DOMAIN labelCache
           h == Cardinality(H)
           m == Cardinality(M)
           f == getLabelsForIds(hits, labelCache, answered)
<1>1. h \in Nat /\ m \in Nat
  <2>1. IsFiniteSet(H) /\ IsFiniteSet(M)
    BY FS_Subset, Zenon
  <2> QED BY <2>1, FS_CardinalityType, Zenon
<1> HIDE DEF h, m
<1>2. /\ hits \in [1..h -> H] /\ \A x \in H : \E i \in 1..h : hits[i] = x
      /\ answered \in [1..m -> M] /\ \A x \in M : \E i \in 1..m : answered[i] = x
  BY Zenon DEF Orders, Surjection, h, m
<1>3. Len(hits) = h /\ Len(answered) = m
  BY <1>1, <1>2
<1>4. f = [i \in 1..(h + m) |-> IF i <= h THEN labelCache[hits[i]] ELSE answered[i - h]]
  BY <1>3 DEF getLabelsForIds
<1> HIDE DEF f
<1>5. ASSUME NEW i \in 1..h PROVE i \in 1..(h + m) /\ f[i] = hits[i] /\ hits[i] \in ids
  <2>1. i \in 1..(h + m) /\ i <= h
    BY <1>1
  <2>2. hits[i] \in H
    BY <1>2
  <2>3. labelCache[hits[i]] = hits[i]
    BY <2>2, Zenon DEF CacheInv
  <2> QED BY <1>4, <2>1, <2>2, <2>3
<1>6. ASSUME NEW i \in 1..m PROVE h + i \in 1..(h + m) /\ f[h + i] = answered[i] /\ answered[i] \in ids
  <2>1. h + i \in 1..(h + m) /\ ~(h + i <= h) /\ (h + i) - h = i
    BY <1>1
  <2>2. answered[i] \in M
    BY <1>2
  <2> QED BY <1>4, <2>1, <2>2
<1>7. DOMAIN f = 1..(h + m)
  BY <1>4
<1>8. ASSUME NEW i \in DOMAIN f PROVE f[i] \in ids
  <2>1. i \in 1..h \/ \E j \in 1..m : i = h + j
    <3>1. CASE i <= h
      BY <1>1, <1>7, <3>1
    <3>2. CASE ~(i <= h)
      <4>1. i - h \in 1..m /\ i = h + (i - h)
        BY <1>1, <1>7, <3>2
      <4> QED BY <4>1
    <3> QED BY <3>1, <3>2
  <2> QED BY <1>5, <1>6, <2>1
<1>9. ASSUME NEW x \in ids PROVE \E i \in DOMAIN f : f[i] = x
  <2>1. CASE x \in H
    <3>1. PICK i \in 1..h : hits[i] = x
      BY <1>2, <2>1
    <3> QED BY <1>5, <1>7, <3>1
  <2>2. CASE x \in M
    <3>1. PICK i \in 1..m : answered[i] = x
      BY <1>2, <2>2
    <3> QED BY <1>6, <1>7, <3>1
  <2> QED BY <2>1, <2>2
<1> QED
  BY <1>8, <1>9 DEF Range, f

(* Without an answer, some of the ids. *)
LEMMA HitsAreLabels ==
    ASSUME NEW ids, NEW hits, CacheInv, hits \in Orders(ids \cap DOMAIN labelCache), IsFiniteSet(ids)
    PROVE  Range(getLabelsForIds(hits, labelCache, <<>>)) \subseteq ids
<1> DEFINE H == ids \cap DOMAIN labelCache
           h == Cardinality(H)
           f == getLabelsForIds(hits, labelCache, <<>>)
<1>1. h \in Nat
  <2>1. IsFiniteSet(H)
    BY FS_Subset, Zenon
  <2> QED BY <2>1, FS_CardinalityType, Zenon
<1> HIDE DEF h
<1>2. hits \in [1..h -> H]
  BY Zenon DEF Orders, Surjection, h
<1>3. Len(hits) = h /\ Len(<<>>) = 0
  BY <1>1, <1>2
<1>4. f = [i \in 1..h |-> labelCache[hits[i]]]
  BY <1>1, <1>3 DEF getLabelsForIds
<1> HIDE DEF f
<1>5. ASSUME NEW i \in DOMAIN f PROVE f[i] \in ids
  <2>1. i \in 1..h /\ f[i] = labelCache[hits[i]]
    BY <1>4
  <2>2. hits[i] \in H
    BY <1>2, <2>1
  <2>3. labelCache[hits[i]] = hits[i]
    BY <2>2, Zenon DEF CacheInv
  <2> QED BY <2>1, <2>2, <2>3
<1> QED
  BY <1>5 DEF Range, f

LEMMA RowMoves ==
    ASSUME NEW q \in Queries, ReadInv, CacheInv, Row(q)
    PROVE  \E R : Moves(q, R)
<1> DEFINE Q == query[q]
           With(labels) == Added(Q, labels)
           Read(hits, answered) == With(Range(getLabelsForIds(hits, labelCache, answered)))
           lost == [Q EXCEPT !.pc = "next", !.row = NoSeries, !.err = TRUE, !.nil = TRUE]
<1>1. Q \in QueryStates /\ Q.pc = "row" /\ Good(Q) /\ tableCache' \subseteq Tables
  <2>1. Q \in QueryStates /\ Good(Q)
    BY DEF ReadInv, Good
  <2>2. Q.pc = "row" /\ tableCache' = tableCache
    BY Zenon DEF Row
  <2> QED BY <2>1, <2>2 DEF ReadInv
<1>2. Q.row.labels \subseteq Seq(Nat) \X Seq(Nat) /\ IsFiniteSet(Q.row.labels)
  <2>1. Q.row \in Series
    BY <1>1, WantedSelected DEF Good, Staged
  <2> QED BY <2>1, ReadPathAssumption, Zenon
<1>3. /\ Missing(Q) = Q.row.labels \ DOMAIN labelCache
      /\ Q.row.labels \ Missing(Q) = Q.row.labels \cap DOMAIN labelCache
  BY DEF Missing
<1>4. ASSUME NEW labels \in SUBSET (Seq(Nat) \X Seq(Nat))
      PROVE  /\ Staged(With(labels)) /\ RowsOpen(With(labels)) /\ With(labels).pc = "next"
             /\ OpenRows(With(labels)) = OpenRows(Q)
             /\ labels = Q.row.labels => Good(With(labels))
  <2> HIDE DEF Q
  <2>1. ASSUME NEW Y, Y = With(labels)
        PROVE  /\ Staged(Y) /\ RowsOpen(Y) /\ Y.pc = "next" /\ OpenRows(Y) = OpenRows(Q)
               /\ labels = Q.row.labels => Good(Y)
    BY <1>1, <1>4, <2>1, RowAddedIsGood, Zenon
  <2> HIDE DEF With
  <2> QED BY <2>1, Zenon
<1>5. ASSUME NEW hits \in Orders(Q.row.labels \ Missing(Q)), NEW answered \in Orders(Missing(Q)),
             Keeps(q, Read(hits, answered))
      PROVE  \E R : Moves(q, R)
  <2> DEFINE X == With(Q.row.labels)
  <2>1. Keeps(q, X)
    <3>1. Range(getLabelsForIds(hits, labelCache, answered)) = Q.row.labels
      BY <1>2, <1>3, <1>5, LabelsLineUp
    <3> HIDE DEF With
    <3> QED BY <1>5, <3>1
  <2>2. Good(X) /\ OpenRows(X) = OpenRows(Q)
    <3> HIDE DEF With
    <3> QED BY <1>2, <1>4
  <2> HIDE DEF X
  <2>3. Moves(q, X)
    BY <1>1, <2>1, <2>2, KeepsMoves
  <2> QED BY <2>3
<1>6. CASE Keeps(q, lost)
  <2>1. Good(lost) /\ OpenRows(lost) = OpenRows(Q)
    <3> HIDE DEF Q
    <3>1. ASSUME NEW Y, Y = lost PROVE Good(Y) /\ OpenRows(Y) = OpenRows(Q)
      BY <1>1, <3>1, RowLostIsGood, Zenon
    <3> HIDE DEF lost
    <3> QED BY <3>1, Zenon
  <2> HIDE DEF lost
  <2>2. Moves(q, lost)
    BY <1>1, <1>6, <2>1, KeepsMoves
  <2> QED BY <2>2
<1>7. ASSUME NEW hits \in Orders(Q.row.labels \ Missing(Q)), Keeps(q, CutShort(Read(hits, <<>>)))
      PROVE  \E R : Moves(q, R)
  <2> DEFINE labels == Range(getLabelsForIds(hits, labelCache, <<>>))
             X == With(labels)
  <2>1. labels \in SUBSET (Seq(Nat) \X Seq(Nat))
    <3>1. labels \subseteq Q.row.labels
      BY <1>2, <1>3, <1>7, HitsAreLabels
    <3> HIDE DEF labels
    <3> QED BY <1>2, <3>1
  <2> HIDE DEF labels
  <2>2. Staged(X) /\ RowsOpen(X) /\ X.pc = "next" /\ OpenRows(X) = OpenRows(Q)
    <3> HIDE DEF With
    <3> QED BY <1>4, <2>1
  <2>3. Keeps(q, CutShort(X))
    <3> HIDE DEF With
    <3> QED BY <1>7 DEF labels
  <2> HIDE DEF X
  <2>4. Good(CutShort(X)) /\ OpenRows(CutShort(X)) = OpenRows(Q)
    BY <2>2, CutIsGood
  <2>5. Moves(q, CutShort(X))
    BY <1>1, <2>3, <2>4, KeepsMoves
  <2> QED BY <2>5
<1>8. CASE Closes(q, Failed(Q))
  <2>1. Moves(q, CloseAll(Failed(Q)))
    BY <1>1, <1>8, FailsMoves
  <2> QED BY <2>1
<1> QED
  BY <1>5, <1>6, <1>7, <1>8, Zenon DEF Row, Added

LEMMA FinishMoves ==
    ASSUME NEW q \in Queries, ReadInv, Finish(q)
    PROVE  \E R : Moves(q, R)
<1> DEFINE Q == query[q]
           X == [Q EXCEPT !.pc = "ok"]
<1>1. Q \in QueryStates /\ Q.pc = "next" /\ Good(Q) /\ Q.at > Len(Q.rows) /\ tableCache' \subseteq Tables
  <2>1. Q \in QueryStates /\ Good(Q)
    BY DEF ReadInv, Good
  <2>2. Q.pc = "next" /\ Q.at > Len(Q.rows) /\ tableCache' = tableCache
    BY Zenon DEF Finish
  <2> QED BY <2>1, <2>2 DEF ReadInv
<1>2. /\ OpenRows(Q) = {}
      /\ ~Q.err /\ ~Q.nil => Good(X) /\ Good(CloseAll(X)) /\ OpenRows(X) = {} /\ OpenRows(CloseAll(X)) = {}
  <2> HIDE DEF Q
  <2> QED BY <1>1, FinishedIsGood, Zenon
<1>3. CASE Q.err \/ Q.nil
  <2>1. Keeps(q, Failed(Q)) \/ Closes(q, Failed(Q))
    BY <1>3, Zenon DEF Finish
  <2>2. Moves(q, Failed(Q)) \/ Moves(q, CloseAll(Failed(Q)))
    BY <1>1, <1>2, <2>1, FailsMoves
  <2> QED BY <2>2
<1>4. CASE ~(Q.err \/ Q.nil)
  <2>1. Keeps(q, X) \/ Closes(q, X)
    BY <1>4, Zenon DEF Finish
  <2> HIDE DEF X
  <2>2. Good(X) /\ Good(CloseAll(X)) /\ OpenRows(X) = {} /\ OpenRows(CloseAll(X)) = {}
    BY <1>2, <1>4
  <2>3. CASE Keeps(q, X)
    <3>1. OpenRows(X) = OpenRows(query[q])
      BY <1>2, <2>2
    <3>2. Moves(q, X)
      BY <1>1, <2>2, <2>3, <3>1, KeepsMoves
    <3> QED BY <3>2
  <2>4. CASE Closes(q, X)
    <3> DEFINE C == CloseAll(X)
    <3>1. /\ query' = [query EXCEPT ![q] = C] /\ free' = free + Cardinality(OpenRows(Q))
          /\ OpenRows(C) = OpenRows(Q) \ OpenRows(Q) /\ Good(C)
      BY <1>2, <2>2, <2>4 DEF Closes
    <3> HIDE DEF C
    <3>2. C \in QueryStates
      BY <3>1 DEF Good, Staged
    <3>3. Moves(q, C)
      BY <1>1, <3>1, <3>2 DEF Moves
    <3> QED BY <3>3
  <2> QED BY <2>1, <2>3, <2>4
<1> QED
  BY <1>3, <1>4

LEMMA CancelMoves ==
    ASSUME NEW q \in Queries, ReadInv, Cancel(q)
    PROVE  \E R : Moves(q, R)
<1>1. /\ query[q].pc # "idle" /\ Requests[query[q].req].api # "read"
      /\ Keeps(q, Failed(query[q])) /\ tableCache' \subseteq Tables
  BY DEF Cancel, IsRead, ReadInv
<1>2. Moves(q, Failed(query[q]))
  BY <1>1, FailsMoves
<1> QED
  BY <1>2

LEMMA ListMoves ==
    ASSUME NEW q \in Queries, ReadInv, List(q)
    PROVE  \E R : Moves(q, R)
<1> DEFINE Q == query[q]
           X(got) == [Q EXCEPT !.pc = "ok", !.got = got]
<1>1. Q \in QueryStates /\ Q.pc = "list" /\ Good(Q) /\ tableCache' \subseteq Tables
  <2>1. Q \in QueryStates /\ Good(Q)
    BY DEF ReadInv, Good
  <2>2. Q.pc = "list" /\ tableCache' = tableCache
    BY Zenon DEF List
  <2> QED BY <2>1, <2>2 DEF ReadInv
<1>2. ASSUME NEW got \in SUBSET Listed(Q.req)
      PROVE  /\ Staged(X(got)) /\ RowsOpen(X(got)) /\ X(got).pc = "ok"
             /\ OpenRows(X(got)) = {} /\ OpenRows(Q) = {}
             /\ got = Listed(Q.req) => Good(X(got))
  <2> HIDE DEF Q
  <2>1. ASSUME NEW Y, Y = X(got)
        PROVE  /\ Staged(Y) /\ RowsOpen(Y) /\ Y.pc = "ok" /\ OpenRows(Y) = {} /\ OpenRows(Q) = {}
               /\ got = Listed(Q.req) => Good(Y)
    BY <1>1, <1>2, <2>1, ListedIsGood, Zenon
  <2> HIDE DEF X
  <2> QED BY <2>1, Zenon
<1>3. CASE Keeps(q, X(Listed(Q.req)))
  <2> HIDE DEF X
  <2>1. Good(X(Listed(Q.req))) /\ OpenRows(X(Listed(Q.req))) = OpenRows(Q)
    BY <1>2, Zenon
  <2>2. Moves(q, X(Listed(Q.req)))
    BY <1>1, <1>3, <2>1, KeepsMoves
  <2> QED BY <2>2
<1>4. ASSUME NEW part \in SUBSET Listed(Q.req), Keeps(q, CutShort(X(part)))
      PROVE  \E R : Moves(q, R)
  <2> HIDE DEF X
  <2>1. Staged(X(part)) /\ RowsOpen(X(part)) /\ X(part).pc = "ok" /\ OpenRows(X(part)) = OpenRows(Q)
    BY <1>2, <1>4
  <2>2. Good(CutShort(X(part))) /\ OpenRows(CutShort(X(part))) = OpenRows(Q)
    BY <2>1, CutIsGood
  <2>3. Moves(q, CutShort(X(part)))
    BY <1>1, <1>4, <2>2, KeepsMoves
  <2> QED BY <2>3
<1>5. CASE Keeps(q, Failed(Q))
  <2>1. {} \in SUBSET Listed(Q.req)
    OBVIOUS
  <2>2. OpenRows(Q) = {}
    BY <1>2, <2>1, Zenon
  <2>3. Moves(q, Failed(Q))
    BY <1>1, <1>5, <2>2, FailsMoves
  <2> QED BY <2>3
<1> QED
  BY <1>3, <1>4, <1>5, Zenon DEF List

-----------------------------------------------------------------------------
(* The connections.                                                          *)

Held(f) == UNION {{q} \X OpenRows(f[q]) : q \in Queries}

LEMMA HeldBy ==
    ASSUME NEW f
    PROVE  /\ \A q \in Queries : \A i : <<q, i>> \in Held(f) <=> i \in OpenRows(f[q])
           /\ \A p \in Held(f) : \E q \in Queries : \E i : p = <<q, i>>
<1>1. \A p : p \in Held(f) <=> \E q \in Queries : \E i \in OpenRows(f[q]) : p = <<q, i>>
  BY DEF Held
<1> QED
  BY <1>1

(* What a query opens is held, what it closes is not. *)
HeldAfter(f, g, q) ==
    /\ OpenRows(g[q]) = OpenRows(f[q]) => Held(g) = Held(f)
    /\ \A k : k \notin OpenRows(f[q]) /\ OpenRows(g[q]) = OpenRows(f[q]) \cup {k} =>
                 Held(g) = Held(f) \cup {<<q, k>>} /\ <<q, k>> \notin Held(f)
    /\ \A C \in SUBSET OpenRows(f[q]) : OpenRows(g[q]) = OpenRows(f[q]) \ C =>
                 Held(g) = Held(f) \ ({q} \X C) /\ {q} \X C \subseteq Held(f)

LEMMA HeldMoves ==
    ASSUME NEW f, NEW g, NEW q \in Queries, \A p \in Queries \ {q} : g[p] = f[p]
    PROVE  HeldAfter(f, g, q)
<1> DEFINE F == Held(f)
           G == Held(g)
           A == OpenRows(f[q])
           B == OpenRows(g[q])
<1>2. \A i : <<q, i>> \in G <=> i \in B
  BY HeldBy
<1>3. \A i : <<q, i>> \in F <=> i \in A
  BY HeldBy
<1>4. \A p \in Queries \ {q} : \A i : <<p, i>> \in G <=> <<p, i>> \in F
  <2>1. ASSUME NEW p \in Queries \ {q} PROVE OpenRows(g[p]) = OpenRows(f[p])
    BY <2>1
  <2>2. ASSUME NEW p \in Queries \ {q}, NEW i PROVE <<p, i>> \in G <=> <<p, i>> \in F
    <3>1. <<p, i>> \in G <=> i \in OpenRows(g[p])
      BY HeldBy
    <3>2. <<p, i>> \in F <=> i \in OpenRows(f[p])
      BY HeldBy
    <3> QED BY <2>1, <3>1, <3>2
  <2> HIDE DEF F, G
  <2> QED BY <2>2, Zenon
<1>5. \A p \in F \cup G : \E r \in Queries : \E i : p = <<r, i>>
  BY HeldBy
<1> HIDE DEF F, G, A, B
<1>6. ASSUME B = A PROVE G = F
  <2>1. ASSUME NEW r \in Queries, NEW i PROVE <<r, i>> \in G <=> <<r, i>> \in F
    BY <1>2, <1>3, <1>4, <1>6
  <2> QED BY <1>5, <2>1
<1>7. ASSUME NEW k, k \notin A, B = A \cup {k}
      PROVE  G = F \cup {<<q, k>>} /\ <<q, k>> \notin F
  <2>1. ASSUME NEW r \in Queries, NEW i PROVE <<r, i>> \in G <=> <<r, i>> \in F \/ <<r, i>> = <<q, k>>
    BY <1>2, <1>3, <1>4, <1>7
  <2>2. <<q, k>> \notin F
    BY <1>3, <1>7
  <2> QED BY <1>5, <2>1, <2>2
<1>8. ASSUME NEW C \in SUBSET A, B = A \ C
      PROVE  G = F \ ({q} \X C) /\ {q} \X C \subseteq F
  <2>1. ASSUME NEW r \in Queries, NEW i PROVE <<r, i>> \in G <=> <<r, i>> \in F \ ({q} \X C)
    BY <1>2, <1>3, <1>4, <1>8
  <2>2. {q} \X C \subseteq F
    BY <1>3, <1>8
  <2> QED BY <1>5, <2>1, <2>2
<1> QED
  BY <1>6, <1>7, <1>8 DEF F, G, A, B, HeldAfter

LEMMA OpenRowsFinite ==
    ASSUME NEW Q \in QueryStates
    PROVE  IsFiniteSet(OpenRows(Q))
<1>1. Q.rows \in Seq(RowSet)
  BY Zenon DEF QueryStates
<1>2. DOMAIN Q.rows = 1..Len(Q.rows) /\ Len(Q.rows) \in Nat
  BY <1>1
<1>3. IsFiniteSet(1..Len(Q.rows))
  BY <1>2, FS_Interval
<1>4. OpenRows(Q) \subseteq 1..Len(Q.rows)
  BY <1>2 DEF OpenRows
<1> QED
  BY <1>3, <1>4, FS_Subset, Zenon

LEMMA MovesKeepsPool ==
    ASSUME NEW q \in Queries, NEW R, ReadInv, PoolInv, Moves(q, R)
    PROVE  PoolInv'
<1> DEFINE H == Held(query)
           G == Held(query')
<1>1. HeldConns = H /\ HeldConns' = G
  BY DEF HeldConns, Held
<1>2. query \in [Queries -> QueryStates] /\ DOMAIN query = Queries /\ query[q] \in QueryStates
  BY DEF ReadInv
<1>3. /\ free \in Nat /\ IsFiniteSet(H) /\ free + Cardinality(H) = MaxConns /\ Cardinality(H) \in Nat
  BY <1>1, FS_CardinalityType DEF PoolInv
<1>4. query' = [query EXCEPT ![q] = R]
  BY DEF Moves
<1>5. /\ OpenRows(R) = OpenRows(query[q]) => G = H
      /\ \A k : k \notin OpenRows(query[q]) /\ OpenRows(R) = OpenRows(query[q]) \cup {k} =>
                   G = H \cup {<<q, k>>} /\ <<q, k>> \notin H
      /\ \A C \in SUBSET OpenRows(query[q]) : OpenRows(R) = OpenRows(query[q]) \ C =>
                   G = H \ ({q} \X C) /\ {q} \X C \subseteq H
  <2>1. query'[q] = R /\ \A p \in Queries \ {q} : query'[p] = query[p]
    BY <1>2, <1>4
  <2> DEFINE f == query
             g == query'
  <2>2. g[q] = R /\ \A p \in Queries \ {q} : g[p] = f[p]
    BY <2>1
  <2>3. HeldAfter(f, g, q)
    <3> HIDE DEF f, g
    <3> QED BY <2>2, HeldMoves, Zenon
  <2> QED BY <2>2, <2>3, Zenon DEF HeldAfter
<1> HIDE DEF H, G
<1>6. SUFFICES free' \in Nat /\ IsFiniteSet(G) /\ free' + Cardinality(G) = MaxConns
  BY <1>1 DEF PoolInv
<1>7. CASE free' = free /\ OpenRows(R) = OpenRows(query[q])
  BY <1>3, <1>5, <1>7
<1>8. ASSUME free > 0, free' = free - 1,
             NEW k, k \notin OpenRows(query[q]), OpenRows(R) = OpenRows(query[q]) \cup {k}
      PROVE  free' \in Nat /\ IsFiniteSet(G) /\ free' + Cardinality(G) = MaxConns
  <2> DEFINE e == <<q, k>>
  <2>1. G = H \cup {e} /\ e \notin H
    BY <1>5, <1>8
  <2> HIDE DEF e
  <2>2. IsFiniteSet(G) /\ Cardinality(G) = Cardinality(H) + 1
    BY <1>3, <2>1, FS_AddElement
  <2> QED BY <1>3, <1>8, <2>2
<1>9. ASSUME NEW C \in SUBSET OpenRows(query[q]), OpenRows(R) = OpenRows(query[q]) \ C,
             free' = free + Cardinality(C)
      PROVE  free' \in Nat /\ IsFiniteSet(G) /\ free' + Cardinality(G) = MaxConns
  <2> DEFINE D == {q} \X C
  <2>1. G = H \ D /\ D \subseteq H
    BY <1>5, <1>9
  <2>2. IsFiniteSet(C) /\ Cardinality(C) \in Nat
    BY <1>2, OpenRowsFinite, FS_Subset, FS_CardinalityType
  <2>3. IsFiniteSet({q}) /\ Cardinality({q}) = 1
    BY FS_Singleton, Zenon
  <2>4. Cardinality(D) = Cardinality(C)
    <3>1. Cardinality(D) = Cardinality({q}) * Cardinality(C)
      BY <2>2, <2>3, FS_Product, Zenon
    <3> HIDE DEF D
    <3> QED BY <2>2, <2>3, <3>1
  <2> HIDE DEF D
  <2>5. H \cap D = D
    BY <2>1
  <2>6. IsFiniteSet(G) /\ Cardinality(G) = Cardinality(H) - Cardinality(D)
    <3>1. IsFiniteSet(H \ D) /\ Cardinality(H \ D) = Cardinality(H) - Cardinality(H \cap D)
      BY <1>3, FS_Difference, Zenon
    <3> QED BY <2>1, <2>5, <3>1
  <2> QED BY <1>3, <1>9, <2>2, <2>4, <2>6
<1> QED
  BY <1>7, <1>8, <1>9 DEF Moves

-----------------------------------------------------------------------------
(* The invariant holds at first and is kept by every step.                   *)

LEMMA InitReadInv == Init => ReadInv /\ PoolInv /\ CacheInv
<1> SUFFICES ASSUME Init PROVE ReadInv /\ PoolInv /\ CacheInv
  OBVIOUS
<1>1. query = [q \in Queries |-> Idle] /\ free = MaxConns /\ tableCache = {}
  BY DEF Init
<1>2. ReadInv
  BY <1>1, IdleIsGood DEF ReadInv, Good
<1>3. HeldConns = {}
  BY <1>1, IdleIsGood DEF HeldConns
<1>4. PoolInv
  <2>1. MaxConns \in Nat
    BY ReadPathAssumption
  <2>2. IsFiniteSet({}) /\ Cardinality({}) = 0
    BY FS_EmptySet, Zenon
  <2>3. free \in Nat /\ free + 0 = MaxConns
    BY <1>1, <2>1
  <2> QED BY <1>3, <2>2, <2>3, Zenon DEF PoolInv
<1>5. CacheInv
  <2>1. labelCache = <<>>
    BY DEF Init
  <2>2. DOMAIN labelCache = {}
    BY <2>1
  <2> QED BY <2>2, Zenon DEF CacheInv
<1> QED
  BY <1>2, <1>4, <1>5

(* Only Row writes to the cache of labels, and only Forget takes from it. *)
LEMMA NextCacheInv == CacheInv /\ [Next]_vars => CacheInv'
<1> SUFFICES ASSUME CacheInv, [Next]_vars PROVE CacheInv'
  OBVIOUS
<1>1. ASSUME UNCHANGED labelCache PROVE CacheInv'
  BY <1>1, Zenon DEF CacheInv
<1>2. ASSUME NEW answered, NEW n, labelCache' = InsertBatch(labelCache, answered, n)
      PROVE  CacheInv'
  <2>1. ASSUME NEW id \in DOMAIN labelCache' PROVE labelCache'[id] = id
    BY <1>2, Zenon DEF InsertBatch, CacheInv
  <2> QED BY <2>1, Zenon DEF CacheInv
<1>3. ASSUME NEW q \in Queries, Row(q) PROVE CacheInv'
  <2>1. \/ UNCHANGED labelCache
        \/ \E answered : \E n : labelCache' = InsertBatch(labelCache, answered, n)
    BY <1>3, Zenon DEF Row
  <2> QED BY <1>1, <1>2, <2>1
<1>4. ASSUME Forget PROVE CacheInv'
  <2>1. CASE UNCHANGED labelCache
    BY <1>1, <2>1
  <2>2. ASSUME NEW S, S \subseteq DOMAIN labelCache, labelCache' = Restrict(labelCache, S)
        PROVE  CacheInv'
    <3>1. ASSUME NEW id \in DOMAIN labelCache' PROVE labelCache'[id] = id
      BY <2>2, Zenon DEF Restrict, CacheInv
    <3> QED BY <3>1, Zenon DEF CacheInv
  <2>3. \/ UNCHANGED labelCache
        \/ \E l : labelCache' = Restrict(labelCache, DOMAIN labelCache \ {l})
    BY <1>4, Zenon DEF Forget
  <2> QED BY <2>1, <2>2, <2>3
<1>5. ASSUME NEW q \in Queries, Begin(q) \/ Step(q) \/ Cancel(q) PROVE CacheInv'
  <2>1. \/ UNCHANGED labelCache
        \/ Row(q)
    BY <1>5, Zenon DEF Step, Begin, Cancel, List, Catalog, TableName, OpenRowsOf, NextRow, Finish
  <2> QED BY <1>1, <1>3, <2>1
<1>6. CASE UNCHANGED vars
  BY <1>1, <1>6 DEF vars
<1> QED
  BY <1>4, <1>5, <1>6 DEF Next

LEMMA MovesKeepsRead ==
    ASSUME NEW q \in Queries, NEW R, ReadInv, Moves(q, R)
    PROVE  ReadInv'
<1>1. query' = [query EXCEPT ![q] = R] /\ R \in QueryStates /\ Good(R) /\ tableCache' \subseteq Tables
  BY DEF Moves
<1>2. query' \in [Queries -> QueryStates]
  BY <1>1 DEF ReadInv
<1>3. \A p \in Queries : Good(query'[p])
  <2>1. \A p \in Queries : Good(query[p])
    BY DEF ReadInv, Good
  <2>2. ASSUME NEW p \in Queries PROVE query'[p] = IF p = q THEN R ELSE query[p]
    BY <1>1 DEF ReadInv
  <2> QED BY <1>1, <2>1, <2>2
<1> QED
  BY <1>1, <1>2, <1>3, Zenon DEF ReadInv, Good

LEMMA NextReadInv == ReadInv /\ PoolInv /\ CacheInv /\ [Next]_vars => ReadInv' /\ PoolInv'
<1> SUFFICES ASSUME ReadInv, PoolInv, CacheInv, [Next]_vars PROVE ReadInv' /\ PoolInv'
  OBVIOUS
<1>1. free \in Nat
  BY DEF PoolInv
<1>2. ASSUME NEW q \in Queries, Begin(q) \/ Step(q) \/ Cancel(q)
      PROVE  ReadInv' /\ PoolInv'
  <2>1. CASE Begin(q)
    BY <2>1, BeginMoves, MovesKeepsRead, MovesKeepsPool
  <2>2. CASE List(q)
    BY <2>2, ListMoves, MovesKeepsRead, MovesKeepsPool
  <2>3. CASE Catalog(q)
    BY <2>3, CatalogMoves, MovesKeepsRead, MovesKeepsPool
  <2>4. CASE TableName(q)
    BY <2>4, TableNameMoves, MovesKeepsRead, MovesKeepsPool
  <2>5. CASE OpenRowsOf(q)
    BY <1>1, <2>5, OpenRowsMoves, MovesKeepsRead, MovesKeepsPool
  <2>6. CASE NextRow(q)
    BY <2>6, NextRowMoves, MovesKeepsRead, MovesKeepsPool
  <2>7. CASE Row(q)
    BY <2>7, RowMoves, MovesKeepsRead, MovesKeepsPool
  <2>8. CASE Finish(q)
    BY <2>8, FinishMoves, MovesKeepsRead, MovesKeepsPool
  <2>9. CASE Cancel(q)
    BY <2>9, CancelMoves, MovesKeepsRead, MovesKeepsPool
  <2> QED
    BY <1>2, <2>1, <2>2, <2>3, <2>4, <2>5, <2>6, <2>7, <2>8, <2>9 DEF Step
<1>3. CASE Forget
  BY <1>3 DEF Forget, ReadInv, PoolInv, HeldConns
<1>4. CASE UNCHANGED vars
  BY <1>4 DEF vars, ReadInv, PoolInv, HeldConns
<1> QED
  BY <1>2, <1>3, <1>4 DEF Next

(* The reading of every query stays in order, the connections add up and     *)
(* labels are cached under their ids.                                        *)
THEOREM ReadsStayInOrder == Spec => [](ReadInv /\ PoolInv /\ CacheInv)
<1>1. Init => ReadInv /\ PoolInv /\ CacheInv
  BY InitReadInv
<1>2. ReadInv /\ PoolInv /\ CacheInv /\ [Next]_vars => (ReadInv /\ PoolInv /\ CacheInv)'
  BY NextReadInv, NextCacheInv
<1> QED
  BY <1>1, <1>2, PTL DEF Spec

(* A query that succeeds, and was not cut short, returns the series that all *)
(* its matchers match with all their labels and samples in the range: for    *)
(* any stored series, any requests, any number of concurrent queries and any *)
(* size of the pool, whatever the caches forgot and whatever failed          *)
(* (buildSubQueries, getSeriesPerMetric, getLabelsForIds, buildTimeSeries).  *)
THEOREM ReadsAreExact == Spec => []ReadIsExact
<1>1. ReadInv => ReadIsExact
  <2> SUFFICES ASSUME ReadInv, NEW q \in Queries, query[q].pc = "ok", ~query[q].cut
               PROVE  LET r == query[q].req IN
                      /\ ~Loose[r]["NRE"] => Answer[r] \subseteq query[q].got
                      /\ ~Loose[r]["RE"] => query[q].got \subseteq Answer[r]
    BY DEF ReadIsExact
  <2>1. query[q].req \in DOMAIN Requests /\ query[q].got = Result(query[q].req)
    BY DEF ReadInv, Staged, Accounts
  <2> QED
    BY <2>1, ResultIsAnswer
<1> QED
  BY <1>1, ReadsStayInOrder, PTL

(* No connection is lost or counted twice: those that are not idle are held  *)
(* by open rows, and a query that succeeds, or a read that fails with its    *)
(* rows open, holds none (Close in Query, Next and at the end of the rows).  *)
THEOREM ConnectionsAreReturned == Spec => []ConnectionsReturned
<1>1. ReadInv /\ PoolInv => ConnectionsReturned
  BY DEF ReadInv, PoolInv, RowsOpen, ConnectionsReturned, IsRead
<1> QED
  BY <1>1, ReadsStayInOrder, PTL

=============================================================================
