----------------------------- MODULE MCRequests -----------------------------
(* Two handlers that share the pool.  A state is one of theirs or, when      *)
(* there is an input, a message of any type on its way over the wire.        *)
EXTENDS WriteRequests

VARIABLE input

NoInput == [type |-> "none", msg |-> <<>>]

One == [ZeroDouble EXCEPT ![7] = 240, ![8] = 63]
MCName == <<95>>
S(t, v) == Message(<<v, t>>)
L(name, value) == Message(<<name, value>>)
TS(labels, samples) == Message(<<Slice(0, Len(labels), labels), Slice(0, Len(samples), samples)>>)
WR(series) == Message(<<Slice(0, Len(series), series)>>)

cpu == L(MCName, <<99>>)
up == L(MCName, <<117>>)
host == L(<<104>>, <<49>>)
zone == L(<<122>>, <<50, 51>>)
long == L(<<108>>, [i \in 1..30 |-> 120])

MCSent ==
    << WR(<<TS(<<zone, cpu, host>>, <<S(1, One), S(2, One)>>), TS(<<up>>, <<S(3, One)>>)>>),
       WR(<<TS(<<host, cpu>>, <<>>), TS(<<cpu, host, zone>>, <<S(4, ZeroDouble)>>)>>),
       WR(<<TS(<<up>>, <<S(5, One)>>), TS(<<host>>, <<S(6, One)>>)>>),
       WR(<<TS(<<long, up>>, <<S(7, One)>>)>>) >>

(* The bodies that arrive: the whole messages and, of the one with several   *)
(* series, every part that can be decoded and one that cannot.               *)
Encoded == [k \in DOMAIN MCSent |-> Marshal("WriteRequest", MCSent[k])]
Readable(b) == Unmarshal("WriteRequest", NewMessage("WriteRequest"), b).err = ""
Body(k, n) == [sent |-> k, bytes |-> SubSeq(Encoded[k], 1, n), whole |-> n = Len(Encoded[k])]
MCBodies ==
    {Body(k, Len(Encoded[k])) : k \in DOMAIN MCSent}
    \cup {Body(1, n) : n \in {i \in 1..Len(Encoded[1]) : i + 1 = Len(Encoded[1]) \/ Readable(SubSeq(Encoded[1], 1, i))}}

Symmetry == Permutations(Handlers) \cup Permutations(Requests)

(* Messages of every type, with fields that are absent, negative, long, at   *)
(* the end of their range or not known.                                      *)
Unknown(m) == [m EXCEPT !.unknown = <<123, 8, 1, 124>>]
Ints == {0, 1, 127, 128, 300, -1, 2^(WordBits - 1) - 1, -(2^(WordBits - 1))}
LongBytes == [i \in 1..130 |-> i]
SomeHints == Message(<<15, <<114>>, -1, 300, <<<<97>>, <<>>, <<98>>>>, 1, 5>>)
M(n, v) == Message(<<n, <<104>>, v>>)
AQuery == Message(<<-5, 128, <<M(0, <<>>), M(3, <<46>>)>>, <<SomeHints>>>>)
AChunk == Message(<<1, 2, 1, <<1, 2, 3>>>>)
Typed(type, msgs) == {[type |-> type, msg |-> m] : m \in msgs}

Inputs ==
    Typed("Sample", {S(t, v) : t \in Ints, v \in {One, ZeroDouble, NegZeroDouble}})
    \cup Typed("Label", {L(n, v) : n, v \in {<<>>, <<97>>, LongBytes}})
    \cup Typed("TimeSeries", {TS(<<zone, host>>, <<S(1, One), S(-1, One)>>), Unknown(TS(<<>>, <<>>))})
    \cup Typed("Labels", {Message(<<Slice(0, Len(ls), ls)>>) : ls \in {<<>>, <<zone, L(<<>>, <<>>)>>}})
    \cup Typed("LabelMatcher", {M(n, v) : n \in 0..3, v \in {<<>>, LongBytes}})
    \cup Typed("ReadHints", {SomeHints, Unknown(NewMessage("ReadHints"))}
                            \cup {[SomeHints EXCEPT !.f[1] = i, !.f[7] = j] : i, j \in Ints})
    \cup Typed("Chunk", {AChunk, [AChunk EXCEPT !.f[4] = LongBytes]})
    \cup Typed("ChunkedSeries", {Message(<<<<zone>>, <<AChunk, AChunk>>>>)})
    \cup Typed("WriteRequest", {MCSent[k] : k \in DOMAIN MCSent} \cup {Unknown(MCSent[1])})
    \cup Typed("Query", {AQuery, [AQuery EXCEPT !.f[4] = <<>>], NewMessage("Query")})
    \cup Typed("ReadRequest", {Message(<<<<AQuery, NewMessage("Query")>>, ts>>) : ts \in {<<>>, <<0, 1>>}})
    \cup Typed("QueryResult", {Message(<<<<TS(<<host>>, <<S(9, One)>>)>>>>)})
    \cup Typed("ReadResponse", {Message(<<<<NewMessage("QueryResult"),
                                           Message(<<<<TS(<<host>>, <<S(9, One)>>)>>>>)>>>>)})
    \cup Typed("ChunkedReadResponse", {Message(<<<<Message(<<<<zone>>, <<AChunk>>>>)>>, i>>) : i \in Ints})

MCInit == Init /\ input \in Inputs \cup {NoInput}

MCNext ==
    \/ input = NoInput /\ Next /\ UNCHANGED input
    \/ input # NoInput /\ UNCHANGED <<vars, input>>

MCSpec == MCInit /\ [][MCNext]_<<vars, input>>

(* What is marshalled fills its buffer exactly, and is read back as it was,  *)
(* unknown fields and the order of repeated ones included; of a message that *)
(* was cut short, what is accepted can be extended to the whole (Size,       *)
(* MarshalToSizedBuffer and Unmarshal of the messages of pkg/prompb).        *)
WireRoundTrip ==
    input # NoInput =>
        LET Whole(got) == got.err = "" /\ Content(input.type, got.val) = Content(input.type, input.msg)
            From(m, c) == Unmarshal(input.type, m, c)
            Then(cut, rest) == cut.err = "" => Whole(From(cut.val, rest))
            Reads(b) == /\ Size(input.type, input.msg) = Len(b)
                        /\ Whole(From(NewMessage(input.type), b))
                        /\ \A n \in 0..Len(b) : Then(From(NewMessage(input.type), SubSeq(b, 1, n)),
                                                     SubSeq(b, n + 1, Len(b)))
        IN  Reads(Marshal(input.type, input.msg))
=============================================================================
