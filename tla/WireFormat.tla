----------------------------- MODULE WireFormat -----------------------------
(* The messages of pkg/prompb on the wire: Size, Marshal and Unmarshal of    *)
(* types.pb.go and remote.pb.go.  The generated functions of a message       *)
(* differ only in its fields, which are tables here.  Bytes are 0..255 and a *)
(* double is its eight bytes.                                                *)
EXTENDS Integers, Sequences, TLC

LOCAL INSTANCE SequencesExt
LOCAL INSTANCE FiniteSetsExt

CONSTANTS WordBits,   \* 64: int, int64 and uint64
          HalfBits    \* 32: int32, the enumerations and field numbers

ASSUME WireAssumption == WordBits \in 8..28 /\ HalfBits \in 4..WordBits

Unsigned(v) == IF v < 0 THEN v + 2^WordBits ELSE v
Signed(v, bits) ==
    LET low == v % 2^bits IN IF low >= 2^(bits - 1) THEN low - 2^bits ELSE low

(* A field: its kind and, where it holds messages, their type.  A "reused"   *)
(* list keeps the messages beyond its length, to be filled again.            *)
Field(kind, of) == [kind |-> kind, of |-> of]
Int64 == Field("int64", "")
Bool == Field("bool", "")
Enum == Field("enum", "")
Enums == Field("enums", "")
Double == Field("double", "")
Bytes == Field("bytes", "")
Strings == Field("strings", "")
Optional(type) == Field("optional", type)
Repeated(type) == Field("repeated", type)
Reused(type) == Field("reused", type)

Sample == <<Double, Int64>>
TimeSeries == <<Reused("Label"), Reused("Sample")>>
Label == <<Bytes, Bytes>>
Labels == <<Reused("Label")>>
LabelMatcher == <<Enum, Bytes, Bytes>>
ReadHints == <<Int64, Bytes, Int64, Int64, Strings, Bool, Int64>>
Chunk == <<Int64, Int64, Enum, Bytes>>
ChunkedSeries == <<Repeated("Label"), Repeated("Chunk")>>
WriteRequest == <<Reused("TimeSeries")>>
ReadRequest == <<Repeated("Query"), Enums>>
ReadResponse == <<Repeated("QueryResult")>>
Query == <<Int64, Int64, Repeated("LabelMatcher"), Optional("ReadHints")>>
QueryResult == <<Repeated("TimeSeries")>>
ChunkedReadResponse == <<Repeated("ChunkedSeries"), Int64>>

Fields ==
    [Sample |-> Sample, TimeSeries |-> TimeSeries, Label |-> Label, Labels |-> Labels,
     LabelMatcher |-> LabelMatcher, ReadHints |-> ReadHints, Chunk |-> Chunk,
     ChunkedSeries |-> ChunkedSeries, WriteRequest |-> WriteRequest,
     ReadRequest |-> ReadRequest, ReadResponse |-> ReadResponse, Query |-> Query,
     QueryResult |-> QueryResult, ChunkedReadResponse |-> ChunkedReadResponse]

(* A slice in memory: its elements up to len, the capacity being that of its *)
(* array; id tells arrays apart, 0 being one that was just allocated.        *)
Slice(id, len, arr) == [id |-> id, len |-> len, arr |-> arr]
NilSlice == Slice(0, 0, <<>>)
Elems(s) == SubSeq(s.arr, 1, s.len)

ZeroDouble == <<0, 0, 0, 0, 0, 0, 0, 0>>
NegZeroDouble == [ZeroDouble EXCEPT ![8] = 128]

Zero(field) ==
    CASE field.kind \in {"int64", "bool", "enum"} -> 0
      [] field.kind = "double" -> ZeroDouble
      [] field.kind = "reused" -> NilSlice
      [] OTHER -> <<>>

Message(fields) == [f |-> fields, unknown |-> <<>>]
Zeros(fields) == [n \in DOMAIN fields |-> Zero(fields[n])]
NewMessage(type) == Message(Zeros(Fields[type]))

(* m.Reset: lists that are reused lose their length and keep their memory. *)
Reset(type, m) ==
    Message([n \in DOMAIN Fields[type] |->
        IF Fields[type][n].kind = "reused" THEN [m.f[n] EXCEPT !.len = 0]
                                          ELSE Zero(Fields[type][n])])
-----------------------------------------------------------------------------
(* sovTypes: the bytes of a varint. *)
BitLen(x) == Min({k \in 0..WordBits : x < 2^k})
RoundedDown(x) == Max({1, BitLen(x) \div 7})
sov(x) == (Max({1, BitLen(x)}) + 6) \div 7

encodeVarint(x) ==
    [k \in 1..sov(x) |-> ((x \div 128^(k - 1)) % 128) + (IF k < sov(x) THEN 128 ELSE 0)]

Delimited(bytes) == encodeVarint(Len(bytes)) \o bytes

(* The bytes of all the elements of a field, each under its tag: one byte,   *)
(* the number of the field and its wire type.                                *)
Tagged(n, wireType, parts) ==
    FlattenSeq([k \in DOMAIN parts |-> <<8 * n + wireType>> \o parts[k]])

Present(field, v) ==
    IF field.kind = "double" THEN v \notin {ZeroDouble, NegZeroDouble} ELSE v # Zero(field)

(* A packed value is shifted as a signed number: one below zero is one byte. *)
PackedEnum(v) == IF v < 0 THEN <<v % 256>> ELSE encodeVarint(v)

RECURSIVE Encode(_, _), Size(_, _)

EncodeField(field, n, v) ==
    IF ~Present(field, v) THEN <<>> ELSE
    CASE field.kind \in {"int64", "enum"} -> Tagged(n, 0, <<encodeVarint(Unsigned(v))>>)
      [] field.kind = "bool" -> Tagged(n, 0, << <<v>> >>)
      [] field.kind = "double" -> Tagged(n, 1, <<v>>)
      [] field.kind = "bytes" -> Tagged(n, 2, <<Delimited(v)>>)
      [] field.kind = "strings" -> Tagged(n, 2, [k \in DOMAIN v |-> Delimited(v[k])])
      [] field.kind = "enums" ->
            Tagged(n, 2, <<Delimited(FlattenSeq([k \in DOMAIN v |-> PackedEnum(v[k])]))>>)
      [] field.kind \in {"repeated", "optional"} ->
            Tagged(n, 2, [k \in DOMAIN v |-> Delimited(Encode(field.of, v[k]))])
      [] field.kind = "reused" ->
            Tagged(n, 2, [k \in 1..v.len |-> Delimited(Encode(field.of, v.arr[k]))])

(* MarshalToSizedBuffer: what it writes, from the end of the buffer on. *)
Encode(type, m) ==
    FlattenSeq([n \in DOMAIN Fields[type] |-> EncodeField(Fields[type][n], n, m.f[n])])
        \o m.unknown

DelimitedSize(l) == 1 + l + sov(l)

SizeField(field, v) ==
    IF ~Present(field, v) THEN 0 ELSE
    CASE field.kind \in {"int64", "enum"} -> 1 + sov(Unsigned(v))
      [] field.kind = "bool" -> 2
      [] field.kind = "double" -> 9
      [] field.kind = "bytes" -> DelimitedSize(Len(v))
      [] field.kind = "strings" -> MapThenSumSet(LAMBDA k : DelimitedSize(Len(v[k])), DOMAIN v)
      [] field.kind = "enums" ->
            DelimitedSize(MapThenSumSet(LAMBDA k : sov(Unsigned(v[k])), DOMAIN v))
      [] field.kind \in {"repeated", "optional"} ->
            MapThenSumSet(LAMBDA k : DelimitedSize(Size(field.of, v[k])), DOMAIN v)
      [] field.kind = "reused" ->
            MapThenSumSet(LAMBDA k : DelimitedSize(Size(field.of, v.arr[k])), 1..v.len)

Size(type, m) ==
    MapThenSumSet(LAMBDA n : SizeField(Fields[type][n], m.f[n]), DOMAIN Fields[type]) + Len(m.unknown)

(* A buffer of Size bytes is filled from its end, and as many bytes as were  *)
(* written are returned from its beginning.  A buffer that is too small is a *)
(* panic, shown as a byte that is none.                                      *)
Marshal(type, m) ==
    LET written == Encode(type, m)
        spare == Size(type, m) - Len(written) IN
    IF spare < 0 THEN <<-1>>
    ELSE SubSeq([k \in 1..spare |-> 0] \o written, 1, Len(written))
-----------------------------------------------------------------------------
(* Reading at an index gives an error, or a value and the next index. *)
Error(what) == [err |-> what, val |-> 0, next |-> 0]
Got(val, next) == [err |-> "", val |-> val, next |-> next]

MaxGroups == (WordBits + 6) \div 7

(* The loop over the groups of seven bits of a varint. *)
RECURSIVE Groups(_, _, _)
Groups(b, i, k) ==
    IF k = MaxGroups THEN Error("ErrIntOverflow")
    ELSE IF i + k > Len(b) THEN Error("ErrUnexpectedEOF")
    ELSE IF b[i + k] < 128 THEN Got(b[i + k], i + k + 1)
    ELSE LET rest == Groups(b, i, k + 1) IN
         IF rest.err # "" THEN rest ELSE Got(rest.val * 128 + b[i + k] - 128, rest.next)

Varint(b, i) ==
    LET r == Groups(b, i, 0) IN [r EXCEPT !.val = @ % 2^WordBits]

(* The bounds of a length-delimited value; next is the index behind it. *)
ClampedExtent(b, i) ==
    LET l == Varint(b, i)
    IN  IF l.err # "" THEN l ELSE Got(l.next, Min({l.next + l.val, Len(b) + 1}))
ExtentFrom(b, l) ==
    LET len == Signed(l.val, WordBits) IN
    IF l.err # "" THEN l
    ELSE IF len < 0 \/ l.next + len >= 2^(WordBits - 1) THEN Error("ErrInvalidLength")
    ELSE IF len > Len(b) - l.next + 1 THEN Error("ErrUnexpectedEOF")
    ELSE Got(l.next, l.next + len)
Extent(b, i) == ExtentFrom(b, Varint(b, i))

Taken(b, e) == SubSeq(b, e.val, e.next - 1)

(* skipTypes: the index behind the field at i, which is of no known number.  *)
(* Groups nest; a length may lead behind the end.                            *)
RECURSIVE SkipFrom(_, _, _)
SkipTagged(b, depth, tag, l) ==
    LET wireType == tag.val % 8
        len == Signed(l.val, WordBits)
        Past(j, d) == IF d = 0 THEN Got(0, j) ELSE SkipFrom(b, j, d) IN
    IF tag.err # "" THEN tag
    ELSE IF wireType \in {0, 2} /\ l.err # "" THEN l
    ELSE CASE wireType = 0 -> Past(l.next, depth)
           [] wireType = 1 -> Past(tag.next + 8, depth)
           [] wireType = 2 -> IF len < 0 \/ l.next + len >= 2^(WordBits - 1)
                              THEN Error("ErrInvalidLength") ELSE Past(l.next + len, depth)
           [] wireType = 3 -> Past(tag.next, depth + 1)
           [] wireType = 4 -> IF depth = 0
                              THEN Error("ErrUnexpectedEndOfGroup") ELSE Past(tag.next, depth - 1)
           [] wireType = 5 -> Past(tag.next + 4, depth)
           [] OTHER -> Error("illegal wireType")

SkipFrom(b, i, depth) ==
    LET AtTag(tag) == SkipTagged(b, depth, tag, Varint(b, tag.next))
    IN  IF i > Len(b) THEN Error("ErrUnexpectedEOF") ELSE AtTag(Varint(b, i))

skip(b, i) ==
    LET Within(s) == IF s.err = "" /\ s.next > Len(b) + 1 THEN Error("ErrUnexpectedEOF") ELSE s
    IN  Within(SkipFrom(b, i, 0))

(* append doubles the capacity of a full array, which is a new one then. *)
Grown(s, type) ==
    LET more == Max({1, Len(s.arr)})
    IN  Slice(0, s.len, s.arr \o [k \in 1..more |-> NewMessage(type)])

(* One more element of a list that is reused: the next one of its memory, as *)
(* Reset leaves it.                                                          *)
Extended(s, type) ==
    LET t == IF s.len < Len(s.arr) THEN s ELSE Grown(s, type)
    IN  [t EXCEPT !.len = @ + 1, !.arr[t.len + 1] = Reset(type, @)]

RECURSIVE Unmarshal(_, _, _), Varints(_, _, _, _)

(* The packed values from i to the index to; one may be cut off by to. *)
Varints(b, i, to, vals) ==
    LET With(v) ==
            IF v.err # "" THEN v ELSE Varints(b, v.next, to, Append(vals, Signed(v.val, HalfBits)))
    IN  IF i >= to THEN Got(vals, i) ELSE With(Varint(b, i))

(* The value v of a field that is a number. *)
ReadScalar(field, old, v) ==
    IF v.err # "" THEN v
    ELSE Got(CASE field.kind = "int64" -> Signed(v.val, WordBits)
               [] field.kind = "bool" -> IF v.val = 0 THEN 0 ELSE 1
               [] field.kind = "enum" -> Signed(v.val, HalfBits)
               [] field.kind = "enums" -> Append(old, Signed(v.val, HalfBits)), v.next)

(* A message in the extent e, which is decoded into one that was there, into *)
(* a new one or into the next one of a list that is reused.                  *)
ReadMessage(field, old, b, e) ==
    LET Inner(m) == Unmarshal(field.of, m, Taken(b, e))
        Then(inner, new(_)) == IF inner.err # "" THEN Error(inner.err) ELSE Got(new(inner.val), e.next)
        Into(s) == Then(Inner(s.arr[s.len]), LAMBDA m : [s EXCEPT !.arr[s.len] = m]) IN
    CASE field.kind = "optional" ->
            Then(Inner(IF old = <<>> THEN NewMessage(field.of) ELSE old[1]), LAMBDA m : <<m>>)
      [] field.kind = "repeated" -> Then(Inner(NewMessage(field.of)), LAMBDA m : Append(old, m))
      [] field.kind = "reused" -> Into(Extended(old, field.of))

ReadDelimited(field, old, b, e) ==
    IF e.err # "" THEN e
    ELSE CASE field.kind = "bytes" -> Got(Taken(b, e), e.next)
           [] field.kind = "strings" -> Got(Append(old, Taken(b, e)), e.next)
           [] field.kind = "enums" -> Varints(b, e.val, e.next, old)
           [] OTHER -> ReadMessage(field, old, b, e)

(* A field of a message: its value and the index behind it. *)
WireType(field, wireType) ==
    CASE field.kind \in {"int64", "bool", "enum"} -> 0
      [] field.kind = "double" -> 1
      [] field.kind = "enums" /\ wireType = 0 -> 0
      [] OTHER -> 2

ReadField(field, old, wireType, b, i) ==
    IF wireType # WireType(field, wireType) THEN Error("wrong wireType")
    ELSE CASE wireType = 0 -> ReadScalar(field, old, Varint(b, i))
           [] wireType = 1 -> IF i + 7 > Len(b) THEN Error("ErrUnexpectedEOF")
                              ELSE Got(SubSeq(b, i, i + 7), i + 8)
           [] wireType = 2 -> ReadDelimited(field, old, b, Extent(b, i))

(* The loop over the fields from index i on.  A field that is not known is   *)
(* kept as it came.                                                          *)
RECURSIVE UnmarshalFrom(_, _, _, _)
UnmarshalField(type, m, b, i, tag) ==
    LET n == Signed(tag.val \div 8, HalfBits)
        wireType == tag.val % 8
        Then(r, new(_)) == IF r.err # "" THEN r ELSE UnmarshalFrom(type, new(r), b, r.next) IN
    IF tag.err # "" THEN tag
    ELSE IF wireType = 4 THEN Error("end group for non-group")
    ELSE IF n <= 0 THEN Error("illegal tag")
    ELSE IF n \in DOMAIN m.f
    THEN Then(ReadField(Fields[type][n], m.f[n], wireType, b, tag.next),
              LAMBDA r : [m EXCEPT !.f[n] = r.val])
    ELSE Then(skip(b, i), LAMBDA r : [m EXCEPT !.unknown = @ \o SubSeq(b, i, r.next - 1)])

UnmarshalFrom(type, m, b, i) ==
    IF i > Len(b) THEN Got(m, i) ELSE UnmarshalField(type, m, b, i, Varint(b, i))

Unmarshal(type, m, b) == UnmarshalFrom(type, m, b, 1)
-----------------------------------------------------------------------------
(* What a message says, without the memory it lies in and the sign of zero.  *)
RECURSIVE Content(_, _)
Content(type, m) ==
    <<m.unknown,
      [n \in DOMAIN m.f |->
          LET v == m.f[n]  field == Fields[type][n] IN
          CASE field.kind = "reused" -> [k \in 1..v.len |-> Content(field.of, v.arr[k])]
            [] field.kind \in {"repeated", "optional"} -> [k \in DOMAIN v |-> Content(field.of, v[k])]
            [] field.kind = "double" -> IF Present(field, v) THEN v ELSE ZeroDouble
            [] OTHER -> v]>>
=============================================================================
