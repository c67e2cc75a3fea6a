----------------------------- MODULE PlainCodec -----------------------------
(***************************************************************************)
(* Encoding of booleans, one bit each (storage/codec/bool.go), and of      *)
(* strings, each after its length (storage/codec/string.go).  A string is  *)
(* a sequence of bytes, and its length takes one.                          *)
(***************************************************************************)
EXTENDS Integers, Sequences, SequencesExt

CONSTANTS
    ByteBits,       \* 8
    MaxEncoded      \* 2^32 - 1: the bytes an array of strings may take

ASSUME ByteAssumption == ByteBits \in Nat \ {0} /\ MaxEncoded \in Nat

-----------------------------------------------------------------------------
(* BooleanEncoder *)

NewBooleanEncoder == [bytes |-> <<>>, b |-> 0, i |-> 0, n |-> 0]

BooleanReset(e) == NewBooleanEncoder

\* flush: the byte is filled with zeros, also when nothing is in it.
BooleanFlush(e) ==
    [e EXCEPT !.bytes = Append(@, e.b * 2^(ByteBits - e.i)), !.b = 0, !.i = 0]

BooleanWrite(e, v) ==
    LET f == IF e.i >= ByteBits THEN BooleanFlush(e) ELSE e IN
    [f EXCEPT !.b = 2 * @ + (IF v THEN 1 ELSE 0), !.i = @ + 1, !.n = @ + 1]

BooleanBytes(e) ==
    LET f == BooleanFlush(e) IN [err |-> FALSE, b |-> [n |-> f.n, bytes |-> f.bytes]]

-----------------------------------------------------------------------------
(* BooleanDecoder *)

NewBooleanDecoder == [bytes |-> <<>>, i |-> 0, n |-> 0]

BooleanSetBytes(d, b) ==
    LET room == Len(b.bytes) * ByteBits IN
    IF b = <<>> THEN d
    ELSE [bytes |-> b.bytes, i |-> -1, n |-> IF room < b.n THEN room ELSE b.n]

BooleanNext(d) == [d |-> [d EXCEPT !.i = @ + 1], ok |-> d.i + 1 < d.n]

BooleanAt(bytes, i) == (bytes[i \div ByteBits + 1] \div 2^(ByteBits - 1 - (i % ByteBits))) % 2 = 1

BooleanArrayEncodeAll(src) ==
    LET bit(i) == IF i <= Len(src) /\ src[i] THEN 1 ELSE 0
        byte(k) == FoldLeft(LAMBDA acc, j : 2 * acc + bit((k - 1) * ByteBits + j), 0,
                            [j \in 1..ByteBits |-> j])
    IN  [err |-> FALSE,
         b |-> [n |-> Len(src), bytes |-> [k \in 1..(Len(src) + ByteBits - 1) \div ByteBits |-> byte(k)]]]

BooleanArrayDecodeAll(b) ==
    LET room == Len(b.bytes) * ByteBits IN
    IF b = <<>> THEN <<>>
    ELSE [i \in 1..(IF room < b.n THEN room ELSE b.n) |-> BooleanAt(b.bytes, i - 1)]

-----------------------------------------------------------------------------
(* StringEncoder *)

NewStringEncoder == <<>>

StringReset(e) == <<>>

StringWrite(e, s) == Append(e, Len(s)) \o s

\* A library (external): some bijection, and not the identity.
Snappy(data) == [snappy |-> TRUE, data |-> Reverse(data)]

SnappyDecode(b) == Reverse(b.data)

StringBytes(e) == [err |-> FALSE, b |-> Snappy(e)]

StringRawBytes(e) == [err |-> FALSE, b |-> [snappy |-> FALSE, data |-> e]]

Plain(b) == IF b = <<>> THEN <<>> ELSE IF b.snappy THEN SnappyDecode(b) ELSE b.data

-----------------------------------------------------------------------------
(* StringDecoder *)

NewStringDecoder == [b |-> <<>>, l |-> 0, i |-> 0, err |-> FALSE]

StringSetBytes(d, b) == [b |-> Plain(b), l |-> 0, i |-> 0, err |-> FALSE]

StringNext(d) ==
    IF d.err THEN [d |-> d, ok |-> FALSE]
    ELSE [d |-> [d EXCEPT !.i = @ + d.l], ok |-> d.i + d.l < Len(d.b)]

\* Read: [d, v]
StringRead(d) ==
    LET len == d.b[d.i + 1]
        upper == d.i + 1 + len
        moved == [d EXCEPT !.l = len + 1]
    IN  IF upper > Len(d.b) THEN [d |-> [moved EXCEPT !.err = TRUE], v |-> <<>>]
        ELSE [d |-> moved, v |-> SubSeq(d.b, d.i + 2, upper)]

\* The bytes set aside: binary.MaxVarintLen32 for the length of each string.
SourceSize(src) == FoldLeft(LAMBDA n, s : n + 5 + Len(s), 2, src)

\* ErrStringArrayEncodeTooLarge, also where snappy.MaxEncodedLen refuses the length.
StringArrayEncodeAll(src) ==
    IF SourceSize(src) > MaxEncoded THEN [err |-> TRUE, b |-> <<>>]
    ELSE [err |-> FALSE, b |-> IF src = <<>> THEN Snappy(<<>>) ELSE Snappy(FoldLeft(StringWrite, <<>>, src))]

\* [err, out]
StringArrayDecodeAll(b) ==
    LET data == Plain(b)
        from[i \in 1..Len(data) + 1] ==
            IF i > Len(data) THEN [err |-> FALSE, out |-> <<>>]
            ELSE IF i + data[i] > Len(data) THEN [err |-> TRUE, out |-> <<>>]
            ELSE LET rest == from[i + data[i] + 1] IN
                 [rest EXCEPT !.out = <<SubSeq(data, i + 1, i + data[i])>> \o @]
    IN  from[1]
=============================================================================
