------------------------------- MODULE Blocks -------------------------------
(***************************************************************************)
(* Blocks of points: the four codecs put together (storage/codec: the      *)
(* Encode and Decode functions of each type, utils.go, values.go, pool.go).*)
(* A block is encoded value by value (a flush), without compression (a     *)
(* flush of strings) or as a whole (a compaction), and decoded value by    *)
(* value or as a whole (a query, a compaction).  Encoders and decoders     *)
(* come from pools and keep what the last block left in them.              *)
(***************************************************************************)
EXTENDS IntCodec, FloatCodec, PlainCodec, Values

CONSTANTS
    History,        \* [kind, pts]: the blocks that may come first
    Inputs,         \* [kind, pts]: the blocks that may come last
    MaxBlocks       \* bound: blocks in a row through the same pools

Kinds == {"integer", "float", "boolean", "string"}

VARIABLES
    tenc, fenc,     \* the encoders that are pointers, and are shared through the pool
    tdec, vdec,     \* the decoders of the pools
    pc,             \* idle, failed, encoded, decoded
    cur,            \* the block on its way: [kind, pts, path]
    block,          \* its bytes: [type, ts, values]
    got,            \* what was decoded
    prev,           \* ghost: the points of the block before
    n               \* bound: blocks so far

vars == <<tenc, fenc, tdec, vdec, pc, cur, block, got, prev, n>>

NoBlock == <<>>

Init ==
    /\ tenc = NewTimeEncoder /\ fenc = NewFloatEncoder
    /\ tdec = NewTimeDecoder
    /\ vdec = [integer |-> NewIntegerDecoder, float |-> NewFloatDecoder,
               boolean |-> NewBooleanDecoder, string |-> NewStringDecoder]
    /\ pc = "idle" /\ cur = NoBlock /\ block = NoBlock /\ got = <<>> /\ prev = <<>> /\ n = 0

TimesOf(pts) == [i \in DOMAIN pts |-> pts[i].t]

ValuesOf(pts) == [i \in DOMAIN pts |-> pts[i].v]

-----------------------------------------------------------------------------
(* Encoding value by value *)

WriteTimes(pts) == FoldLeft(TimeWrite, TimeReset(tenc), TimesOf(pts))

\* [err, b].  Encoders other than the float one are copied to the callee.
WriteValues(kind, pts) ==
    LET vs == ValuesOf(pts) IN
    CASE kind = "integer" -> IntegerBytes(FoldLeft(IntegerWrite, IntegerReset(NewIntegerEncoder), vs))
      [] kind = "float"   -> FloatBytes(FloatFlush(FoldLeft(FloatWrite, FloatReset(fenc), vs)))
      [] kind = "boolean" -> BooleanBytes(FoldLeft(BooleanWrite, BooleanReset(NewBooleanEncoder), vs))
      [] OTHER            -> StringBytes(FoldLeft(StringWrite, StringReset(NewStringEncoder), vs))

\* packBlock
PackBlock(type, ts, values) == [type |-> type, ts |-> ts, values |-> values]

Begin(kind, pts, path) ==
    /\ n' = n + 1
    /\ prev' = IF cur = NoBlock THEN <<>> ELSE cur.pts
    /\ cur' = [kind |-> kind, pts |-> pts, path |-> path]
    /\ got' = <<>>

Finish(kind, t, v) ==
    /\ block' = IF t.err \/ v.err THEN NoBlock ELSE PackBlock(kind, t.b, v.b)
    /\ pc' = IF t.err \/ v.err THEN "failed" ELSE "encoded"

\* EncodeFloatBlockUsing, EncodeIntegerBlockUsing, EncodeBooleanBlockUsing, EncodeStringBlockUsing
EncodeBlock(kind, pts) ==
    /\ Begin(kind, pts, "values")
    /\ LET t == TimeBytes(WriteTimes(pts))
           v == WriteValues(kind, pts)
       IN  /\ Finish(kind, t, v)
           /\ tenc' = t.enc
           /\ fenc' = IF kind = "float" THEN FloatFlush(FoldLeft(FloatWrite, FloatReset(fenc), ValuesOf(pts)))
                      ELSE fenc
    /\ UNCHANGED <<tdec, vdec>>

\* EncodeRawStringBlockUsing
EncodeRawStringBlock(pts) ==
    /\ Begin("string", pts, "raw")
    /\ LET t == TimeRawBytes(WriteTimes(pts)) IN
         /\ Finish("string", t, StringRawBytes(FoldLeft(StringWrite, StringReset(NewStringEncoder), ValuesOf(pts))))
         /\ tenc' = t.enc
    /\ UNCHANGED <<fenc, tdec, vdec>>

-----------------------------------------------------------------------------
(* Encoding as a whole: EncodeFloatArrayBlock and its copies *)

ArrayEncodeAll(kind, vs) ==
    CASE kind = "integer" -> IntegerArrayEncodeAll(vs)
      [] kind = "float"   -> FloatArrayEncodeAll(vs)
      [] kind = "boolean" -> BooleanArrayEncodeAll(vs)
      [] OTHER            -> StringArrayEncodeAll(vs)

EncodeArrayBlock(kind, pts) ==
    /\ Begin(kind, pts, "array")
    /\ Finish(kind, TimeArrayEncodeAll(TimesOf(pts)), ArrayEncodeAll(kind, ValuesOf(pts)))
    /\ UNCHANGED <<tenc, fenc, tdec, vdec>>

-----------------------------------------------------------------------------
(* Decoding value by value *)

SetValueBytes(kind, d, b) ==
    CASE kind = "integer" -> IntegerSetBytes(d, b)
      [] kind = "float"   -> FloatSetBytes(d, b)
      [] kind = "boolean" -> BooleanSetBytes(d, b)
      [] OTHER            -> StringSetBytes(d, b)

\* Next of a value decoder: [d, ok]
ValueNext(kind, d) ==
    CASE kind = "integer" -> IntegerNext(d)
      [] kind = "float"   -> FloatNext(d)
      [] kind = "boolean" -> BooleanNext(d)
      [] OTHER            -> StringNext(d)

\* Read of a value decoder: [d, v]
ValueRead(kind, d) ==
    CASE kind = "integer" -> IntegerRead(d)
      [] kind = "float"   -> [d |-> d, v |-> d.val]
      [] kind = "boolean" -> [d |-> d, v |-> BooleanAt(d.bytes, d.i)]
      [] OTHER            -> StringRead(d)

BlockCount(b) == CountTimestamps(b.ts)

PutPoint(s, t, r) == [s EXCEPT !.t = t, !.v = r.d, !.out = Append(@, [t |-> t.v, v |-> r.v])]

\* t and v are what the Next of both decoders returns.
DecodeValue(kind, s, t, v) ==
    IF ~t.ok THEN [s EXCEPT !.t = t.d, !.more = FALSE]
    ELSE IF ~v.ok THEN [s EXCEPT !.t = t.d, !.v = v.d, !.more = FALSE]
    ELSE PutPoint(s, t.d, ValueRead(kind, v.d))

\* One round of for j < len(a) && tdec.Next() && vdec.Next().
DecodeStep(kind, s) ==
    IF s.more THEN DecodeValue(kind, s, TimeNext(s.t), ValueNext(kind, s.v)) ELSE s

Decoded(kind, end) ==
    /\ tdec' = end.t
    /\ vdec' = [vdec EXCEPT ![kind] = end.v]
    /\ got' = [by |-> "values", pts |-> end.out]

\* DecodeFloatBlock and its copies; DecodeBlock takes the type from the block.
DecodeBlock ==
    /\ pc = "encoded" /\ pc' = "decoded"
    /\ LET kind == block.type
           start == [t |-> TimeInit(tdec, block.ts), more |-> TRUE, out |-> <<>>,
                     v |-> SetValueBytes(kind, vdec[kind], block.values)]
       IN  Decoded(kind, FoldLeft(LAMBDA s, j : DecodeStep(kind, s), start,
                                  [j \in 1..BlockCount(block) |-> j]))
    /\ UNCHANGED <<tenc, fenc, cur, block, prev, n>>

-----------------------------------------------------------------------------
(* Decoding as a whole: DecodeFloatArrayBlock and its copies *)

ArrayDecodeAll(kind, b) ==
    CASE kind = "integer" -> [err |-> FALSE, out |-> IntegerArrayDecodeAll(b)]
      [] kind = "float"   -> FloatArrayDecodeAll(b)
      [] kind = "boolean" -> [err |-> FALSE, out |-> BooleanArrayDecodeAll(b)]
      [] OTHER            -> StringArrayDecodeAll(b)

\* Timestamps and values of an array need not be equally many.
DecodeArrayBlock ==
    /\ pc = "encoded" /\ pc' = "decoded"
    /\ got' = [by |-> "array", ts |-> TimeArrayDecodeAll(block.ts),
               vs |-> ArrayDecodeAll(block.type, block.values)]
    /\ UNCHANGED <<tenc, fenc, tdec, vdec, cur, block, prev, n>>

-----------------------------------------------------------------------------
\* The blocks that may come next: none while one is on its way.
Offered ==
    IF pc = "encoded" \/ n = MaxBlocks THEN {}
    ELSE IF n + 1 < MaxBlocks THEN History ELSE Inputs

Next ==
    \/ \E c \in Offered : EncodeBlock(c.kind, c.pts) \/ EncodeArrayBlock(c.kind, c.pts)
    \/ \E c \in Offered : c.kind = "string" /\ EncodeRawStringBlock(c.pts)
    \/ DecodeBlock
    \/ DecodeArrayBlock

Spec == Init /\ [][Next]_vars
-----------------------------------------------------------------------------
(* Properties *)

\* Every variable has its type: the timestamp decoder stays inside its buffer, the float
\* encoder's window has as many leading zeros as its field can hold (Delta), the packer's
\* queue fits.
TypeOK ==
    /\ pc \in {"idle", "failed", "encoded", "decoded"}
    /\ n \in 0..MaxBlocks
    /\ cur # NoBlock => cur.kind \in Kinds /\ cur.path \in {"values", "raw", "array"}
    /\ block # NoBlock => block.type = cur.kind
    /\ tdec.i \in -1..tdec.n + Len(tdec.ts)
    /\ fenc.win.leading \in -1..FloatBits \div 2 - 1
    /\ Len(tenc.s8.q) + tenc.s8.h <= BufLen

\* The uncompressed format means two things.  RawBytes and the array decoders take its
\* words for timestamps; Bytes, TimeArrayEncodeAll and decodeRaw take them for differences.
\* This block was written by one side and read by the other; see UncompressedBack.
OtherFormat ==
    block.ts.enc = "raw" /\ IF cur.path = "raw" THEN got.by = "values" ELSE got.by = "array"

\* What the other side takes for the i-th of them: their sum so far, or the difference.
Misread(i) ==
    LET t(j) == cur.pts[j].t IN
    IF i = 1 THEN t(1)
    ELSE IF got.by = "array" THEN Wrap(t(i) - t(i - 1))
    ELSE Wrap(FoldLeft(+, 0, [j \in 1..i |-> t(j)]))

DecodedPoints ==
    IF got.by = "values" THEN got.pts
    ELSE IF got.vs.err \/ Len(got.ts) # Len(got.vs.out) THEN <<>>
    ELSE [i \in DOMAIN got.ts |-> [t |-> got.ts[i], v |-> got.vs.out[i]]]

\* What an encoder may refuse.
Refused(kind, vs, path) ==
    \/ kind = "float" /\ Range(vs) \cap NaNs # {}
    \/ kind = "float" /\ path = "array" /\ SumIsNaN(Tail(vs))
    \/ kind = "string" /\ path = "array" /\ SourceSize(vs) > MaxEncoded

\* Whatever was decoded with them before, the decoders return the points that were
\* encoded, whether value by value or as a whole on either side: runs and their ends,
\* packed words, divisors, differences that wrap, windows of bits, bytes half filled.
\* A block says how many it has.  Refused are a NaN, and in a whole block also floats whose
\* running sum without the first is one, and strings that are too large together.
\* Where uncompressed timestamps are read by the other side the values are right, and the
\* timestamps are sums (read value by value) or differences (read as a whole) of the right ones.
ReadBack ==
    /\ pc = "encoded" => BlockCount(block) = Len(cur.pts)
    /\ pc = "failed" => Refused(cur.kind, ValuesOf(cur.pts), cur.path)
    /\ pc = "decoded" /\ ~OtherFormat => DecodedPoints = cur.pts
    /\ pc = "decoded" /\ OtherFormat =>
         DecodedPoints = [i \in DOMAIN cur.pts |-> [cur.pts[i] EXCEPT !.t = Misread(i)]]

\* A block whose timestamps are uncompressed has the points it was made of for whoever
\* decodes it: a flush's strings read value by value, and differences written by Bytes or
\* TimeArrayEncodeAll read by the array decoders ("an uncompressed format using 8 bytes
\* per timestamp"; "Read returns the next timestamp from the decoder").
UncompressedBack == pc = "decoded" /\ block.ts.enc = "raw" => DecodedPoints = cur.pts

\* The last of the points with time t.
LastAt(a, t) == a[CHOOSE i \in DOMAIN a : a[i].t = t /\ \A j \in i + 1..Len(a) : a[j].t # t]

\* A range cut out of slice a and what is left without it are all of the slice.
RangesPart(a) ==
    LET in(lo, hi) == SelectSeq(a, LAMBDA p : lo <= p.t /\ p.t <= hi)
        out(lo, hi) == SelectSeq(a, LAMBDA p : p.t < lo \/ hi < p.t)
    IN  \A lo, hi \in {t + d : t \in Times(a), d \in {0, 1}} :
            Include(a, lo, hi) = in(lo, hi) /\ Exclude(a, lo, hi) = out(lo, hi)

\* m has every time of a and b once, in order, with its newest point.
IsNewest(m, a, b) ==
    LET newest(t) == LastAt(IF t \in Times(b) THEN b ELSE a, t) IN
    /\ Strictly(m)
    /\ Times(m) = Times(a) \cup Times(b)
    /\ \A i \in DOMAIN m : m[i] = newest(m[i].t)

\* Merging the slices of two blocks, sorted or not, gives every time of both once and in
\* order, with the point of the second where both have one, and the last where one has
\* several; ranges cut from a slice lose and repeat nothing (Deduplicate, Merge,
\* FindRange, search, Include, Exclude).
MergedNewest ==
    /\ cur # NoBlock => RangesPart(Deduplicate(cur.pts))
    /\ prev # <<>> => IsNewest(Merge(prev, cur.pts), prev, cur.pts)
=============================================================================
