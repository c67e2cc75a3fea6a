------------------------------ MODULE IntCodec ------------------------------
(***************************************************************************)
(* Encoding of integers (storage/codec/int.go): zigzag-coded differences,  *)
(* as one run, packed words, or words as they are.  Unsigned values are    *)
(* the same words read as integers.                                        *)
(***************************************************************************)
EXTENDS TimeCodec

ZigZagEncode(x) == IF x >= 0 THEN 2 * x ELSE -2 * x - 1

ZigZagDecode(v) == IF v % 2 = 0 THEN v \div 2 ELSE -((v + 1) \div 2)

\* int64 addition and subtraction wrap.
Wrap(x) == S(U(x))

-----------------------------------------------------------------------------
(* IntegerEncoder: values are the zigzag-coded differences *)

NewIntegerEncoder == [prev |-> 0, rle |-> TRUE, values |-> <<>>]

IntegerReset(e) == [e EXCEPT !.prev = 0, !.rle = TRUE, !.values = <<>>]

IntegerWrite(e, v) ==
    LET enc == ZigZagEncode(Wrap(v - e.prev))
        n == Len(e.values)
    IN  [prev |-> v, values |-> Append(e.values, enc),
         rle |-> IF n > 1 THEN e.rle /\ e.values[n] = enc ELSE e.rle]

IntRun(values) ==
    [enc |-> "rle", first |-> values[1], delta |-> values[2], n |-> Len(values) - 1]

IntPacked(values) ==
    LET packed == EncodeAll(Tail(values)) IN
    [err |-> packed.err, b |-> [enc |-> "packed", words |-> <<values[1]>> \o packed.words]]

IntRaw(values) == [enc |-> "raw", words |-> values]

\* Bytes: [err, b].  A first value that does not fit leaves all uncompressed.
IntegerBytes(e) ==
    IF e.rle /\ Len(e.values) > 2 THEN [err |-> FALSE, b |-> IntRun(e.values)]
    ELSE IF e.values = <<>> THEN [err |-> FALSE, b |-> <<>>]
    ELSE IF \E i \in DOMAIN e.values : e.values[i] > MaxValue
    THEN [err |-> FALSE, b |-> IntRaw(e.values)]
    ELSE IntPacked(e.values)

-----------------------------------------------------------------------------
(* IntegerDecoder *)

NewIntegerDecoder ==
    [values |-> <<>>, bytes |-> <<>>, i |-> 0, n |-> 0, prev |-> 0, first |-> FALSE,
     rleFirst |-> 0, rleDelta |-> 0, enc |-> "raw"]

\* mutant: the sum of the last block is kept
IntegerSetBytesKeepsPrev(d, b) ==
    [d EXCEPT !.enc = IF b = <<>> THEN "raw" ELSE b.enc,
              !.bytes = IF b = <<>> THEN <<>> ELSE IF b.enc = "rle" THEN <<b>> ELSE b.words,
              !.i = 0, !.n = 0, !.first = TRUE, !.rleFirst = 0, !.rleDelta = 0]

\* A run is one item of bytes, as it is read in one piece.
IntegerSetBytes(d, b) ==
    [d EXCEPT !.enc = IF b = <<>> THEN "raw" ELSE b.enc,
              !.bytes = IF b = <<>> THEN <<>> ELSE IF b.enc = "rle" THEN <<b>> ELSE b.words,
              !.i = 0, !.n = 0, !.prev = 0, !.first = TRUE, !.rleFirst = 0, !.rleDelta = 0]

\* decodeUncompressed, decodePacked and decodeRLE
IntegerRefill(d) ==
    LET head == Head(d.bytes)
        next == [d EXCEPT !.bytes = Tail(@), !.i = 0]
    IN  IF d.bytes = <<>> THEN d
        ELSE IF d.enc = "rle"
        THEN [next EXCEPT !.rleFirst = head.first, !.rleDelta = head.delta, !.n = head.n + 1]
        ELSE IF d.enc = "raw" \/ d.first
        THEN [next EXCEPT !.values = <<head>>, !.n = 1, !.first = (d.enc = "raw" /\ @)]
        ELSE [next EXCEPT !.values = Unpack(head), !.n = Selectors[SelectorOf(head)].n]

\* Next: [d, ok]
IntegerNext(d) ==
    LET moved == [d EXCEPT !.i = @ + 1]
        next == IF moved.i >= d.n THEN IntegerRefill(moved) ELSE moved
    IN  IF d.i >= d.n /\ d.bytes = <<>> THEN [d |-> d, ok |-> FALSE]
        ELSE [d |-> next, ok |-> next.i < next.n]

\* Read: [d, v].  A value of a run is computed from its position.
IntegerRead(d) ==
    LET v == IF d.enc = "rle"
             THEN Wrap(ZigZagDecode(d.rleFirst) + d.i * ZigZagDecode(d.rleDelta))
             ELSE Wrap(ZigZagDecode(d.values[d.i + 1]) + d.prev)
    IN  [d |-> IF d.enc = "rle" THEN d ELSE [d EXCEPT !.prev = v], v |-> v]

-----------------------------------------------------------------------------
(* Batches *)

\* [err, b].  Only the differences decide whether words can be packed.
IntegerArrayEncodeAll(src) ==
    LET deltas == [i \in DOMAIN src |->
                      ZigZagEncode(IF i = 1 THEN src[1] ELSE Wrap(src[i] - src[i - 1]))]
    IN  IF src = <<>> THEN [err |-> FALSE, b |-> <<>>]
        ELSE IF Len(deltas) > 2 /\ Equal(deltas) THEN [err |-> FALSE, b |-> IntRun(deltas)]
        ELSE IF TooBig(deltas) THEN [err |-> FALSE, b |-> IntRaw(deltas)]
        ELSE IntPacked(deltas)

\* The running sum of decoded differences.
IntegerSums(ws) ==
    LET sum[i \in 1..Len(ws)] ==
            Wrap(ZigZagDecode(ws[i]) + IF i = 1 THEN 0 ELSE sum[i - 1])
    IN  [i \in DOMAIN ws |-> sum[i]]

IntegerArrayDecodeAll(b) ==
    IF b = <<>> THEN <<>>
    ELSE CASE b.enc = "raw" -> IntegerSums(b.words)
           [] b.enc = "packed" -> IntegerSums(<<b.words[1]>> \o DecodeAll(Tail(b.words)))
           [] OTHER -> LET acc[i \in 0..b.n] ==
                               IF i = 0 THEN ZigZagDecode(b.first)
                               ELSE Wrap(acc[i - 1] + ZigZagDecode(b.delta))
                       IN  [i \in 1..b.n + 1 |-> acc[i - 1]]
=============================================================================
