------------------------------ MODULE TimeCodec ------------------------------
(***************************************************************************)
(* Encoding of timestamps (storage/codec/timestamp.go): differences,       *)
(* divided by a power of the base, then one run, packed words, or words as *)
(* they are.  There is a streaming encoder and decoder, kept in pools, and *)
(* a batch encoder and decoder.  The header byte, the big-endian words and *)
(* the varints are the fields of a record; <<>> is the empty slice.        *)
(***************************************************************************)
EXTENDS Simple8b

CONSTANTS
    Bits,           \* the width of an integer, 64 in the code
    Base,           \* 10
    MaxExp          \* 12: the divisors are Base^0 .. Base^MaxExp

ASSUME WidthAssumption ==
    /\ Bits \in Nat /\ Bits > Payload
    /\ Base \in Nat /\ Base > 1 /\ MaxExp \in Nat

U(x) == x % 2^Bits

S(x) == IF x >= 2^(Bits - 1) THEN x - 2^Bits ELSE x

\* Each value after the first minus the one before it.
Deltas(ts) == [i \in DOMAIN ts |-> IF i = 1 THEN ts[1] ELSE U(ts[i] - ts[i - 1])]

\* The first value, then each word added to the sum of those before it.
PrefixSum(ws) ==
    LET sum[i \in 1..Len(ws)] == IF i = 1 THEN ws[1] ELSE U(sum[i - 1] + ws[i])
    IN  [i \in DOMAIN ws |-> sum[i]]

\* The exponent of the largest divisor of all deltas.
Divisor(deltas) ==
    CHOOSE e \in 0..MaxExp :
        /\ \A i \in 2..Len(deltas) : deltas[i] % Base^e = 0
        /\ \A x \in e + 1..MaxExp : \E i \in 2..Len(deltas) : deltas[i] % Base^x # 0

Equal(deltas) == \A i \in 3..Len(deltas) : deltas[i] = deltas[2]

TooBig(deltas) == \E i \in 2..Len(deltas) : deltas[i] > MaxValue

RawTimes(ws) == [enc |-> "raw", words |-> ws]

RunOfTimes(deltas, e) ==
    [enc |-> "rle", exp |-> e, first |-> deltas[1], delta |-> deltas[2] \div Base^e,
     n |-> Len(deltas)]

-----------------------------------------------------------------------------
(* TimeEncoder *)

NewTimeEncoder == [ts |-> <<>>, s8 |-> NewEncoder]

TimeReset(e) == [e EXCEPT !.ts = <<>>, !.s8 = EncoderReset(@)]

TimeWrite(e, t) == [e EXCEPT !.ts = Append(@, U(t))]

Packed(deltas, x, s8) ==
    [enc |-> [ts |-> deltas, s8 |-> s8], err |-> s8.err,
     b |-> [enc |-> "packed", exp |-> x, first |-> deltas[1], words |-> s8.words]]

\* encodePacked
PackTimes(e, deltas, x) ==
    LET put(s8, d) == EncoderWrite(s8, d \div Base^x) IN
    Packed(deltas, x, EncoderBytes(FoldLeft(put, e.s8, Tail(deltas))))

\* Bytes: [enc, err, b]
TimeBytes(e) ==
    LET deltas == Deltas(e.ts)
        left == [e EXCEPT !.ts = deltas]
    IN  IF e.ts = <<>> THEN [enc |-> e, err |-> FALSE, b |-> <<>>]
        ELSE IF Equal(deltas) /\ Len(deltas) > 1
        THEN [enc |-> left, err |-> FALSE, b |-> RunOfTimes(deltas, Divisor(deltas))]
        ELSE IF TooBig(deltas) THEN [enc |-> left, err |-> FALSE, b |-> RawTimes(deltas)]
        ELSE PackTimes(e, deltas, Divisor(deltas))

\* RawBytes: the timestamps as they were written, no differences.
TimeRawBytes(e) ==
    [enc |-> e, err |-> FALSE, b |-> IF e.ts = <<>> THEN <<>> ELSE RawTimes(e.ts)]

-----------------------------------------------------------------------------
(* TimeDecoder *)

NewTimeDecoder == [v |-> 0, i |-> 0, n |-> 0, ts |-> <<>>, enc |-> "raw", rleDelta |-> 0, s8 |-> NewDecoder]

DecodePacked(d, b) ==
    LET r == ReadAllOf(SetBytes(d.s8, b.words))
        gaps == [i \in DOMAIN r.out |-> U(r.out[i] * Base^b.exp)]
    IN  [d EXCEPT !.s8 = r.d, !.i = 0, !.ts = PrefixSum(<<b.first>> \o gaps)]

DecodeRLE(d, b) ==
    LET delta == U(b.delta * Base^b.exp) IN
    [d EXCEPT !.v = S(U(b.first - delta)), !.rleDelta = S(delta), !.i = -1, !.n = b.n]

DecodeRaw(d, b) == [d EXCEPT !.i = 0, !.ts = PrefixSum(b.words)]

\* Init
TimeInit(d, b) ==
    LET fresh == [d EXCEPT !.v = 0, !.i = 0, !.ts = <<>>]
        typed == IF b = <<>> THEN fresh ELSE [fresh EXCEPT !.enc = b.enc]
    IN  IF b = <<>> THEN typed
        ELSE CASE b.enc = "raw" -> DecodeRaw(typed, b)
               [] b.enc = "rle" -> DecodeRLE(typed, b)
               [] OTHER -> DecodePacked(typed, b)

\* Next: [d, ok]; the value is d.v.
TimeNext(d) ==
    IF d.enc = "rle"
    THEN IF d.i >= d.n THEN [d |-> d, ok |-> FALSE]
         ELSE [d |-> [d EXCEPT !.i = @ + 1, !.v = S(U(@ + d.rleDelta))], ok |-> d.i + 1 < d.n]
    ELSE IF d.i >= Len(d.ts) THEN [d |-> d, ok |-> FALSE]
         ELSE [d |-> [d EXCEPT !.i = @ + 1, !.v = S(d.ts[d.i + 1])], ok |-> TRUE]

CountTimestamps(b) ==
    IF b = <<>> THEN 0
    ELSE CASE b.enc = "raw" -> Len(b.words)
           [] b.enc = "rle" -> b.n
           [] OTHER -> CountBytes(b.words) + 1

-----------------------------------------------------------------------------
(* Batches *)

\* [err, b]
TimeArrayEncodeAll(src) ==
    LET deltas == Deltas([i \in DOMAIN src |-> U(src[i])])
        x == Divisor(deltas)
        packed == EncodeAll([i \in 1..Len(deltas) - 1 |-> deltas[i + 1] \div Base^x])
    IN  IF src = <<>> THEN [err |-> FALSE, b |-> <<>>]
        ELSE IF Len(deltas) > 1 /\ Equal(deltas)
        THEN [err |-> FALSE, b |-> RunOfTimes(deltas, x)]
        ELSE IF TooBig(deltas) THEN [err |-> FALSE, b |-> RawTimes(deltas)]
        ELSE [err |-> packed.err,
              b |-> [enc |-> "packed", exp |-> x, first |-> deltas[1], words |-> packed.words]]

\* The words of the uncompressed format are taken for timestamps.
UncompressedTimes(b) == b.words

SimpleTimes(b) ==
    LET gaps == DecodeAll(b.words) IN
    PrefixSum(<<b.first>> \o [i \in DOMAIN gaps |-> U(gaps[i] * Base^b.exp)])

RLETimes(b) ==
    LET delta == U(b.delta * Base^b.exp)
        acc[i \in 1..b.n] == IF i = 1 THEN b.first ELSE U(acc[i - 1] + delta)
    IN  [i \in 1..b.n |-> acc[i]]

TimeArrayDecodeAll(b) ==
    LET words == CASE b.enc = "raw" -> UncompressedTimes(b)
                   [] b.enc = "rle" -> RLETimes(b)
                   [] OTHER -> SimpleTimes(b)
    IN  IF b = <<>> THEN <<>> ELSE [i \in DOMAIN words |-> S(words[i])]
=============================================================================
