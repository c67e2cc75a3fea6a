----------------------------- MODULE FloatCodec -----------------------------
(***************************************************************************)
(* Encoding of floats (storage/codec/float.go): each value is the xor with *)
(* the one before it, cut to the window of bits that are not zero.  A      *)
(* float is its bits, a number below 2^FloatBits; a slice of bytes is the  *)
(* sequence of its bits, without the type in front and the zeros that fill *)
(* the last byte.  A NaN ends the values.                                  *)
(***************************************************************************)
EXTENDS Integers, Sequences, SequencesExt

CONSTANTS
    FloatBits,      \* 64; a power of 2
    LogBits,        \* 6: FloatBits = 2^LogBits
    NaNs,           \* the bit patterns IsNaN accepts
    Uvnan,          \* the one that math.NaN() is
    FloatAdd(_, _)  \* the addition of two floats, on their bits

ASSUME FloatAssumption ==
    /\ LogBits \in Nat \ {0, 1} /\ FloatBits = 2^LogBits
    /\ Uvnan \in NaNs /\ NaNs \subseteq 0..2^FloatBits - 1
    /\ \A x, y \in 0..2^FloatBits - 1 :
         /\ FloatAdd(x, y) \in 0..2^FloatBits - 1
         /\ x \in NaNs \/ y \in NaNs => FloatAdd(x, y) \in NaNs

BitOf(x, k) == (x \div 2^k) % 2

Xor(x, y) ==
    LET put(acc, k) == acc + (IF BitOf(x, k) # BitOf(y, k) THEN 2^k ELSE 0)
    IN  FoldLeft(put, 0, [k \in 1..FloatBits |-> k - 1])

LeadingZeros(x) == CHOOSE n \in 0..FloatBits : x < 2^(FloatBits - n) /\ (n = FloatBits \/ x >= 2^(FloatBits - n - 1))

TrailingZeros(x) == CHOOSE n \in 0..FloatBits : x % 2^n = 0 /\ (n = FloatBits \/ BitOf(x, n) = 1)

\* WriteBits: the n low bits of v, the highest first.
BitsOf(v, n) == [k \in 1..n |-> BitOf(v, n - k)]

Number(bits) == FoldLeft(LAMBDA acc, b : 2 * acc + b, 0, bits)

-----------------------------------------------------------------------------
(* FloatEncoder *)

NoWindow == [leading |-> -1, trailing |-> 0]

NewFloatEncoder == [val |-> 0, err |-> FALSE, win |-> NoWindow, out |-> <<>>, first |-> TRUE, finished |-> FALSE]

FloatReset(e) == NewFloatEncoder

\* mutant: the count of leading zeros keeps its highest bit
DeltaUnclamped(prev, cur, win) ==
    LET x == Xor(cur, prev)
        leading == LeadingZeros(x)
        trailing == TrailingZeros(x)
        sigbits == FloatBits - leading - trailing
        width == FloatBits - win.leading - win.trailing
    IN  IF x = 0 THEN [out |-> <<0>>, win |-> win]
        ELSE IF win # NoWindow /\ leading >= win.leading /\ trailing >= win.trailing
        THEN [out |-> <<1, 0>> \o BitsOf(x \div 2^win.trailing, width), win |-> win]
        ELSE [out |-> <<1, 1>> \o BitsOf(leading, LogBits - 1) \o BitsOf(sigbits, LogBits)
                        \o BitsOf(x \div 2^trailing, sigbits),
              win |-> [leading |-> leading, trailing |-> trailing]]

\* What is written for a value, given the one before it and the window, and the
\* new window.  The count of leading zeros loses its highest bit; a window of all
\* bits is written as 0.
Delta(prev, cur, win) ==
    LET x == Xor(cur, prev)
        leading == LeadingZeros(x) % 2^(LogBits - 1)
        trailing == TrailingZeros(x)
        sigbits == FloatBits - leading - trailing
        width == FloatBits - win.leading - win.trailing
    IN  IF x = 0 THEN [out |-> <<0>>, win |-> win]
        ELSE IF win # NoWindow /\ leading >= win.leading /\ trailing >= win.trailing
        THEN [out |-> <<1, 0>> \o BitsOf(x \div 2^win.trailing, width), win |-> win]
        ELSE [out |-> <<1, 1>> \o BitsOf(leading, LogBits - 1) \o BitsOf(sigbits, LogBits)
                        \o BitsOf(x \div 2^trailing, sigbits),
              win |-> [leading |-> leading, trailing |-> trailing]]

FloatWrite(e, v) ==
    LET d == Delta(e.val, v, e.win) IN
    IF v \in NaNs /\ ~e.finished THEN [e EXCEPT !.err = TRUE]
    ELSE IF e.first THEN [e EXCEPT !.val = v, !.first = FALSE, !.out = @ \o BitsOf(v, FloatBits)]
    ELSE [e EXCEPT !.val = v, !.win = d.win, !.out = @ \o d.out]

FloatFlush(e) == IF e.finished THEN e ELSE FloatWrite([e EXCEPT !.finished = TRUE], Uvnan)

FloatBytes(e) == [err |-> e.err, b |-> e.out]

-----------------------------------------------------------------------------
(* BitReader.  The end is noticed when nothing is left; a number cut short   *)
(* by the end is filled with zeros.                                          *)

ReadBits(r, n) ==
    LET have == IF n <= Len(r) THEN SubSeq(r, 1, n) ELSE r \o [k \in 1..n - Len(r) |-> 0]
    IN  [v |-> Number(have), r |-> SubSeq(r, n + 1, Len(r)), eof |-> r = <<>>]

-----------------------------------------------------------------------------
(* FloatDecoder *)

NewFloatDecoder == [val |-> 0, leading |-> 0, trailing |-> 0, r |-> <<>>, first |-> FALSE, finished |-> FALSE, err |-> FALSE]

FloatSetBytes(d, b) ==
    LET head == ReadBits(b, FloatBits) IN
    [val |-> IF b = <<>> THEN Uvnan ELSE head.v, leading |-> 0, trailing |-> 0,
     r |-> IF b = <<>> THEN d.r ELSE head.r, first |-> TRUE, finished |-> FALSE, err |-> FALSE]

\* The window that follows the bits <<1, 1>>.
ReadWindow(d, r) ==
    LET lead == ReadBits(r, LogBits - 1)
        sig == ReadBits(lead.r, LogBits)
        mbits == IF sig.v = 0 THEN FloatBits ELSE sig.v
    IN  [d EXCEPT !.leading = lead.v, !.trailing = FloatBits - lead.v - mbits, !.r = sig.r,
                  !.err = lead.eof \/ sig.eof]

\* The value that follows the window d reads with: val is the xor with the last.
FloatValue(d, sig, val) ==
    IF d.err \/ sig.eof THEN [d |-> [d EXCEPT !.err = TRUE], ok |-> FALSE]
    ELSE IF val = Uvnan THEN [d |-> [d EXCEPT !.r = sig.r, !.finished = TRUE], ok |-> FALSE]
    ELSE [d |-> [d EXCEPT !.r = sig.r, !.val = val], ok |-> TRUE]

FloatBitsRead(d, sig) == FloatValue(d, sig, Xor(d.val, sig.v * 2^d.trailing))

ReadValue(d) == FloatBitsRead(d, ReadBits(d.r, FloatBits - d.leading - d.trailing))

\* The bit that says whether there is a new window.
FloatWide(d, wide) ==
    ReadValue(IF wide.v = 0 THEN [d EXCEPT !.r = wide.r, !.err = wide.eof]
              ELSE ReadWindow(d, wide.r))

\* The bit that says whether the value differs from the last.
FloatChanged(d, changed) ==
    IF changed.eof THEN [d |-> [d EXCEPT !.err = TRUE], ok |-> FALSE]
    ELSE IF changed.v = 0 THEN [d |-> [d EXCEPT !.r = changed.r], ok |-> TRUE]
    ELSE FloatWide(d, ReadBits(changed.r, 1))

\* Next: [d, ok]; the value is d.val.
FloatNext(d) ==
    IF d.err \/ d.finished THEN [d |-> d, ok |-> FALSE]
    ELSE IF d.first
    THEN [d |-> [d EXCEPT !.first = FALSE, !.finished = (d.val = Uvnan)], ok |-> d.val # Uvnan]
    ELSE FloatChanged(d, ReadBits(d.r, 1))

-----------------------------------------------------------------------------
(* Batches *)

\* The running sum over all values but the first is how a NaN is noticed.  It is one
\* as well when opposite infinities meet in it, and finite values can overflow to one.
SumIsNaN(src) == FoldLeft(FloatAdd, 0, src) \in NaNs

\* [err, b]
FloatArrayEncodeAll(src) ==
    LET all == Append(src, Uvnan)
        put(acc, x) ==
            LET d == Delta(acc.prev, x, acc.win)
            IN  [prev |-> x, win |-> d.win, out |-> acc.out \o d.out]
        start == [prev |-> all[1], win |-> NoWindow, out |-> BitsOf(all[1], FloatBits)]
    IN  IF src # <<>> /\ src[1] \in NaNs THEN [err |-> TRUE, b |-> <<>>]
        ELSE IF src # <<>> /\ SumIsNaN(Tail(src)) THEN [err |-> TRUE, b |-> <<>>]
        ELSE [err |-> FALSE, b |-> FoldLeft(put, start, Tail(all)).out]

\* The state of FloatArrayDecodeAll is [val, meaningful, trailing, r, out, pc].
ArrayEOF(s) == [s EXCEPT !.pc = "eof"]

ArrayWindow(s, lead, sig) ==
    IF lead.eof THEN ArrayEOF(s)
    ELSE IF sig.v > 0
    THEN [s EXCEPT !.r = sig.r, !.meaningful = sig.v, !.trailing = FloatBits - lead.v - sig.v]
    ELSE [s EXCEPT !.r = sig.r, !.meaningful = FloatBits, !.trailing = 0]

ReadArrayWindow(s, lead) == ArrayWindow(s, lead, ReadBits(lead.r, LogBits))

ArrayValue(s, sig, val) ==
    IF s.pc = "eof" \/ sig.eof THEN ArrayEOF(s)
    ELSE IF val = Uvnan THEN [s EXCEPT !.r = sig.r, !.pc = "end"]
    ELSE [s EXCEPT !.r = sig.r, !.val = val, !.out = Append(@, val)]

ArrayBitsRead(s, sig) == ArrayValue(s, sig, Xor(s.val, sig.v * 2^s.trailing))

ReadArrayValue(s) == ArrayBitsRead(s, ReadBits(s.r, s.meaningful))

ArrayWide(s, wide) ==
    IF wide.eof THEN ArrayEOF(s)
    ELSE ReadArrayValue(IF wide.v = 0 THEN [s EXCEPT !.r = wide.r]
                        ELSE ReadArrayWindow(s, ReadBits(wide.r, LogBits - 1)))

ArrayChanged(s, changed) ==
    IF changed.eof THEN ArrayEOF(s)
    ELSE IF changed.v = 0 THEN [s EXCEPT !.r = changed.r, !.out = Append(@, s.val)]
    ELSE ArrayWide(s, ReadBits(changed.r, 1))

\* [err, out].  Every value takes a bit at least.
FloatArrayDecodeAll(b) ==
    LET head == ReadBits(b, FloatBits)
        start == [val |-> head.v, meaningful |-> FloatBits, trailing |-> 0, r |-> head.r,
                  out |-> <<head.v>>, pc |-> "read"]
        step(s, k) == IF s.pc # "read" THEN s ELSE ArrayChanged(s, ReadBits(s.r, 1))
        result(s) == IF s.pc = "eof" THEN [err |-> TRUE, out |-> <<>>]
                     ELSE [err |-> FALSE, out |-> s.out]
    IN  IF Len(b) < FloatBits \/ head.v = Uvnan THEN [err |-> FALSE, out |-> <<>>]
        ELSE result(FoldLeft(step, start, b))
=============================================================================
