------------------------------ MODULE Simple8b ------------------------------
(***************************************************************************)
(* Packing of unsigned integers into words (pkg/encoding/simple8b).  A     *)
(* word has a selector and a payload; the selector says how many values    *)
(* of how many bits the payload holds.  The first two selectors have no    *)
(* payload: they stand for runs of ones.  A slice of bytes is a sequence   *)
(* of words, each in one piece.                                            *)
(***************************************************************************)
EXTENDS Integers, Sequences, SequencesExt

CONSTANTS
    Payload,        \* bits of a word below its selector, 60 in the code
    Selectors       \* [n, bit] in the order of the selectors

ASSUME SelectorsAssumption ==
    /\ Payload \in Nat \ {0}
    /\ \A s \in DOMAIN Selectors : Selectors[s].n * Selectors[s].bit <= Payload
    /\ \A s \in 3..Len(Selectors) : Selectors[s].bit > 0
    /\ Selectors[1].bit = 0 /\ Selectors[2].bit = 0 /\ Selectors[1].n > Selectors[2].n
    /\ Selectors[Len(Selectors)] = [n |-> 1, bit |-> Payload]

MaxValue == 2^Payload - 1

Runs == 1..2

SelectorOf(word) == word \div 2^Payload + 1

-----------------------------------------------------------------------------
(* One word *)

Pack(s, src) ==
    LET bit == Selectors[s].bit
        put(acc, k) == acc + src[k] * 2^(bit * (k - 1))
    IN  (s - 1) * 2^Payload
          + IF s \in Runs THEN 0
            ELSE FoldLeft(put, 0, [k \in 1..Selectors[s].n |-> k])

Unpack(word) ==
    LET s == SelectorOf(word)
        bit == Selectors[s].bit
    IN  [k \in 1..Selectors[s].n |->
            IF s \in Runs THEN 1 ELSE (word \div 2^(bit * (k - 1))) % 2^bit]

\* A run asks for ones in all of src, not only in the part it would pack.
CanPack(src, s) ==
    /\ Len(src) >= Selectors[s].n
    /\ IF Selectors[s].bit = 0 THEN \A k \in DOMAIN src : src[k] = 1
       ELSE \A k \in 1..Selectors[s].n : src[k] <= 2^Selectors[s].bit - 1

\* As many values as fit; n = 0 stands for the error of a value out of bounds.
Encode(src) ==
    LET fit == {s \in DOMAIN Selectors : CanPack(src, s)}
        s == CHOOSE x \in fit : \A y \in fit : x <= y
    IN  IF fit = {} THEN [word |-> 0, n |-> 0]
        ELSE [word |-> Pack(s, src), n |-> Selectors[s].n]

-----------------------------------------------------------------------------
(* Whole slices *)

\* The next word of EncodeAll.  A run is looked for in a window of the length of
\* the longer or of the shorter run.
NextWord(src) ==
    LET long == Selectors[1].n
        short == Selectors[2].n
        window == IF Len(src) >= long THEN long ELSE short
        ones(k) == \A i \in 1..k : src[i] = 1
        fit == {s \in DOMAIN Selectors \ Runs : CanPack(src, s)}
        s == CHOOSE x \in fit : \A y \in fit : x <= y
    IN  IF Len(src) >= short /\ window = long /\ ones(long) THEN [word |-> Pack(1, src), n |-> long]
        ELSE IF Len(src) >= short /\ ones(short) THEN [word |-> Pack(2, src), n |-> short]
        ELSE IF fit = {} THEN [word |-> 0, n |-> 0]
        ELSE [word |-> Pack(s, src), n |-> Selectors[s].n]

\* [err, words]
EncodeAll(src) ==
    LET from[i \in 1..Len(src) + 1] ==
            IF i > Len(src) THEN [err |-> FALSE, words |-> <<>>]
            ELSE LET w == NextWord(SubSeq(src, i, Len(src))) IN
                 IF w.n = 0 THEN [err |-> TRUE, words |-> <<>>]
                 ELSE LET rest == from[i + w.n] IN
                      [rest EXCEPT !.words = <<w.word>> \o @]
    IN  from[1]

DecodeAll(words) == FlattenSeq([i \in DOMAIN words |-> Unpack(words[i])])

CountBytes(words) ==
    FoldLeft(LAMBDA acc, w : acc + Selectors[SelectorOf(w)].n, 0, words)

-----------------------------------------------------------------------------
(* Encoder: a buffer from which words are taken when it is full *)

BufLen == Selectors[1].n

\* q is buf[h:t]
NewEncoder == [h |-> 0, q |-> <<>>, words |-> <<>>, err |-> FALSE]

EncoderReset(e) == [e EXCEPT !.h = 0, !.q = <<>>, !.words = <<>>, !.err = FALSE]

Flush(e) ==
    LET w == Encode(e.q)
        left == SubSeq(e.q, w.n + 1, Len(e.q))
    IN  IF e.q = <<>> THEN e
        ELSE IF w.n = 0 THEN [e EXCEPT !.err = TRUE]
        ELSE [e EXCEPT !.words = Append(@, w.word), !.q = left,
                       !.h = IF left = <<>> THEN 0 ELSE @ + w.n]

Full(e) == e.h + Len(e.q) >= BufLen

\* A flush of a single value leaves the tail of the buffer where it was: what is in
\* it moves to the front.
EncoderPush(e, v) ==
    IF e.err THEN e ELSE [e EXCEPT !.h = IF Full(e) THEN 0 ELSE @, !.q = Append(@, v)]

EncoderWrite(e, v) == EncoderPush(IF Full(e) /\ ~e.err THEN Flush(e) ELSE e, v)

\* Every flush takes at least one value, or fails.
EncoderBytes(e) ==
    LET flush[k \in 0..Len(e.q)] == IF k = 0 THEN e ELSE Flush(flush[k - 1])
    IN  flush[Len(e.q)]

-----------------------------------------------------------------------------
(* Decoder *)

NewDecoder == [words |-> <<>>, buf |-> <<>>, i |-> 0, n |-> 0]

SetBytes(d, words) == [d EXCEPT !.words = words, !.i = 0, !.n = 0]

\* Advances; there is a value to read when More holds after it.
Advance(d) ==
    LET next == [d EXCEPT !.i = @ + 1] IN
    IF next.i < d.n \/ d.words = <<>> THEN next
    ELSE [next EXCEPT !.buf = Unpack(Head(d.words)), !.words = Tail(@), !.i = 0,
                      !.n = Selectors[SelectorOf(Head(d.words))].n]

More(d) == d.words # <<>> \/ d.i < d.n

Current(d) == d.buf[d.i + 1]

\* for dec.Next() { ... dec.Read() }
ReadAllOf(d) ==
    LET step(s, k) ==
            LET next == Advance(s.d) IN
            IF ~s.more THEN s
            ELSE IF ~More(next) THEN [s EXCEPT !.d = next, !.more = FALSE]
            ELSE [s EXCEPT !.d = next, !.out = Append(@, Current(next))]
    IN  FoldLeft(step, [d |-> d, out |-> <<>>, more |-> TRUE],
                 [k \in 1..CountBytes(d.words) + 1 |-> k])
=============================================================================
