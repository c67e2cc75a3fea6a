------------------------------ MODULE MCBlocks ------------------------------
(* Widths for TLC: integers of 6 bits, words with 4 bits of payload, runs of *)
(* 12 and 6 ones, divisors 9, 3 and 1, floats of 4 bits (a sign, two of      *)
(* exponent, one of mantissa), bytes of 3 bits.                              *)
EXTENDS Blocks

MCSelectors == <<[n |-> 12, bit |-> 0], [n |-> 6, bit |-> 0], [n |-> 4, bit |-> 1],
                 [n |-> 2, bit |-> 2], [n |-> 1, bit |-> 4]>>

MCNaNs == {7, 15}

\* Floats of 4 bits in units of the smallest one: 0, 1 (not normal), 2, 3, 4, 6; then +Inf
\* and NaN; then the negative ones.  Sums are rounded to the nearest, ties to the even one.
Magnitude == <<0, 1, 2, 3, 4, 6>>
IsInf(x) == x % 8 = 6
Amount(x) == (IF x < 8 THEN 1 ELSE -1) * Magnitude[(x % 8) + 1]
Rounded(m) == IF m <= 4 THEN m ELSE IF m = 5 THEN 4 ELSE IF m = 6 THEN 5 ELSE 6

MCFloatAdd(x, y) ==
    IF x \in MCNaNs \/ y \in MCNaNs \/ (IsInf(x) /\ IsInf(y) /\ x # y) THEN 7
    ELSE IF IsInf(x) THEN x
    ELSE IF IsInf(y) THEN y
    ELSE LET sum == Amount(x) + Amount(y) IN
         IF sum > 0 THEN Rounded(sum)
         ELSE IF sum < 0 THEN 8 + Rounded(-sum)
         ELSE IF x = 8 /\ y = 8 THEN 8 ELSE 0

Of(kind, ts, vs) == [kind |-> kind, pts |-> [i \in DOMAIN ts |-> [t |-> ts[i], v |-> vs[i]]]]

Upto(k) == [i \in 1..k |-> i]

\* A time sequence from its differences.
Sum(from, ds) ==
    LET t[i \in 0..Len(ds)] == IF i = 0 THEN from ELSE t[i - 1] + ds[i]
    IN  [i \in 1..Len(ds) + 1 |-> t[i - 1]]

Ones(k) == [i \in 1..k |-> 1]

\* Runs of ones with something before, between and after.
RunSeqs == {a \o Ones(k) \o b : a \in {<<>>, <<3>>, <<0>>}, k \in {3, 5, 6, 7, 11, 12, 13},
                                b \in {<<>>, <<2>>, <<1, 0, 9>>}}

TimeSeqs == {Sum(-20, ds) : ds \in RunSeqs}
    \cup UNION {[1..k -> {-32, -14, -5, 0, 4, 31}] : k \in 1..3}

IntSeqs == {Sum(-3, [i \in DOMAIN ds |-> -ds[i]]) : ds \in RunSeqs}
    \cup UNION {[1..k -> {-32, -8, -1, 0, 7, 31}] : k \in 1..3}

FloatSeqs == UNION {[1..k -> 0..15] : k \in 1..2} \cup [1..3 -> {0, 1, 6, 9, 14}]
    \cup [1..4 -> {0, 3, 5, 12, 14}]     \* 5 is the largest, 14 is -Inf: 5 + 5 + -Inf

BooleanSeqs == UNION {[1..k -> BOOLEAN] : k \in 1..5}

StringSeqs == UNION {[1..k -> {<<>>, <<1>>, <<2, 0>>, <<0, 1, 2>>}] : k \in 1..3}

MCHistory ==
    {Of("integer", <<1, 2, 3>>, <<5, 7, 9>>),       \* runs of both
     Of("integer", <<1, 2, 4>>, <<1, 2, 1>>),       \* both packed
     Of("integer", <<-32, 4, 31>>, <<-32, 31, 0>>), \* both uncompressed
     Of("float", <<0, 9, 27>>, <<1, 6, 9>>),
     Of("float", <<1>>, <<15>>),                    \* refused
     Of("boolean", <<1, 1, 2, 5>>, <<TRUE, FALSE, TRUE, TRUE>>),
     Of("string", <<2, 3>>, <<<<1>>, <<>>>>)}

MCInputs ==
    {Of("boolean", ts, [i \in DOMAIN ts |-> i % 2 = 0]) : ts \in TimeSeqs}
    \cup {Of("integer", Upto(Len(vs)), vs) : vs \in IntSeqs}
    \cup {Of("float", Upto(Len(vs)), vs) : vs \in FloatSeqs}
    \cup {Of("boolean", Upto(Len(vs)), vs) : vs \in BooleanSeqs}
    \cup {Of("string", Upto(Len(vs)), vs) : vs \in StringSeqs}
=============================================================================
