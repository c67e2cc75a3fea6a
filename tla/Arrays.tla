------------------------------- MODULE Arrays -------------------------------
(***************************************************************************)
(* The columns a cursor fills (storage/types/arrayvalues.gen.go): one      *)
(* slice of timestamps and one of values, cut and merged side by side.     *)
(***************************************************************************)
EXTENDS Integers, Sequences

EmptyArray == [ts |-> <<>>, vs |-> <<>>]

NewArray(points) ==
    [ts |-> [i \in DOMAIN points |-> points[i].t],
     vs |-> [i \in DOMAIN points |-> points[i].v]]

ArrayLen(a) == Len(a.ts)

ArrayPoints(a) == [i \in 1..Len(a.ts) |-> [t |-> a.ts[i], v |-> a.vs[i]]]

\* Both columns cut to the positions from..to, counted from 0, without to.
Cut(a, from, to) ==
    [ts |-> SubSeq(a.ts, from + 1, to), vs |-> SubSeq(a.vs, from + 1, to)]

Join(a, b) == [ts |-> a.ts \o b.ts, vs |-> a.vs \o b.vs]

\* Binary search for the position where time t would be inserted.
ArraySearch(a, t) ==
    LET in[lo \in 0..ArrayLen(a), hi \in 0..ArrayLen(a)] ==
            IF lo >= hi THEN lo
            ELSE LET mid == (lo + hi) \div 2 IN
                 IF a.ts[mid + 1] < t THEN in[mid + 1, hi] ELSE in[lo, mid]
    IN  in[0, ArrayLen(a)]

ArrayFindRange(a, min, max) ==
    IF ArrayLen(a) = 0 \/ min > max \/ a.ts[ArrayLen(a)] < min \/ a.ts[1] > max
    THEN <<-1, -1>>
    ELSE <<ArraySearch(a, min), ArraySearch(a, max)>>

\* FindRange's second position moved past a point that is at max exactly.
Past(a, rmax, max) ==
    IF rmax < ArrayLen(a) /\ a.ts[rmax + 1] = max THEN rmax + 1 ELSE rmax

ArrayExclude(a, min, max) ==
    LET r == ArrayFindRange(a, min, max) IN
    IF r = <<-1, -1>> THEN a
    ELSE Join(Cut(a, 0, r[1]), Cut(a, Past(a, r[2], max), ArrayLen(a)))

ArrayInclude(a, min, max) ==
    LET r == ArrayFindRange(a, min, max) IN
    IF r = <<-1, -1>> THEN EmptyArray ELSE Cut(a, r[1], Past(a, r[2], max))

\* b laid over a.  Neither is deduplicated first.
ArrayMerge(a, b) ==
    LET zip[i \in 0..ArrayLen(a), j \in 0..ArrayLen(b)] ==
            IF i = ArrayLen(a) \/ j = ArrayLen(b)
            THEN Join(Cut(a, i, ArrayLen(a)), Cut(b, j, ArrayLen(b)))
            ELSE IF a.ts[i + 1] < b.ts[j + 1]
            THEN Join(Cut(a, i, i + 1), zip[i + 1, j])
            ELSE IF a.ts[i + 1] = b.ts[j + 1]
            THEN Join(Cut(b, j, j + 1), zip[i + 1, j + 1])
            ELSE Join(Cut(b, j, j + 1), zip[i, j + 1])
    IN  IF ArrayLen(a) = 0 THEN b
        ELSE IF ArrayLen(b) = 0 THEN a
        ELSE IF a.ts[ArrayLen(a)] < b.ts[1] THEN Join(a, b)
        ELSE IF b.ts[ArrayLen(b)] < a.ts[1] THEN Join(b, a)
        ELSE zip[0, 0]
=============================================================================
