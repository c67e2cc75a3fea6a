------------------------------- MODULE Values -------------------------------
(***************************************************************************)
(* The slices of points that queries and compactions work on               *)
(* (storage/types/values.gen.go).  A point is [t, v]; a slice is a         *)
(* sequence.  Positions returned by Search and FindRange are Go's, counted *)
(* from 0.  The generated copies for the five field types are the same     *)
(* code, so one is modelled.                                               *)
(***************************************************************************)
EXTENDS Integers, Sequences

Times(a) == {a[i].t : i \in DOMAIN a}

MinTime(a) == a[1].t

MaxTime(a) == a[Len(a)].t

\* a[from:to] of Go.
Slice(a, from, to) == SubSeq(a, from + 1, to)

Strictly(a) == \A i \in 2..Len(a) : a[i - 1].t < a[i].t

\* sort.Stable: equal timestamps keep their order.
StableSort(a) ==
    LET before(i, j) == a[i].t < a[j].t \/ (a[i].t = a[j].t /\ i < j)
        rank(i) == Len(SelectSeq([j \in 1..Len(a) |-> j], LAMBDA j : before(j, i)))
        at[r \in 0..Len(a)] == CHOOSE i \in 1..Len(a) : rank(i) = r
    IN  [r \in 1..Len(a) |-> a[at[r - 1]]]

\* Already sorted slices are returned as they are; otherwise sort, and of the
\* points of one timestamp keep the one that was last.
Deduplicate(a) ==
    IF Strictly(a) THEN a
    ELSE LET s == StableSort(a)
             keep[j \in 0..Len(s)] ==
                 IF j <= 1 THEN SubSeq(s, 1, j)
                 ELSE LET p == keep[j - 1] IN
                      IF s[j].t # p[Len(p)].t THEN Append(p, s[j])
                      ELSE [p EXCEPT ![Len(p)] = s[j]]
         IN  keep[Len(s)]

\* Binary search for the position where time t would be inserted.
Search(a, t) ==
    LET n == Len(a)
        in[m \in 0..n] ==
            IF m = 0 THEN [lo |-> 0, hi |-> n]
            ELSE LET p == in[m - 1]
                     mid == (p.lo + p.hi) \div 2
                 IN  IF p.lo >= p.hi THEN p
                     ELSE IF a[mid + 1].t < t THEN [lo |-> mid + 1, hi |-> p.hi]
                     ELSE [lo |-> p.lo, hi |-> mid]
    IN  in[n].lo

FindRange(a, min, max) ==
    IF a = <<>> \/ min > max \/ MaxTime(a) < min \/ MinTime(a) > max
    THEN <<-1, -1>>
    ELSE <<Search(a, min), Search(a, max)>>

\* The position after the last point not above max, given FindRange's rmax.
After(a, rmax, max) ==
    IF rmax < Len(a) /\ a[rmax + 1].t = max THEN rmax + 1 ELSE rmax

Exclude(a, min, max) ==
    LET r == FindRange(a, min, max)
        end == After(a, r[2], max)
    IN  IF r = <<-1, -1>> THEN a
        ELSE Slice(a, 0, r[1]) \o Slice(a, end, Len(a))

Include(a, min, max) ==
    LET r == FindRange(a, min, max) IN
    IF r = <<-1, -1>> THEN <<>> ELSE Slice(a, r[1], After(a, r[2], max))

\* mutant: on equal timestamps the point of a is kept
OverlayFirst(a, b) ==
    LET zip[i \in 1..Len(a) + 1, j \in 1..Len(b) + 1] ==
            IF i > Len(a) THEN SubSeq(b, j, Len(b))
            ELSE IF j > Len(b) THEN SubSeq(a, i, Len(a))
            ELSE IF a[i].t < b[j].t THEN <<a[i]>> \o zip[i + 1, j]
            ELSE IF a[i].t = b[j].t THEN zip[i, j + 1]
            ELSE <<b[j]>> \o zip[i, j + 1]
    IN  zip[1, 1]

\* The two-finger merge: on equal timestamps the point of b is kept.
Overlay(a, b) ==
    LET zip[i \in 1..Len(a) + 1, j \in 1..Len(b) + 1] ==
            IF i > Len(a) THEN SubSeq(b, j, Len(b))
            ELSE IF j > Len(b) THEN SubSeq(a, i, Len(a))
            ELSE IF a[i].t < b[j].t THEN <<a[i]>> \o zip[i + 1, j]
            ELSE IF a[i].t = b[j].t THEN zip[i + 1, j]
            ELSE <<b[j]>> \o zip[i, j + 1]
    IN  zip[1, 1]

\* Two ordered slices.
MergeOrdered(a, b) ==
    IF MaxTime(a) < MinTime(b) THEN a \o b
    ELSE IF MaxTime(b) < MinTime(a) THEN b \o a
    ELSE Overlay(a, b)

Merge(a, b) ==
    IF a = <<>> THEN b
    ELSE IF b = <<>> THEN a
    ELSE MergeOrdered(Deduplicate(a), Deduplicate(b))
=============================================================================
