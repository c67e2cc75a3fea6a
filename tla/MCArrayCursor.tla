--------------------------- MODULE MCArrayCursor ---------------------------
(* Small instances of ArrayCursor for TLC: all ways to lay out a few points *)
(* in the blocks of two or three files.                                     *)
EXTENDS ArrayCursor, TLC

CONSTANTS LastTime, MaxBlockSize

T == 1..LastTime

\* One block, or two with the first ending before the second begins.
BlockLists ==
    {<<a>> : a \in {s \in SUBSET T : s # {} /\ Cardinality(s) <= MaxBlockSize}}
    \cup {p \in (SUBSET T) \X (SUBSET T) :
              /\ p[1] # {} /\ p[2] # {}
              /\ Cardinality(p[1]) <= MaxBlockSize /\ Cardinality(p[2]) <= MaxBlockSize
              /\ \A x \in p[1], y \in p[2] : x < y}

TwoFiles == {<<a, b>> : a \in BlockLists, b \in BlockLists}

\* Three files whose blocks chain: the first overlaps the second, the second the
\* third, so that the order of the locations is not transitive.
Chain(a, b, c) ==
    /\ Len(a) = 1 /\ Len(c) = 1 /\ Len(b) <= 2
    /\ Max(c[1]) < Min(a[1])
    /\ \E k \in DOMAIN b : Min(b[k]) <= Max(c[1]) /\ Max(b[k]) >= Min(a[1])

ThreeFiles == {<<a, b, c>> : a \in BlockLists, b \in BlockLists, c \in BlockLists}

Chains == {fs \in ThreeFiles : Chain(fs[1], fs[2], fs[3])}

MCFileSets == TwoFiles \cup Chains

MCCacheSets == {{}, {2}, {1, LastTime}, {2, 3}}

MCRanges == {[min |-> 1, max |-> LastTime], [min |-> 2, max |-> 3]}

MCDeletes == {[min |-> 2, max |-> 2], [min |-> 1, max |-> 3]}
=============================================================================
