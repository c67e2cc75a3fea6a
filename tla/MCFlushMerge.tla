---------------------------- MODULE MCFlushMerge ----------------------------
(* Small instances of FlushMerge for TLC. *)
EXTENDS FlushMerge, TLC

CONSTANTS LastTime

T == 1..LastTime

Small(s) == s # {} /\ Cardinality(s) <= BlockSize

\* One or two blocks of one key, in time order.
Layouts ==
    {<<a>> : a \in {s \in SUBSET T : Small(s)}}
    \cup {p \in (SUBSET T) \X (SUBSET T) :
              Small(p[1]) /\ Small(p[2]) /\ \A x \in p[1], y \in p[2] : x < y}

Entry(key, layout, ptr) == [key |-> key, blocks |-> layout, ptr |-> ptr]

OneOlder == {<< <<Entry(1, l, p)>> >> : l \in Layouts, p \in BOOLEAN}

\* A second older file, with a block across all times or a key of its own.
TwoOlder ==
    {<< <<Entry(1, l, FALSE)>>, <<Entry(1, <<{1, LastTime}>>, FALSE)>> >> : l \in Layouts}
    \cup {<< <<Entry(1, l, FALSE), Entry(2, <<{2, 3}>>, TRUE)>>,
             <<Entry(2, <<{1}, {3}>>, FALSE)>> >> : l \in Layouts}

MCOlder == OneOlder \cup TwoOlder

MCMemTables ==
    {<<[key |-> 1, times |-> {2}], [key |-> 2, times |-> {1, 2, 4}]>>,
     <<[key |-> 1, times |-> {1, 3, 4}]>>,
     <<[key |-> 2, times |-> {4}]>>}

MCDeletes == {[min |-> 2, max |-> 3], [min |-> 1, max |-> 1]}

EncoderSymmetry == Permutations(Encoders)
=============================================================================
