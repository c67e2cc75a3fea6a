------------------------------ MODULE Planner ------------------------------
(***************************************************************************)
(* What DefaultPlanner plans, as functions of the list findGenerations     *)
(* returns: a set of files, each a generation and a sequence number.       *)
(*                                                                         *)
(* The rules that skip a file for its size are left out: every file is     *)
(* smaller than maxSSTFileSize, and no generation is less than half the    *)
(* one before.  HasTombstone is FALSE for every file, as Tombstoner        *)
(* reports it once a tombstone file is written.                            *)
(***************************************************************************)
EXTENDS Naturals, FiniteSets, Sequences, SequencesExt

CONSTANTS
    MinGenerations1,   \* generations in a chunk of level 1: 8
    MinGenerations     \* generations in a chunk of a higher level: 4

\* The generations of a set of files, oldest first.
Generations(fs) == SetToSortSeq({f[1] : f \in fs}, <)

\* The level of a generation is that of its first file: its sequence number, or 4.
Level(fs, g) ==
    LET seq == CHOOSE n \in {f[2] : f \in {h \in fs : h[1] = g}} :
                 \A h \in fs : h[1] = g => n <= h[2]
    IN IF seq < 4 THEN seq ELSE 4

\* The level of a sequence of generations is the highest of theirs, 0 if there is none.
GroupLevel(fs, gs) ==
    IF gs = <<>> THEN 0
    ELSE CHOOSE l \in {Level(fs, gs[i]) : i \in DOMAIN gs} :
           \A i \in DOMAIN gs : Level(fs, gs[i]) <= l

\* Adjacent generations of one level form a group; one of a lower level than the next
\* (orphaned) joins the group before it.
AdjacentGroups(fs) ==
    LET gs == Generations(fs)
        n  == Len(gs)
        lv(i) == Level(fs, gs[i])
        step[i \in 0..n] ==
          IF i = 0 THEN [current |-> <<>>, groups |-> <<>>]
          ELSE LET p == step[i - 1] IN
               IF \/ i < n /\ lv(i) < lv(i + 1)
                  \/ p.current = <<>>
                  \/ GroupLevel(fs, p.current) = lv(i)
                 THEN [p EXCEPT !.current = Append(@, gs[i])]
                 ELSE [current |-> <<gs[i]>>, groups |-> Append(p.groups, p.current)]
    IN IF step[n].current = <<>> THEN step[n].groups
       ELSE Append(step[n].groups, step[n].current)

\* SstGenerations.chunk: pieces of size generations, the rest at the end.
Chunks(gs, size) ==
    [i \in 1..((Len(gs) + size - 1) \div size) |->
        SubSeq(gs, (i - 1) * size + 1, IF i * size < Len(gs) THEN i * size ELSE Len(gs))]

FilesOf(fs, gs) == {f \in fs : \E i \in DOMAIN gs : f[1] = gs[i]}

PlanLevel(level, fs) ==
    IF Cardinality({f[1] : f \in fs}) <= 1 THEN <<>>
    ELSE LET min    == IF level = 1 THEN MinGenerations1 ELSE MinGenerations
             ofLevel(gs) == GroupLevel(fs, gs) = level
             groups == SelectSeq(AdjacentGroups(fs), ofLevel)
             chunks == FlattenSeq([i \in DOMAIN groups |-> Chunks(groups[i], min)])
             enough(gs) == Len(gs) >= min
             kept   == SelectSeq(chunks, enough)
         IN [i \in DOMAIN kept |-> FilesOf(fs, kept[i])]

\* Plan, when nothing was written for a long time: everything, if it is of more than one
\* generation.
PlanFull(fs) == IF Cardinality({f[1] : f \in fs}) <= 1 THEN <<>> ELSE <<fs>>

\* Level 4 stands for Plan.
DefaultPlan(level, fs) == IF level = 4 THEN PlanFull(fs) ELSE PlanLevel(level, fs)
=============================================================================
