---------------------------- MODULE MCCompaction ----------------------------
(* Small instances of Compaction, with the planner of Planner, for TLC. *)
EXTENDS Compaction, TLC

CONSTANTS s1, s2, c1, c2, d1, d2, MinGenerations1, MinGenerations

\* Directories to start from: the keys of each generation.
FourGenerations  == <<{1}, {2}, {3}, {4}>>
TwoGenerations   == <<{1}, {2}>>
OneGeneration    == <<{1}>>
OneGeneration2   == <<{1, 2}>>

ASSUME PlannerAssumption == MinGenerations1 \in Nat \ {0} /\ MinGenerations \in Nat \ {0}

P == INSTANCE Planner

MCPlanGroups(l, fs) == P!DefaultPlan(l, fs)

\* The compactions, the cursors and the deleters are interchangeable.
Symmetry == Permutations(Slots) \cup Permutations(Cursors) \cup Permutations(Deleters)
=============================================================================
