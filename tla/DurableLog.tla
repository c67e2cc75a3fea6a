----------------------------- MODULE DurableLog -----------------------------
(***************************************************************************)
(* What the write path promises: a record is stored, then acknowledged, and *)
(* an acknowledged record stays stored unless it has been put at risk       *)
(* meanwhile, as a restart does with the records it rewrites.  A record     *)
(* that was never acknowledged may be forgotten.                            *)
(***************************************************************************)
CONSTANT Record

VARIABLES stored, acked, atRisk

Init == stored = {} /\ acked = {} /\ atRisk = {}

Store(r) == /\ r \notin stored
            /\ stored' = stored \cup {r}
            /\ UNCHANGED <<acked, atRisk>>

Ack(r) == /\ r \in stored
          /\ acked' = acked \cup {r}
          /\ UNCHANGED <<stored, atRisk>>

Risk == /\ \E R \in SUBSET stored : atRisk' = atRisk \cup R
        /\ UNCHANGED <<stored, acked>>

Forget == /\ stored' \subseteq stored
          /\ acked \ atRisk \subseteq stored'
          /\ UNCHANGED <<acked, atRisk>>

Next == (\E r \in Record : Store(r) \/ Ack(r)) \/ Risk \/ Forget

Spec == Init /\ [][Next]_<<stored, acked, atRisk>>
=============================================================================
