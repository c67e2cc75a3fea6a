----------------------------- MODULE MCValueLog -----------------------------
(* Small instances of ValueLog for TLC. *)
EXTENDS ValueLog, TLC

WriterSymmetry == Permutations(Writers)
=============================================================================
