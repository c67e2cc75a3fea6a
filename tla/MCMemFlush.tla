----------------------------- MODULE MCMemFlush -----------------------------
(* Small instances of MemFlush for TLC. *)
EXTENDS MemFlush, TLC

WriterSymmetry == Permutations(Writers)
=============================================================================
