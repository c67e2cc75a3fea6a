----------------------------- MODULE TimeRange -----------------------------
(***************************************************************************)
(* Timestamps and inclusive ranges of them.  A timestamp is an int64; the  *)
(* ends of the type are parameters, so that a model can reach them.        *)
(***************************************************************************)
EXTENDS Integers

CONSTANTS MinInt64, MaxInt64      \* the ends of the timestamps' type

ASSUME TimeAssumption == MinInt64 \in Int /\ MaxInt64 \in Int /\ MinInt64 < MaxInt64

\* t + 1 and t - 1 of an int64 wrap around.
Succ(t) == IF t = MaxInt64 THEN MinInt64 ELSE t + 1

Pred(t) == IF t = MinInt64 THEN MaxInt64 ELSE t - 1

\* TimeRange.Overlaps and IndexEntry.OverlapsTimeRange
Overlaps(e, min, max) == e.min <= max /\ e.max >= min

\* IndexEntry.Contains
HasTime(e, t) == e.min <= t /\ e.max >= t
=============================================================================
