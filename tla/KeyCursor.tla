----------------------------- MODULE KeyCursor -----------------------------
(***************************************************************************)
(* FileStore.locations and the KeyCursor that walks the blocks of one key  *)
(* through all files, merging the blocks that overlap in time              *)
(* (storage/store/sst_file.go, sst_file_key_cursor*.go).                   *)
(*                                                                         *)
(* A file is [blocks, tombs]: its blocks of the key in time order, each a  *)
(* sequence of points, and the time ranges deleted from it.  The files are *)
(* numbered in the order of their names, oldest first.  A cursor is        *)
(* [files, asc, seeks, current, pos]; current holds positions of seeks,    *)
(* as the slice holds pointers.  Operators on a cursor return the cursor   *)
(* they leave.                                                             *)
(***************************************************************************)
EXTENDS Arrays, TimeRange, SequencesExt

-----------------------------------------------------------------------------
(* Locations *)

\* The index entry of a block.
EntryOf(block) == [min |-> block[1].t, max |-> block[Len(block)].t]

\* location.read
IsRead(l) == l.readMin <= l.entry.min /\ l.readMax >= l.entry.max

\* mutant: what was read before is forgotten
MarkReadReplaces(l, min, max) == [l EXCEPT !.readMin = min, !.readMax = max]

MarkRead(l, min, max) ==
    [l EXCEPT !.readMin = IF min < @ THEN min ELSE @,
              !.readMax = IF max > @ THEN max ELSE @]

\* mutant: a block that ends at the start of the query is left out
FileLocationsAfter(files, f, t, asc) ==
    LET entry(b) == EntryOf(files[f].blocks[b])
        wanted(b) ==
            /\ ~\E r \in files[f].tombs : r.min <= entry(b).min /\ r.max >= entry(b).max
            /\ IF asc THEN entry(b).max > t ELSE entry(b).min < t
        at(b) == [file |-> f, block |-> b, entry |-> entry(b),
                  readMin |-> IF asc THEN MinInt64 ELSE Succ(t),
                  readMax |-> IF asc THEN Pred(t) ELSE MaxInt64]
        chosen == SelectSeq([b \in DOMAIN files[f].blocks |-> b], wanted)
    IN  [i \in DOMAIN chosen |-> at(chosen[i])]

\* The blocks of file f that a cursor starting at t may need: not wholly
\* deleted, not wholly before the start.  All before the start counts as read.
FileLocations(files, f, t, asc) ==
    LET entry(b) == EntryOf(files[f].blocks[b])
        wanted(b) ==
            /\ ~\E r \in files[f].tombs : r.min <= entry(b).min /\ r.max >= entry(b).max
            /\ IF asc THEN entry(b).max >= t ELSE entry(b).min <= t
        at(b) == [file |-> f, block |-> b, entry |-> entry(b),
                  readMin |-> IF asc THEN MinInt64 ELSE Succ(t),
                  readMax |-> IF asc THEN Pred(t) ELSE MaxInt64]
        all == [b \in DOMAIN files[f].blocks |-> b]
        chosen == SelectSeq(all, wanted)
    IN  [i \in DOMAIN chosen |-> at(chosen[i])]

\* FileStore.locations.  A file is skipped by its own time range first, which
\* its blocks' ranges imply.
Locations(files, t, asc) ==
    FlattenSeq([f \in DOMAIN files |-> FileLocations(files, f, t, asc)])

\* ascLocations.Less and descLocations.Less: blocks that overlap by file name,
\* others by time.  The relation is not transitive.
LocationLess(asc, x, y) ==
    IF Overlaps(x.entry, y.entry.min, y.entry.max) THEN x.file < y.file
    ELSE IF asc THEN x.entry.min < y.entry.min
    ELSE x.entry.max < y.entry.max

\* sort.Sort on at most twelve elements is an insertion sort.
InsertSorted(asc, s, x) ==
    LET stop == {i \in 1..Len(s) : ~LocationLess(asc, x, s[i])}
        k == IF stop = {} THEN 0 ELSE CHOOSE i \in stop : \A j \in stop : j <= i
    IN  SubSeq(s, 1, k) \o <<x>> \o SubSeq(s, k + 1, Len(s))

SortLocations(asc, ls) ==
    FoldLeft(LAMBDA s, x : InsertSorted(asc, s, x), <<>>, ls)

-----------------------------------------------------------------------------
(* The cursor *)

SeekAscending(seeks, t) ==
    SelectSeq([i \in 1..Len(seeks) |-> i],
              LAMBDA i : t < seeks[i].entry.min \/ HasTime(seeks[i].entry, t))

SeekDescending(seeks, t) ==
    SelectSeq([i \in 1..Len(seeks) |-> Len(seeks) + 1 - i],
              LAMBDA i : t > seeks[i].entry.max \/ HasTime(seeks[i].entry, t))

\* newKeyCursor and seek.
NewKeyCursor(files, t, asc) ==
    LET seeks == SortLocations(asc, Locations(files, t, asc))
        current == IF asc THEN SeekAscending(seeks, t) ELSE SeekDescending(seeks, t)
    IN  [files |-> files, asc |-> asc, seeks |-> seeks, current |-> current,
         pos |-> IF current = <<>> THEN 1 ELSE current[1]]

Unread(c, i) == ~IsRead(c.seeks[i])

\* The positions after pos, in the direction of the cursor, still unread.
NextAscending(c) ==
    LET rest == SelectSeq([i \in 1..Len(c.seeks) |-> i],
                          LAMBDA i : i > c.pos /\ Unread(c, i))
    IN  IF rest = <<>> THEN [c EXCEPT !.current = <<>>, !.pos = Len(c.seeks) + 1]
        ELSE [c EXCEPT !.current = rest, !.pos = rest[1]]

\* As NextAscending, but the loop over the rest starts at pos itself, so the
\* first block is in current twice.
NextDescending(c) ==
    LET rest == SelectSeq([i \in 1..Len(c.seeks) |-> Len(c.seeks) + 1 - i],
                          LAMBDA i : i < c.pos /\ Unread(c, i))
    IN  IF rest = <<>> THEN [c EXCEPT !.current = <<>>, !.pos = 0]
        ELSE [c EXCEPT !.current = <<rest[1]>> \o rest, !.pos = rest[1]]

\* KeyCursor.Next
KeyNext(c) ==
    IF c.current = <<>> \/ Unread(c, c.current[1]) THEN c
    ELSE IF c.asc THEN NextAscending(c) ELSE NextDescending(c)

-----------------------------------------------------------------------------
(* ReadFloatArrayBlock *)

BlockAt(c, l) == NewArray(c.files[l.file].blocks[l.block])

\* excludeTombstonesFloatArray
ExcludeTombstones(c, l, a) ==
    FoldSet(LAMBDA r, b : ArrayExclude(b, r.min, r.max), a, c.files[l.file].tombs)

\* What is left of block i: without the points read before and the deleted.
Remaining(c, i) ==
    LET l == c.seeks[i] IN
    ExcludeTombstones(c, l, ArrayExclude(BlockAt(c, l), l.readMin, l.readMax))

\* Leading blocks with nothing left are dropped from current.
SkipEmpty(c) ==
    LET live == {k \in DOMAIN c.current : ArrayLen(Remaining(c, c.current[k])) > 0}
        k == IF live = {} THEN Len(c.current) + 1
             ELSE CHOOSE m \in live : \A n \in live : m <= n
    IN  [c EXCEPT !.current = SubSeq(@, k, Len(@))]

Others(c) == {c.current[k] : k \in 2..Len(c.current)}

\* The window of time that is merged: the first block's, moved back to cover
\* the start of every unread block, and on to the end of the first block that
\* overlaps it.
AscendingWindow(c, values) ==
    LET unread == {i \in Others(c) : Unread(c, i)}
        first == values.ts[1]
        minT == Min({first} \cup {c.seeks[i].entry.min : i \in unread})
        maxT == values.ts[ArrayLen(values)]
        over == SelectSeq(Tail(c.current),
                          LAMBDA i : Unread(c, i) /\ Overlaps(c.seeks[i].entry, minT, maxT))
    IN  [min |-> minT,
         max |-> IF over = <<>> THEN maxT ELSE Max({maxT, c.seeks[over[1]].entry.max}),
         cut |-> over # <<>>]

DescendingWindow(c, values) ==
    LET unread == {i \in Others(c) : Unread(c, i)}
        last == values.ts[ArrayLen(values)]
        maxT == Max({last} \cup {c.seeks[i].entry.max : i \in unread})
        minT == values.ts[1]
        over == SelectSeq(Tail(c.current),
                          LAMBDA i : Unread(c, i) /\ Overlaps(c.seeks[i].entry, minT, maxT))
    IN  [min |-> IF over = <<>> THEN minT ELSE Min({minT, c.seeks[over[1]].entry.min}),
         max |-> maxT,
         cut |-> over # <<>>]

\* A newer file lies later in an ascending cursor and earlier in a descending
\* one: v is laid over the values so far, or they over it.
LayOver(asc, values, v) == IF asc THEN ArrayMerge(values, v) ELSE ArrayMerge(v, values)

\* mutant: a block read later always wins, backwards too
LayRestLater(asc, values, rest, w) ==
    IF ArrayLen(rest) = 0 THEN values
    ELSE ArrayMerge(values, ArrayInclude(rest, w.min, w.max))

\* What is left of a block, as far as it lies in the window w.
LayRest(asc, values, rest, w) ==
    IF ArrayLen(rest) = 0 THEN values
    ELSE LayOver(asc, values, ArrayInclude(rest, w.min, w.max))

MarkAt(c, i, w) == [c EXCEPT !.seeks[i] = MarkRead(@, w.min, w.max)]

\* One block of current merged into the window w: acc is the cursor and the
\* values so far.
MergeBlock(w, acc, i) ==
    LET c == acc.c
        skip == ~Overlaps(c.seeks[i].entry, w.min, w.max) \/ ~Unread(c, i)
    IN  [c |-> MarkAt(c, i, w),
         values |-> IF skip THEN acc.values
                    ELSE LayRest(c.asc, acc.values, Remaining(c, i), w)]

\* The blocks after the first are merged into its values, cut to the window; the
\* first counts as read over the window at the end.
MergeOthers(c, values, w) ==
    LET first == IF w.cut THEN ArrayInclude(values, w.min, w.max) ELSE values
        all == FoldLeft(LAMBDA acc, i : MergeBlock(w, acc, i), [c |-> c, values |-> first],
                        Tail(c.current))
    IN  [all EXCEPT !.c = MarkAt(@, c.current[1], w)]

\* values is what is left of the first block of current.
ReadFirst(c, values) ==
    IF Len(c.current) = 1
    THEN [c |-> MarkAt(c, c.current[1], [min |-> values.ts[1], max |-> values.ts[ArrayLen(values)]]),
          values |-> values]
    ELSE MergeOthers(c, values, IF c.asc THEN AscendingWindow(c, values)
                                ELSE DescendingWindow(c, values))

ReadCurrent(c) ==
    IF c.current = <<>> THEN [c |-> c, values |-> EmptyArray]
    ELSE ReadFirst(c, Remaining(c, c.current[1]))

\* KeyCursor.ReadFloatArrayBlock: the cursor afterwards and the values read.
ReadFloatArrayBlock(c) == ReadCurrent(SkipEmpty(c))
=============================================================================
