---------------------------- MODULE ArrayCursor ----------------------------
(***************************************************************************)
(* A query: Engine.Get builds a cursor for one key over the values the     *)
(* memtables hold and the blocks of the files, and the client calls Next   *)
(* until it gets nothing (storage/engine_cursor_build.gen.go,              *)
(* storage/cursor/array_cursor.gen.go).  Deletes may add time ranges to    *)
(* the files before the query and while it runs: the cursor reads a file's *)
(* tombstones again with every block.                                      *)
(***************************************************************************)
EXTENDS KeyCursor

CONSTANTS
    FileSets,      \* the sequences of files to start from; a file is a sequence of blocks
    CacheSets,     \* the sets of times a query may find in the memtables
    Ranges,        \* the [min, max] a query may ask for
    Deletes,       \* the time ranges a delete may remove from a file
    MaxDeletes,    \* bound on the deletes
    BufferSize     \* points that fit into the result of one Next

VARIABLES
    files,      \* [blocks, tombs] of every file, oldest first
    cache,      \* the values of the memtables, a sequence of points
    query,      \* [min, max, asc], the files as they were and what was returned
    cur,        \* the array cursor
    ndeletes

vars == <<files, cache, query, cur, ndeletes>>

Closed == [open |-> FALSE]

\* A point's value says where it comes from: the file, or 0 for the memtables.
PointsOf(times, v) ==
    LET ts == SetToSortSeq(times, <) IN [i \in DOMAIN ts |-> [t |-> ts[i], v |-> v]]

Init ==
    /\ \E fs \in FileSets :
         files = [f \in DOMAIN fs |->
                     [blocks |-> [b \in DOMAIN fs[f] |-> PointsOf(fs[f][b], f)],
                      tombs |-> {}]]
    /\ \E ts \in CacheSets : cache = PointsOf(ts, 0)
    /\ query = Closed
    /\ cur = Closed
    /\ ndeletes = 0

\* SSTReader.DeleteRange on one file, seen from a reader: the index gets one
\* more time range for the key.
Delete ==
    /\ ndeletes < MaxDeletes
    /\ ndeletes' = ndeletes + 1
    /\ \E f \in DOMAIN files, r \in Deletes :
         files' = [files EXCEPT ![f].tombs = @ \cup {r}]
    /\ UNCHANGED <<cache, query, cur>>

-----------------------------------------------------------------------------
(* FloatArrayAscendingCursor *)

\* The first block of the key cursor and the position of the seek time in it.
StartAscending(seek, r) ==
    [c |-> r.c, tvals |-> r.values, res |-> <<>>,
     tpos |-> ArraySearch(r.values, seek),
     cpos |-> Cardinality({i \in DOMAIN cache : cache[i].t < seek})]

ResetAscending(seek, c) == StartAscending(seek, ReadFloatArrayBlock(c))

\* mutant: the position of the last block is kept
FromFirstKeepsPos(s, r) == [s EXCEPT !.c = r.c, !.tvals = r.values]

FromFirst(s, r) == [s EXCEPT !.c = r.c, !.tvals = r.values, !.tpos = 0]

\* nextSST, once the block is used up: its callers ask for that first.
NextSST(s) ==
    IF s.tpos < ArrayLen(s.tvals) THEN s
    ELSE FromFirst(s, ReadFloatArrayBlock(KeyNext(s.c)))

\* One point from whichever of the two is earlier; the memtables' on a tie.
StepAscending(s) ==
    LET ckey == cache[s.cpos + 1]
        tkey == [t |-> s.tvals.ts[s.tpos + 1], v |-> s.tvals.vs[s.tpos + 1]]
        fromCache == ckey.t <= tkey.t
        fromSST == tkey.t <= ckey.t
        next == [s EXCEPT !.res = Append(@, IF fromCache THEN ckey ELSE tkey),
                          !.cpos = IF fromCache THEN @ + 1 ELSE @,
                          !.tpos = IF fromSST THEN @ + 1 ELSE @]
    IN  IF s.tpos >= ArrayLen(s.tvals) \/ s.cpos >= Len(cache) THEN s ELSE NextSST(next)

\* The memtables' values are used up: the whole block when nothing is in the
\* result yet and it fits, or else as much of the rest of it as fits.
CopyAscending(s) ==
    LET room == BufferSize - Len(s.res)
        n == Min({room, ArrayLen(s.tvals) - s.tpos})
        whole == [s EXCEPT !.res = ArrayPoints(s.tvals), !.tpos = ArrayLen(s.tvals)]
        part == [s EXCEPT !.res = @ \o ArrayPoints(Cut(s.tvals, s.tpos, s.tpos + n)),
                          !.tpos = @ + n]
    IN  IF room = 0 \/ s.tpos >= ArrayLen(s.tvals) THEN s
        ELSE NextSST(IF s.res = <<>> /\ BufferSize >= ArrayLen(s.tvals) THEN whole ELSE part)

\* The files are used up: as many of the memtables' values as fit.
DrainAscending(s) ==
    LET n == Min({BufferSize - Len(s.res), Len(cache) - s.cpos}) IN
    [s EXCEPT !.res = @ \o SubSeq(cache, s.cpos + 1, s.cpos + n), !.cpos = @ + n]

StripAscending(s, end) ==
    LET inside == {i \in DOMAIN s.res : s.res[i].t <= end} IN
    [s EXCEPT !.res = SubSeq(@, 1, IF inside = {} THEN 0 ELSE Max(inside))]

Fill(Step(_), s) ==
    FoldLeft(LAMBDA x, i : Step(x), s, [i \in 1..BufferSize |-> i])

NextAsc(s, end) ==
    StripAscending(DrainAscending(CopyAscending(
        Fill(StepAscending, [s EXCEPT !.res = <<>>]))), end)

-----------------------------------------------------------------------------
(* FloatArrayDescendingCursor: positions run down to -1 *)

StartDescending(seek, r) ==
    [c |-> r.c, tvals |-> r.values, res |-> <<>>,
     tpos |-> Cardinality({i \in 1..ArrayLen(r.values) : r.values.ts[i] <= seek}) - 1,
     cpos |-> Cardinality({i \in DOMAIN cache : cache[i].t <= seek}) - 1]

ResetDescending(seek, c) == StartDescending(seek, ReadFloatArrayBlock(c))

FromLast(s, r) == [s EXCEPT !.c = r.c, !.tvals = r.values, !.tpos = ArrayLen(r.values) - 1]

PrevSST(s) == FromLast(s, ReadFloatArrayBlock(KeyNext(s.c)))

\* One point from whichever of the two is later; the memtables' on a tie; from
\* the one that is left when the other is used up.
StepDescending(s) ==
    LET ckey == cache[s.cpos + 1]
        tkey == [t |-> s.tvals.ts[s.tpos + 1], v |-> s.tvals.vs[s.tpos + 1]]
        fromCache == s.cpos >= 0 /\ (s.tpos < 0 \/ ckey.t >= tkey.t)
        fromSST == s.tpos >= 0 /\ (s.cpos < 0 \/ tkey.t >= ckey.t)
        next == [s EXCEPT !.res = Append(@, IF fromCache THEN ckey ELSE tkey),
                          !.cpos = IF fromCache THEN @ - 1 ELSE @,
                          !.tpos = IF fromSST THEN @ - 1 ELSE @]
    IN  IF ~fromCache /\ ~fromSST THEN s
        ELSE IF fromSST /\ next.tpos < 0 THEN PrevSST(next) ELSE next

StripDescending(s, end) ==
    LET inside == {i \in DOMAIN s.res : s.res[i].t >= end} IN
    [s EXCEPT !.res = SubSeq(@, 1, IF inside = {} THEN 0 ELSE Max(inside))]

NextDesc(s, end) ==
    StripDescending(Fill(StepDescending, [s EXCEPT !.res = <<>>]), end)

-----------------------------------------------------------------------------
(* The query *)

\* buildFloatArrayCursor
Get(min, max, asc) ==
    /\ query = Closed
    /\ query' = [open |-> TRUE, min |-> min, max |-> max, asc |-> asc,
                 before |-> files, out |-> <<>>, ended |-> FALSE]
    /\ cur' = IF asc THEN ResetAscending(min, NewKeyCursor(files, min, asc))
              ELSE ResetDescending(max, NewKeyCursor(files, max, asc))
    /\ UNCHANGED <<files, cache, ndeletes>>

\* The key cursor reads blocks and tombstones from the files as they are now.
Refreshed(s) == [s EXCEPT !.c.files = files]

CursorNext ==
    /\ query.open /\ ~query.ended
    /\ cur' = IF query.asc THEN NextAsc(Refreshed(cur), query.max)
              ELSE NextDesc(Refreshed(cur), query.min)
    /\ query' = [query EXCEPT !.out = Append(@, cur'.res), !.ended = cur'.res = <<>>]
    /\ UNCHANGED <<files, cache, ndeletes>>

Next ==
    \/ Delete
    \/ \E r \in Ranges, asc \in BOOLEAN : Get(r.min, r.max, asc)
    \/ CursorNext

Spec == Init /\ [][Next]_vars

-----------------------------------------------------------------------------
(* Properties *)

In(r, t) == r.min <= t /\ t <= r.max

FilePoints(fs, f) ==
    {p \in UNION {ToSet(fs[f].blocks[b]) : b \in DOMAIN fs[f].blocks} :
        \A r \in fs[f].tombs : ~In(r, p.t)}

\* The value a key has at time t, given the files fs: the memtables', or that of
\* the newest file in which it is not deleted; the empty set if there is none.
Holders(fs, t) ==
    {p \in UNION {FilePoints(fs, f) : f \in DOMAIN fs} \cup ToSet(cache) : p.t = t}

Newest(fs, t) ==
    {p \in Holders(fs, t) : p.v = 0 \/ \A q \in Holders(fs, t) : q.v # 0 /\ q.v <= p.v}

Returned == ToSet(FlattenSeq(query.out))

\* Every returned point lies in the range asked for, and the first one returned
\* for a time has its newest value: with the files as they are now, or as they
\* were when the query began (a delete reaches file after file meanwhile).
NewestReturned ==
    query.open =>
        LET ps == FlattenSeq(query.out) IN
        \A i \in DOMAIN ps :
            /\ In(query, ps[i].t)
            /\ ps[i] \in Holders(query.before, ps[i].t)
            /\ \/ ps[i] \in Newest(query.before, ps[i].t)
               \/ ps[i] \in Newest(files, ps[i].t)
               \/ \E j \in 1..(i - 1) : ps[j].t = ps[i].t

\* A query that has ended has returned every point of the range that is still
\* there, however the blocks of the files overlap and wherever a Next stopped.
NothingMissed ==
    (query.open /\ query.ended) =>
        \A t \in query.min..query.max :
            Newest(files, t) # {} => \E p \in Returned : p.t = t

Ordered(ps) ==
    \A i \in 2..Len(ps) : IF query.asc THEN ps[i - 1].t < ps[i].t ELSE ps[i].t < ps[i - 1].t

\* Each result is strictly ordered in the direction asked for, and so are all of
\* them together when the query runs backwards or the memtables are empty.
ResultsOrdered ==
    query.open =>
        /\ \A k \in DOMAIN query.out : Ordered(query.out[k])
        /\ (~query.asc \/ cache = <<>>) => Ordered(FlattenSeq(query.out))

\* The positions of the array cursor stay inside the values of the memtables and the
\* block it reads (nextAsc, nextDesc).
TypeOK ==
    /\ ndeletes \in 0..MaxDeletes
    /\ query.open => cur.tpos \in -1..ArrayLen(cur.tvals) /\ cur.cpos \in -1..Len(cache)
=============================================================================
