----------------------------- MODULE FlushMerge -----------------------------
(***************************************************************************)
(* A memtable is flushed into a file next to older files, and the files    *)
(* are compacted: CacheIterator, then BlockMerge.  Both iterators are read *)
(* by Compactor.write, block after block.  Deletes fall before the         *)
(* compaction, which they stop.                                            *)
(***************************************************************************)
EXTENDS CacheIterator, BlockMerge

CONSTANTS
    Older,         \* the sequences of older files: a file is a sequence of [key, blocks, ptr]
    MemTables,     \* the memtables that may be flushed: sequences of [key, times]
    Deletes,       \* the time ranges that may be deleted
    MaxDeletes     \* bound on the deletes

VARIABLES
    files,      \* the files, oldest first: sequences of [key, blocks, tombs]
    fast,       \* level compactions are fast, full ones are not
    phase,      \* "flush", "merge", "done"
    it,         \* the compaction's iterator
    out,        \* the blocks it wrote
    ndeletes

vars == <<cacheVars, files, fast, phase, it, out, ndeletes>>

SortedTimes(times) == SetToSortSeq(times, <)

\* A point's value is the number of the file it was written to.
Points(times, v) == [i \in DOMAIN SortedTimes(times) |-> [t |-> SortedTimes(times)[i], v |-> v]]

OlderFile(f, n) ==
    [k \in DOMAIN f |->
        [key |-> f[k].key, tombs |-> {},
         blocks |-> [b \in DOMAIN f[k].blocks |->
                        [data |-> NewArray(Points(f[k].blocks[b], n)), ptr |-> f[k].ptr]]]]

Init ==
    /\ \E fs \in Older, m \in MemTables :
         /\ files = [n \in DOMAIN fs |-> OlderFile(fs[n], n)]
         /\ CacheInit([k \in DOMAIN m |->
                          [key |-> m[k].key, values |-> Points(m[k].times, Len(fs) + 1)]])
    /\ fast = FALSE
    /\ phase = "flush"
    /\ it = NewBatchIterator(files)
    /\ out = <<>>
    /\ ndeletes = 0

Flush ==
    /\ phase = "flush"
    /\ CacheStep
    /\ UNCHANGED <<files, fast, phase, it, out, ndeletes>>

\* The blocks written, key by key: the new file.
NewFile ==
    LET keys == SetToSortSeq({written[i].key : i \in DOMAIN written}, <)
        mine(k) == SelectSeq(written, LAMBDA b : b.key = k)
    IN  [n \in DOMAIN keys |->
            [key |-> keys[n], tombs |-> {},
             blocks |-> [b \in DOMAIN mine(keys[n]) |->
                            [data |-> NewArray(mine(keys[n])[b].points),
                             ptr |-> mine(keys[n])[b].ptr]]]]

\* Compactor.writeNewFiles ends: the file joins the others, or was removed.  The
\* iterator is dropped, with the goroutines that may still encode for it.
FlushEnds ==
    /\ phase = "flush" /\ iter.state # "reading"
    /\ phase' = "merge"
    /\ files' = IF iter.state = "done" THEN Append(files, NewFile) ELSE files
    /\ it' = NewBatchIterator(files')
    /\ fast' \in BOOLEAN
    /\ DropIterator
    /\ UNCHANGED <<out, ndeletes>>

\* A delete of one key from one file.
Delete ==
    /\ phase = "merge" /\ out = <<>>
    /\ ndeletes < MaxDeletes
    /\ ndeletes' = ndeletes + 1
    /\ \E f \in DOMAIN files, r \in Deletes :
         \E k \in DOMAIN files[f] :
            files' = [files EXCEPT ![f][k].tombs = @ \cup {r}]
    /\ UNCHANGED <<cacheVars, fast, phase, it, out>>

\* One round of Compactor.write: Next, then Read of the first merged block.
MergeNext ==
    /\ phase = "merge" /\ ~it.hung
    /\ it' = BatchNext(files, it, fast)
    /\ IF it'.merged = <<>> \/ it'.hung
       THEN /\ phase' = IF it'.hung THEN phase ELSE "done"
            /\ out' = out
       ELSE /\ phase' = phase
            /\ out' = Append(out, it'.merged[1])
    /\ UNCHANGED <<cacheVars, files, fast, ndeletes>>

Next == Flush \/ FlushEnds \/ Delete \/ MergeNext

Spec == Init /\ [][Next]_vars

-----------------------------------------------------------------------------
(* Properties, with TypeOK and FlushedWhole of CacheIterator *)

AllKeys == {files[f][k].key : <<f, k>> \in {<<g, j>> \in (DOMAIN files) \X (1..3) : j \in DOMAIN files[g]}}

\* What file f holds of a key, without the deleted.
Held(f, key) ==
    UNION {UNION {{p \in ToSet(ArrayPoints(files[f][k].blocks[b].data)) :
                      \A r \in files[f][k].tombs : p.t < r.min \/ r.max < p.t}
                  : b \in DOMAIN files[f][k].blocks}
           : k \in {j \in DOMAIN files[f] : files[f][j].key = key}}

\* The newest point of every time.
Expected(key) ==
    LET all == UNION {Held(f, key) : f \in DOMAIN files} IN
    {p \in all : \A q \in all : q.t = p.t => q.v <= p.v}

Output(key) ==
    LET mine == SelectSeq(out, LAMBDA b : b.key = key) IN
    FlattenSeq([i \in DOMAIN mine |-> ArrayPoints(mine[i].data)])

\* A compaction that has ended wrote, of every key, the newest point of every time
\* that is not deleted in its file, and nothing else.
MergedExactly ==
    phase = "done" => \A key \in AllKeys : ToSet(Output(key)) = Expected(key)

\* What a compaction writes is ordered by key and strictly by time, in blocks that
\* are neither empty nor too large and whose index entries say what they hold.
BlocksOrdered ==
    \A i \in DOMAIN out :
        /\ ArrayLen(out[i].data) \in 1..BlockSize
        /\ out[i].min = out[i].data.ts[1]
        /\ out[i].max = out[i].data.ts[ArrayLen(out[i].data)]
        /\ i > 1 => \/ out[i - 1].key < out[i].key
                    \/ out[i - 1].key = out[i].key /\ out[i - 1].max < out[i].min
=============================================================================
