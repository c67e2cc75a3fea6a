----------------------------- MODULE BlockMerge -----------------------------
(***************************************************************************)
(* The iterator a compaction reads its files with: the keys of all files   *)
(* in order, and for each key its blocks, merged and cut again             *)
(* (storage/compactor/iterator_batch_key.go, compact.gen.go).              *)
(*                                                                         *)
(* A file is a sequence of [key, blocks, tombs] in key order.  The         *)
(* iterator is a record of the fields the code has: iters (keys consumed   *)
(* of each file), buf (the blocks read ahead of each file), blocks,        *)
(* merged, values (mergedFloatValues) and key; hung says that a loop of it *)
(* never ends.  A block b is [key, min, max, readMin, readMax, tombs, ptr, *)
(* data], data its decoded points.  Operators return the iterator they     *)
(* leave.                                                                  *)
(***************************************************************************)
EXTENDS Arrays, FiniteSets, SequencesExt

CONSTANTS
    MinInt64, MaxInt64,
    BlockSize              \* the most points in a block that is written

NewBlock(key, data, ptr, tombs) ==
    [key |-> key, min |-> data.ts[1], max |-> data.ts[ArrayLen(data)],
     readMin |-> MaxInt64, readMax |-> MinInt64, tombs |-> tombs, ptr |-> ptr,
     data |-> data]

OverlapsTimeRange(b, min, max) == b.min <= max /\ b.max >= min

BlockRead(b) == b.readMin <= b.min /\ b.readMax >= b.max

MarkBlockRead(b, min, max) ==
    [b EXCEPT !.readMin = IF min < @ THEN min ELSE @,
              !.readMax = IF max > @ THEN max ELSE @]

PartiallyRead(b) ==
    /\ ~(b.readMin = MaxInt64 /\ b.readMax = MinInt64)
    /\ b.readMin # b.min \/ b.readMax # b.max

\* blocks.Less for blocks of one key: one lies wholly before the other.
BlockLess(a, b) == a.min < b.min /\ a.max < b.min

\* sort.Stable on fewer than twenty blocks is an insertion sort.
SortBlocks(bs) ==
    LET insert(s, x) ==
            LET stop == {i \in 1..Len(s) : ~BlockLess(x, s[i])}
                k == IF stop = {} THEN 0 ELSE Max(stop)
            IN  SubSeq(s, 1, k) \o <<x>> \o SubSeq(s, k + 1, Len(s))
    IN  FoldLeft(insert, <<>>, bs)

ExcludeAll(data, tombs) ==
    FoldSet(LAMBDA r, a : ArrayExclude(a, r.min, r.max), data, tombs)

\* chunkFloat: at most BlockSize of the merged values make a block.
Chunk(it) ==
    LET n == Min({BlockSize, ArrayLen(it.values)}) IN
    IF n = 0 THEN it
    ELSE [it EXCEPT !.merged = Append(@, NewBlock(it.key, Cut(it.values, 0, n), FALSE, {})),
                    !.values = Cut(@, n, ArrayLen(@))]

-----------------------------------------------------------------------------
(* combineFloat with dedup: decode every block that overlaps the first *)

DropRead(bs) ==
    LET unread == {i \in DOMAIN bs : ~BlockRead(bs[i])} IN
    IF unread = {} THEN <<>> ELSE SubSeq(bs, Min(unread), Len(bs))

\* The window to merge: back to the start of every block that overlaps it, and
\* no further than the earliest end among them.
MergeWindow(bs) ==
    LET narrow(w, b) ==
            IF ~OverlapsTimeRange(b, w.min, w.max) \/ BlockRead(b) THEN w
            ELSE LET min == IF b.min < w.min THEN b.min ELSE w.min IN
                 [min |-> min,
                  max |-> IF b.max > min /\ b.max < w.max THEN b.max ELSE w.max]
    IN  FoldLeft(narrow, [min |-> bs[1].min, max |-> bs[1].max], bs)

\* mutant: the merged values are laid over the newer block
LayUnder(it, i, v) ==
    [it EXCEPT !.blocks[i] = IF ArrayLen(v) = 0 THEN @
                             ELSE MarkBlockRead(@, v.ts[1], v.ts[ArrayLen(v)]),
               !.values = ArrayMerge(ExcludeAll(v, it.blocks[i].tombs), @)]

\* The points v of block i, without the deleted ones, are laid over the merged
\* values; all of them count as read.
LayOver(it, i, v) ==
    [it EXCEPT !.blocks[i] = IF ArrayLen(v) = 0 THEN @
                             ELSE MarkBlockRead(@, v.ts[1], v.ts[ArrayLen(v)]),
               !.values = ArrayMerge(@, ExcludeAll(v, it.blocks[i].tombs))]

\* The points of block i that lie in the window and were not read before.
MergeInto(w, it, i) ==
    LET b == it.blocks[i]
        unread == ArrayExclude(b.data, b.readMin, b.readMax)
    IN  IF ~OverlapsTimeRange(b, w.min, w.max) \/ BlockRead(b) THEN it
        ELSE LayOver(it, i, ArrayInclude(unread, w.min, w.max))

\* One round of the loop over the blocks that are left.
MergeRound(it, w) ==
    FoldLeft(LAMBDA x, i : MergeInto(w, x, i), it, [i \in 1..Len(it.blocks) |-> i])

\* Rounds are made until there is enough for a block; one that changes nothing is
\* repeated forever.
RECURSIVE DedupBlocks(_)
DedupAgain(it, next) == IF next = it THEN [it EXCEPT !.hung = TRUE] ELSE DedupBlocks(next)

DedupBlocks(it) ==
    LET live == [it EXCEPT !.blocks = DropRead(@)] IN
    IF ArrayLen(it.values) >= BlockSize \/ it.blocks = <<>> THEN it
    ELSE IF live.blocks = <<>> THEN live
    ELSE DedupAgain(live, MergeRound(live, MergeWindow(live.blocks)))

CombineDedup(it) == Chunk(DedupBlocks([it EXCEPT !.merged = <<>>]))

-----------------------------------------------------------------------------
(* combineFloat without dedup: nothing overlaps and nothing is deleted *)

\* Blocks that are full, and pointers, are taken as they are up to the first
\* small one; a fast merge takes them all, and so does a merge with one left.
AsIs(it, fast) ==
    LET bs == it.blocks
        small == {i \in DOMAIN bs : ~BlockRead(bs[i]) /\ ~bs[i].ptr
                                    /\ ArrayLen(bs[i].data) < BlockSize}
        n == IF small = {} \/ fast \/ Min(small) = Len(bs) THEN Len(bs)
             ELSE Min(small) - 1
    IN  [it EXCEPT !.merged = @ \o SelectSeq(SubSeq(bs, 1, n), LAMBDA b : ~BlockRead(b)),
                   !.blocks = SubSeq(bs, n + 1, Len(bs))]

\* The rest is decoded and combined until there is enough for a block.  At a
\* pointer the loop goes on without moving past it, so it never ends.
RECURSIVE CombineRest(_)
CombineRest(it) ==
    LET b == it.blocks[1] IN
    IF it.blocks = <<>> \/ ArrayLen(it.values) >= BlockSize THEN it
    ELSE IF BlockRead(b) THEN CombineRest([it EXCEPT !.blocks = Tail(@)])
    ELSE IF b.ptr THEN [it EXCEPT !.hung = TRUE]
    ELSE CombineRest([it EXCEPT !.values = ArrayMerge(@, b.data), !.blocks = Tail(@)])

CombineFresh(it, fast) == Chunk(CombineRest(AsIs(it, fast)))

\* mutant: blocks that overlap do not call for a merge
NeedsDedupApart(it) ==
    \/ ArrayLen(it.values) # 0
    \/ \E i \in DOMAIN it.blocks : it.blocks[i].tombs # {} \/ PartiallyRead(it.blocks[i])

NeedsDedup(it) ==
    LET bs == it.blocks IN
    \/ ArrayLen(it.values) # 0
    \/ \E i \in DOMAIN bs :
         \/ bs[i].tombs # {} \/ PartiallyRead(bs[i])
         \/ i > 1 /\ OverlapsTimeRange(bs[i], bs[i - 1].min, bs[i - 1].max)

Combine(it, fast) == IF NeedsDedup(it) THEN CombineDedup(it) ELSE CombineFresh(it, fast)

\* mergeFloat.  The number of pointers it compares with the separation threshold is
\* the type in the block's first byte, which is below the threshold.
MergeFloat(it, fast) ==
    IF it.blocks = <<>> /\ it.merged = <<>> /\ ArrayLen(it.values) = 0 THEN it
    ELSE Combine([it EXCEPT !.blocks = SortBlocks(@)], fast)

-----------------------------------------------------------------------------
(* sstBatchKeyIterator.Next *)

NewBatchIterator(files) ==
    [iters |-> [f \in DOMAIN files |-> 0], buf |-> [f \in DOMAIN files |-> <<>>],
     blocks |-> <<>>, merged |-> <<>>, values |-> EmptyArray, key |-> 0, hung |-> FALSE]

\* The blocks of the next key of file f, if none are read ahead.
ReadAhead(files, it, f) ==
    LET k == it.iters[f] + 1
        entry == files[f][k]
    IN  IF it.buf[f] # <<>> \/ k > Len(files[f]) THEN it
        ELSE [it EXCEPT !.iters[f] = k,
                        !.buf[f] = [b \in DOMAIN entry.blocks |->
                            NewBlock(entry.key, entry.blocks[b].data, entry.blocks[b].ptr,
                                     entry.tombs)]]

\* All blocks of the smallest key, of the files full that have any read ahead.
TakeFrom(it, full) ==
    LET key == Min({it.buf[f][1].key : f \in full})
        mine(f) == it.buf[f] # <<>> /\ it.buf[f][1].key = key
        take(f) == IF mine(f) THEN it.buf[f] ELSE <<>>
        leave(f) == IF mine(f) THEN <<>> ELSE it.buf[f]
    IN  IF full = {} THEN it
        ELSE [it EXCEPT !.key = key,
                        !.blocks = FlattenSeq([f \in DOMAIN it.buf |-> take(f)]),
                        !.buf = [f \in DOMAIN @ |-> leave(f)]]

TakeSmallestKey(it) == TakeFrom(it, {f \in DOMAIN it.buf : it.buf[f] # <<>>})

TakeKeyBlocks(files, it) ==
    TakeSmallestKey(FoldLeft(LAMBDA x, f : ReadAhead(files, x, f), it, [f \in DOMAIN files |-> f]))

\* Next leaves the iterator with a block in merged, or with none at the end.  The
\* block read last is dropped; then come the values that are left over, the blocks
\* that are left over, and the blocks of the next key, and so on if it has nothing.
Settled(it) == it.merged # <<>> \/ it.hung

DropFirst(it) == IF it.merged = <<>> THEN it ELSE [it EXCEPT !.merged = Tail(@)]

MergeValues(it, fast) ==
    IF ~Settled(it) /\ ArrayLen(it.values) > 0 THEN MergeFloat(it, fast) ELSE it

MergeBlocks(it, fast) ==
    IF ~Settled(it) /\ it.blocks # <<>> THEN MergeFloat(it, fast) ELSE it

RECURSIVE BatchNext(_, _, _)
Retry(files, it, fast) == IF Settled(it) THEN it ELSE BatchNext(files, it, fast)

MergeTaken(files, it, fast) ==
    IF it.blocks = <<>> THEN it ELSE Retry(files, MergeFloat(it, fast), fast)

NextKey(files, it, fast) ==
    IF Settled(it) THEN it ELSE MergeTaken(files, TakeKeyBlocks(files, it), fast)

BatchNext(files, it, fast) ==
    NextKey(files, MergeBlocks(MergeValues(DropFirst(it), fast), fast), fast)
=============================================================================
