------------------------------ MODULE SSTFile ------------------------------
(***************************************************************************)
(* The life of the files that one flush or compaction writes: the blocks   *)
(* are written, limits end one file and begin the next, the files are      *)
(* opened, deletes leave tombstones beside them and in their indexes while *)
(* an iterator walks the blocks, and the files are opened again            *)
(* (storage/store: sst_writer.go, sst_reader.go, tombstone.go,             *)
(* sst_batch_deleter.go, sst_file.go).                                     *)
(***************************************************************************)
EXTENDS SSTIndex

CONSTANTS
    Inputs,         \* the sequences of [key, block] an iterator may deliver
    Requests,       \* the deletes clients may ask for: [keys, min, max]
    MaxFileSize,    \* the size at which a file is ended
    BatchSize,      \* the tombstones applied together, 4096 in the code
    MaxDeletes,     \* bound: deletes
    MaxOpens        \* bound: times the files are opened

VARIABLES
    input, todo,    \* what the iterator delivers, what is left of it
    w,              \* the writer of the current file
    full,           \* a limit was reached, the file ends here
    files,          \* the files written
    tfile,          \* the tombstone file of each: its entries, <<>> when there is none
    pending,        \* Tombstoner.tombstones of each
    idx,            \* the open indexes; <<>> while the files are not open
    del,            \* the delete in progress
    iter,           \* a BlockIterator
    asked,          \* ghost: the ranges of deletes that returned without an error
    requested,      \* ghost: the ranges of all deletes
    deletes, opens  \* bounds

\* What the iterators of flushes and compactions promise: keys in order, the blocks of a
\* key in order and apart, points in order in a block, none empty.
Ordered(s) ==
    /\ s \in Seq(Range(s))
    /\ \A i \in DOMAIN s :
          /\ s[i] = [key |-> s[i].key, block |-> s[i].block]
          /\ s[i].key \in Nat \ {NoKey} /\ KeyLen(s[i].key) \in Nat /\ BlockLen(s[i].block) \in Nat
          /\ s[i].block \in Seq(Range(s[i].block)) \ {<<>>}
          /\ \A x \in DOMAIN s[i].block : s[i].block[x].t \in MinInt64..MaxInt64
          /\ \A x, y \in DOMAIN s[i].block : x < y => s[i].block[x].t < s[i].block[y].t
    /\ \A i, j \in DOMAIN s : i < j =>
          \/ s[i].key < s[j].key
          \/ s[i].key = s[j].key /\ MaxTime(s[i].block) < MinTime(s[j].block)

ASSUME SSTAssumption ==
    /\ MaxIndexEntries \in Nat \ {0} /\ MaxFileSize \in Nat /\ BatchSize \in Nat \ {0, 1}
    /\ MaxDeletes \in Nat /\ MaxOpens \in Nat
    /\ \A s \in Inputs : Ordered(s)
    /\ \A r \in Requests :
          /\ r = [keys |-> r.keys, min |-> r.min, max |-> r.max]
          /\ r.keys \subseteq Nat /\ r.keys # {} /\ IsFiniteSet(r.keys)
          /\ r.min \in MinInt64..MaxInt64 /\ r.max \in MinInt64..MaxInt64

vars == <<input, todo, w, full, files, tfile, pending, idx, del, iter, asked, requested, deletes, opens>>

Idle == [pc |-> "idle"]

NoIter == [file |-> 0]

Init ==
    /\ input \in Inputs /\ todo = input
    /\ w = NewSSTWriter /\ full = FALSE
    /\ files = <<>> /\ tfile = <<>> /\ pending = <<>> /\ idx = <<>>
    /\ del = Idle /\ iter = NoIter /\ asked = {} /\ requested = {}
    /\ deletes = 0 /\ opens = 0

-----------------------------------------------------------------------------
(* Compactor.write and writeNewFiles *)

readers == <<tfile, pending, idx, del, iter, asked, requested, deletes, opens>>

\* sstWriter.Size
SizeOf(x) == x.n + x.size

\* One block from the iterator.
WriteNext ==
    /\ todo # <<>> /\ ~full
    /\ w' = WriteBlock(w, todo[1].key, todo[1].block)
    /\ full' = (MaxBlocksExceeded(w', todo[1].key) \/ SizeOf(w') > MaxFileSize)
    /\ todo' = Tail(todo)
    /\ UNCHANGED <<input, files>> /\ UNCHANGED readers

\* A limit ends the file; there may be more to write.
EndFull ==
    /\ full
    /\ files' = Append(files, WriteIndex(w))
    /\ w' = NewSSTWriter /\ full' = FALSE
    /\ UNCHANGED <<input, todo>> /\ UNCHANGED readers

\* The iterator has ended.  A file without values is dropped.
EndLast ==
    /\ ~full /\ todo = <<>> /\ opens = 0
    /\ files' = IF NoValues(w) THEN files ELSE Append(files, WriteIndex(w))
    /\ opens' = 1
    /\ tfile' = [f \in DOMAIN files' |-> <<>>]
    /\ pending' = tfile'
    /\ UNCHANGED <<input, todo, w, full, idx, del, iter, asked, requested, deletes>>

-----------------------------------------------------------------------------
(* Tombstoner and SSTReader *)

\* applyTombstones: the entries in batches of one range.  A batch that has
\* grown to the limit is applied with the range of the entry before the last.
Batches(entries) ==
    LET add(acc, e) ==
            LET changed == acc.keys # {} /\ (acc.prev.min # e.min \/ acc.prev.max # e.max)
                flushed == [keys |-> acc.keys, min |-> acc.prev.min, max |-> acc.prev.max]
                out == IF changed THEN Append(acc.out, flushed) ELSE acc.out
                keys == IF changed THEN {e.key} ELSE acc.keys \cup {e.key}
            IN  IF Cardinality(keys) >= BatchSize
                THEN [keys |-> {}, prev |-> e,
                      out |-> Append(out, [keys |-> keys, min |-> acc.prev.min,
                                           max |-> acc.prev.max])]
                ELSE [keys |-> keys, prev |-> e, out |-> out]
        none == [keys |-> {}, prev |-> [key |-> NoKey, min |-> 0, max |-> 0], out |-> <<>>]
        read[n \in 0..Len(entries)] == IF n = 0 THEN none ELSE add(read[n - 1], entries[n])
        all == read[Len(entries)]
    IN  IF all.keys = {} THEN all.out
        ELSE Append(all.out, [keys |-> all.keys, min |-> all.prev.min, max |-> all.prev.max])

\* Tombstoner.Walk: what the file holds, then what is not written; nothing when
\* there is no file.
Recorded(f) == IF tfile[f] = <<>> THEN <<>> ELSE tfile[f] \o pending[f]

\* NewSSTReader: the index, and the tombstones applied to it.
OpenReader(f) ==
    LET bs == Batches(tfile[f])
        apply[n \in 0..Len(bs)] ==
            IF n = 0 THEN UnmarshalBinary(files[f])
            ELSE DeleteRange(apply[n - 1], bs[n].keys, bs[n].min, bs[n].max)
    IN  apply[Len(bs)]

Open ==
    /\ opens > 0 /\ idx = <<>> /\ files # <<>>
    /\ idx' = [f \in DOMAIN files |-> OpenReader(f)]
    /\ UNCHANGED <<input, todo, w, full, files, tfile, pending, del, iter, asked, requested, deletes, opens>>

\* The process ends, in the middle of a delete or not, and starts again.  What
\* was asked for is forgotten unless a tombstone file has it.
Restart ==
    /\ idx # <<>> /\ opens < MaxOpens
    /\ opens' = opens + 1
    /\ idx' = <<>> /\ del' = Idle /\ iter' = NoIter
    /\ pending' = [f \in DOMAIN files |-> <<>>]
    /\ asked' = {a \in asked : \A f \in DOMAIN files :
                    a.key \in {e.key : e \in Range(files[f].index)} => a \in Range(tfile[f])}
    /\ UNCHANGED <<input, todo, w, full, files, tfile, requested, deletes>>

-----------------------------------------------------------------------------
(* FileStore.DeleteRange *)

writers == <<input, todo, w, full, files>>

Ranges(r) == {[key |-> k, min |-> r.min, max |-> r.max] : k \in r.keys}

\* A batch, and the lock it holds, for each file whose time the range meets.
DeleteBegin(r) ==
    /\ idx # <<>> /\ del = Idle /\ deletes < MaxDeletes
    /\ deletes' = deletes + 1
    /\ del' = [pc |-> "add", r |-> r, failed |-> FALSE,
               left |-> {f \in DOMAIN idx : OverlapsTimeRange(idx[f], r.min, r.max)},
               files |-> {f \in DOMAIN idx : OverlapsTimeRange(idx[f], r.min, r.max)}]
    /\ requested' = requested \cup Ranges(r)
    /\ UNCHANGED writers /\ UNCHANGED <<tfile, pending, idx, iter, asked, opens>>

\* The keys in order.
SortedKeys(S) ==
    CHOOSE s \in [1..Cardinality(S) -> S] : \A i, j \in DOMAIN s : i < j => s[i] < s[j]

\* The entries a call adds to file f: the keys within the file's range of keys,
\* none when the keys or the times cannot be in the file.
NewTombstones(f, r) ==
    LET keys == SortedKeys({k \in r.keys : ContainsKey(idx[f], k)})
        lo == CHOOSE k \in r.keys : \A m \in r.keys : k <= m
        hi == CHOOSE k \in r.keys : \A m \in r.keys : k >= m
    IN  IF ~OverlapsKeyRange(idx[f], lo, hi) \/ ~OverlapsTimeRange(idx[f], r.min, r.max)
        THEN <<>>
        ELSE [i \in DOMAIN keys |-> [key |-> keys[i], min |-> r.min, max |-> r.max]]

\* batchDelete.DeleteRange: AddRange writes a new tombstone file and renames it
\* over the old one.
AddRange(f) ==
    /\ del.pc = "add" /\ f \in del.left
    /\ LET new == NewTombstones(f, del.r) IN
         IF new = <<>> THEN UNCHANGED <<tfile, pending>>
         ELSE /\ tfile' = [tfile EXCEPT ![f] = pending[f] \o new]
              /\ pending' = [pending EXCEPT ![f] = <<>>]
    /\ del' = [del EXCEPT !.left = @ \ {f}]
    /\ UNCHANGED writers /\ UNCHANGED <<idx, iter, asked, requested, deletes, opens>>

\* The file cannot be written: the entries stay pending.  Or it cannot be
\* renamed: they are gone.  Or the directory cannot be synced: the file is there.
AddRangeFails(f) ==
    LET new == NewTombstones(f, del.r)
        set(t, p) == tfile' = [tfile EXCEPT ![f] = t] /\ pending' = [pending EXCEPT ![f] = p]
    IN  /\ del.pc = "add" /\ f \in del.left
        /\ new # <<>>
        /\ \/ set(tfile[f], pending[f] \o new)
           \/ set(tfile[f], <<>>)
           \/ set(pending[f] \o new, <<>>)
        /\ del' = [del EXCEPT !.left = @ \ {f}, !.failed = TRUE]
        /\ UNCHANGED writers /\ UNCHANGED <<idx, iter, asked, requested, deletes, opens>>

\* All files have answered: commit all, or roll all back.  A rollback removes a
\* temporary file that was not renamed and no more.
Commit ==
    /\ del.pc = "add" /\ del.left = {}
    /\ del' = IF del.failed THEN Idle
              ELSE [pc |-> "apply", r |-> del.r, left |-> del.files,
                    todo |-> [f \in del.files |-> Batches(Recorded(f))]]
    /\ UNCHANGED writers /\ UNCHANGED <<tfile, pending, idx, iter, asked, requested, deletes, opens>>

\* indirectIndex.DeleteRange under applyTombstones: the keys that are gone
\* altogether are dropped under the lock of the index, ...
DropKeys(f) ==
    /\ del.pc = "apply" /\ f \in del.left /\ del.todo[f] # <<>>
    /\ LET b == Head(del.todo[f])
           plan == DeletePlan(idx[f], b.keys, b.min, b.max)
       IN  /\ idx' = [idx EXCEPT ![f] = DeleteKeys(@, plan.full)]
           /\ del' = [pc |-> "store", file |-> f, new |-> plan.new, r |-> del.r,
                      left |-> del.left, todo |-> [del.todo EXCEPT ![f] = Tail(@)]]
    /\ UNCHANGED writers /\ UNCHANGED <<tfile, pending, iter, asked, requested, deletes, opens>>

\* ... and the tombstones of the others stored under it once more.
StoreRanges ==
    /\ del.pc = "store"
    /\ idx' = [idx EXCEPT ![del.file] = StoreTombstones(@, del.new)]
    /\ del' = [pc |-> "apply", r |-> del.r, left |-> del.left, todo |-> del.todo]
    /\ UNCHANGED writers /\ UNCHANGED <<tfile, pending, iter, asked, requested, deletes, opens>>

\* The file has applied all its tombstones.
Committed(f) ==
    /\ del.pc = "apply" /\ f \in del.left /\ del.todo[f] = <<>>
    /\ del' = [del EXCEPT !.left = @ \ {f}]
    /\ UNCHANGED writers /\ UNCHANGED <<tfile, pending, idx, iter, asked, requested, deletes, opens>>

DeleteEnd ==
    /\ del.pc = "apply" /\ del.left = {}
    /\ del' = Idle
    /\ asked' = asked \cup Ranges(del.r)
    /\ UNCHANGED writers /\ UNCHANGED <<tfile, pending, idx, iter, requested, deletes, opens>>

-----------------------------------------------------------------------------
(* BlockIterator *)

others == <<tfile, pending, idx, del, asked, requested, deletes, opens>>

NewBlockIterator(f) ==
    /\ idx # <<>> /\ iter = NoIter
    /\ iter' = [file |-> f, i |-> 0, n |-> KeyCount(idx[f]), key |-> NoKey, entries |-> <<>>,
                err |-> FALSE, done |-> FALSE, keys |-> idx[f].offsets, out |-> <<>>]
    /\ UNCHANGED writers /\ UNCHANGED others

Deliver(it) ==
    [it EXCEPT !.out = Append(@, [key |-> it.key, entry |-> it.entries[1]])]

\* mutant: the number of keys is not compared
IterNextUnchecked ==
    /\ iter # NoIter /\ ~iter.done
    /\ LET d == idx[iter.file]
           rest == IF iter.entries = <<>> THEN <<>> ELSE Tail(iter.entries)
           moved == [iter EXCEPT !.key = KeyAt(d, iter.i), !.entries = EntriesAt(d, iter.i),
                                 !.i = @ + 1]
       IN  iter' =
             IF rest # <<>> THEN Deliver([iter EXCEPT !.entries = rest])
             ELSE IF iter.i >= iter.n \/ moved.entries = <<>>
             THEN [iter EXCEPT !.entries = <<>>, !.done = TRUE]
             ELSE Deliver(moved)
    /\ UNCHANGED writers /\ UNCHANGED others

\* Next, and Read of the block it stands on.
IterNext ==
    /\ iter # NoIter /\ ~iter.done
    /\ LET d == idx[iter.file]
           rest == IF iter.entries = <<>> THEN <<>> ELSE Tail(iter.entries)
           moved == [iter EXCEPT !.key = KeyAt(d, iter.i), !.entries = EntriesAt(d, iter.i),
                                 !.i = @ + 1]
       IN  iter' =
             IF rest # <<>> THEN Deliver([iter EXCEPT !.entries = rest])
             ELSE IF iter.i >= iter.n THEN [iter EXCEPT !.entries = <<>>, !.done = TRUE]
             ELSE IF iter.n # KeyCount(d) THEN [moved EXCEPT !.err = TRUE, !.done = TRUE]
             ELSE IF moved.entries = <<>> THEN [moved EXCEPT !.done = TRUE]
             ELSE Deliver(moved)
    /\ UNCHANGED writers /\ UNCHANGED others

IterEnd ==
    /\ iter # NoIter /\ iter.done
    /\ iter' = NoIter
    /\ UNCHANGED writers /\ UNCHANGED others

-----------------------------------------------------------------------------
Next ==
    \/ WriteNext \/ EndFull \/ EndLast \/ Open \/ Restart
    \/ \E r \in Requests : DeleteBegin(r)
    \/ \E f \in DOMAIN files : AddRange(f) \/ AddRangeFails(f) \/ DropKeys(f) \/ Committed(f)
    \/ Commit \/ StoreRanges \/ DeleteEnd
    \/ \E f \in DOMAIN files : NewBlockIterator(f)
    \/ IterNext \/ IterEnd

Spec == Init /\ [][Next]_vars
-----------------------------------------------------------------------------
(* FileStore.WalkKeys over the files, and FileStore.Read *)

\* mutant: an iterator is dropped one key early
WalkStepShort(acc) ==
    LET key(f) == KeyAt(idx[f], acc.pos[f])
        f == CHOOSE x \in acc.live : \A y \in acc.live : key(x) <= key(y)
        live == IF acc.pos[f] + 2 < KeyCount(idx[f]) THEN acc.live ELSE acc.live \ {f}
        next == [acc EXCEPT !.pos[f] = @ + 1, !.live = live]
    IN  IF acc.live = {} THEN acc
        ELSE IF acc.merging /\ acc.key = key(f) THEN next
        ELSE [next EXCEPT !.key = key(f), !.out = Append(@, key(f)),
                          !.merging = Cardinality(live) > 1]

\* mergeKeyIterator.Next: the smallest key of the iterators that have one left.
\* A key seen just before is skipped, if there were two iterators to begin with.
WalkStep(acc) ==
    LET key(f) == KeyAt(idx[f], acc.pos[f])
        f == CHOOSE x \in acc.live : \A y \in acc.live : key(x) <= key(y)
        live == IF acc.pos[f] + 1 < KeyCount(idx[f]) THEN acc.live ELSE acc.live \ {f}
        next == [acc EXCEPT !.pos[f] = @ + 1, !.live = live]
    IN  IF acc.live = {} THEN acc
        ELSE IF acc.merging /\ acc.key = key(f) THEN next
        ELSE [next EXCEPT !.key = key(f), !.out = Append(@, key(f)),
                          !.merging = Cardinality(live) > 1]

\* WalkKeys without a key to start from: a step for each key of each file.
WalkKeys ==
    LET live == {f \in DOMAIN idx : KeyCount(idx[f]) > 0}
        total == Cardinality(UNION {{f} \X (0..KeyCount(idx[f]) - 1) : f \in DOMAIN idx})
        walk[n \in 0..total] ==
            IF n = 0 THEN [pos |-> [f \in DOMAIN idx |-> 0], live |-> live, key |-> NoKey,
                           merging |-> Cardinality(live) > 1, out |-> <<>>]
            ELSE WalkStep(walk[n - 1])
    IN  walk[total].out

\* FileStore.Read: the first file that has a block for the key and the time.
StoreRead(key, t) ==
    LET hits == {f \in DOMAIN idx : Read(files[f], idx[f], key, t) # <<>>} IN
    IF hits = {} THEN <<>>
    ELSE LET f == CHOOSE x \in hits : \A y \in hits : x <= y IN Read(files[f], idx[f], key, t)

-----------------------------------------------------------------------------
(* Properties *)

Tombstone == [key : Nat, min : Int, max : Int]

\* Every variable has its type; a key never has more entries than the index can count
\* (maxIndexEntries).
TypeOK ==
    /\ input \in Inputs /\ full \in BOOLEAN
    /\ Len(w.entries) <= MaxIndexEntries
    /\ DOMAIN tfile = DOMAIN pending
    /\ \A f \in DOMAIN tfile : Range(tfile[f]) \cup Range(pending[f]) \subseteq Tombstone
    /\ idx # <<>> => DOMAIN idx = DOMAIN files
    /\ del.pc \in {"idle", "add", "apply", "store"}
    /\ iter.file \in 0..Len(files)
    /\ asked \subseteq requested /\ requested \subseteq Tombstone

Written(f) ==
    LET of(s) == [i \in DOMAIN s.entries |-> [key |-> s.key, block |-> BlockAt(files[f], s.entries[i])]]
    IN  FlattenSeq([i \in DOMAIN files[f].index |-> of(files[f].index[i])])

\* Through the entries of the indexes, file after file, exactly the blocks of the
\* iterator are found in its order: positions and sizes add up (sstWriter.WriteBlock,
\* directIndex), and nothing is lost where a limit ends a file (Compactor.write and
\* writeNewFiles).
FilesWhole == opens > 0 => FlattenSeq([f \in DOMAIN files |-> Written(f)]) = input

Covered(k, t, ranges) == \E r \in ranges : r.key = k /\ HasTime(r, t)

\* The points of section i of file f.
Points(f, i) == UNION {Range(BlockAt(files[f], e)) : e \in Range(files[f].index[i].entries)}

\* Once a delete has returned without an error, ContainsValue does not find a point of its
\* keys in its range and ReadAll does not return it, whatever deletes come before and after
\* (indirectIndex.DeleteRange, the detection of wholly deleted keys, the filters of
\* batchDelete and AddRange).  Not so SSTReader.Read and FileStore.Read: they return the
\* block of a time as it was written, with the deleted points of a key that is still listed.
DeletedGone ==
    idx # <<>> => \A f \in DOMAIN files : \A i \in DOMAIN files[f].index : \A p \in Points(f, i) :
        LET k == files[f].index[i].key IN
        Covered(k, p.t, asked) =>
            /\ ~ContainsValue(idx[f], k, p.t)
            /\ p \notin Range(ReadAll(files[f], idx[f], k))

\* A point no delete was asked for is found by every read, before, during and after
\* the deletes of others: its key is not dropped with two edges deleted, not lost by
\* the search that never compares the last offset, not deleted in place of another.
OthersKept ==
    idx # <<>> => \A f \in DOMAIN files : \A i \in DOMAIN files[f].index : \A p \in Points(f, i) :
        LET k == files[f].index[i].key IN
        ~Covered(k, p.t, requested) =>
            /\ ContainsValue(idx[f], k, p.t)
            /\ p \in Range(ReadAll(files[f], idx[f], k))
            /\ p \in Range(StoreRead(k, p.t))

\* A walk over all files (WalkKeys) meets every key that any file lists, in order, and
\* Seek finds the place of each (mergeKeyIterator, indirectIndex.Seek).
KeysWalked ==
    idx # <<>> =>
        LET listed(f) == {KeyAt(idx[f], i) : i \in 0..KeyCount(idx[f]) - 1} IN
        /\ Range(WalkKeys) = UNION {listed(f) : f \in DOMAIN idx}
        /\ \A i \in 2..Len(WalkKeys) : WalkKeys[i - 1] <= WalkKeys[i]
        /\ \A f \in DOMAIN idx : \A k \in listed(f) : KeyAt(idx[f], Seek(idx[f], k)) = k

\* An iterator that ends without an error has returned every block the index listed
\* when it began: a delete in the meantime either spares the keys still to come or is
\* noticed (BlockIterator.Next, "delete during iteration").
IterationWhole ==
    iter # NoIter /\ iter.done /\ ~iter.err =>
        LET section(ofs) == SectionAt(idx[iter.file].b, ofs)
            of(s) == [i \in DOMAIN s.entries |-> [key |-> s.key, entry |-> s.entries[i]]]
        IN  iter.out = FlattenSeq([i \in DOMAIN iter.keys |-> of(section(iter.keys[i]))])
=============================================================================
