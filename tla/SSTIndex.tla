------------------------------ MODULE SSTIndex ------------------------------
(***************************************************************************)
(* The index of an open SST file (storage/store/sst_index.go) and the      *)
(* reads that go through it (sst_block_accessor.go, sst_reader.go).        *)
(*                                                                         *)
(* An index is [b, offsets, minKey, maxKey, minTime, maxTime, tombs]: b is *)
(* the bytes of the index, here its sections at their positions; offsets   *)
(* is the slice of positions of the keys still there, from which deletes   *)
(* remove; tombs is the map from a key to the ranges deleted from it.      *)
(* Numbers of keys count from 0, as in Go.                                 *)
(***************************************************************************)
EXTENDS SSTWriter, FiniteSets

Garbage == [ofs |-> -1, key |-> NoKey, entries |-> <<>>]

\* What lies at position ofs of the index: a section, if one begins there.
SectionAt(b, ofs) ==
    LET at == {i \in DOMAIN b : b[i].ofs = ofs} IN
    IF at = {} THEN Garbage ELSE b[CHOOSE i \in at : TRUE]

\* UnmarshalBinary: skip from key to key.  A section whose end does not fit in
\* the index ends the walk with an error.
Walk(b, len) ==
    LET step[n \in 0..Len(b)] ==
            IF n = 0 THEN [i |-> 0, offsets |-> <<>>]
            ELSE LET p == step[n - 1]
                     s == SectionAt(b, p.i)
                     next == p.i + 3 + KeyLen(s.key) + 2
                             + (Len(s.entries) - 1) * EntrySize + EntrySize
                 IN  IF p.i >= len \/ s = Garbage \/ next > len THEN p
                     ELSE [i |-> next, offsets |-> Append(p.offsets, p.i)]
    IN  step[Len(b)]

\* The index as UnmarshalBinary leaves it.  The greatest time starts at 0.
UnmarshalBinary(file) ==
    LET b == file.index
        offsets == Walk(b, file.indexLen).offsets
        at(i) == SectionAt(b, offsets[i])
    IN  [b |-> b, offsets |-> offsets,
         minKey |-> at(1).key, maxKey |-> at(Len(offsets)).key,
         minTime |-> Min({MaxInt64} \cup {b[i].entries[1].min : i \in DOMAIN b}),
         maxTime |-> Max({0} \cup {b[i].entries[Len(b[i].entries)].max : i \in DOMAIN b}),
         tombs |-> [k \in {} |-> <<>>]]

-----------------------------------------------------------------------------
(* Finding a key *)

KeyCount(d) == Len(d.offsets)

InRange(d, i) == i >= 0 /\ i < KeyCount(d)

\* KeyAt and Key
KeyAt(d, i) == IF InRange(d, i) THEN SectionAt(d.b, d.offsets[i + 1]).key ELSE NoKey

EntriesAt(d, i) == IF InRange(d, i) THEN SectionAt(d.b, d.offsets[i + 1]).entries ELSE <<>>

\* util.go, SearchBytesFixed over the offsets: the loop halves what is left of them, and
\* never compares the last one.
SearchBytesFixed(d, key) ==
    LET n == KeyCount(d)
        in[m \in 0..n] ==
            IF m = 0 THEN [i |-> 0, j |-> n - 1]
            ELSE LET p == in[m - 1]
                     h == (p.i + p.j) \div 2
                 IN  IF p.i >= p.j THEN p
                     ELSE IF KeyAt(d, h) < key THEN [i |-> h + 1, j |-> p.j]
                     ELSE [i |-> p.i, j |-> h]
    IN  in[n].i

\* searchOffset and Seek.  A key above all others gets the last position.
Seek(d, key) ==
    LET i == SearchBytesFixed(d, key) IN IF i < KeyCount(d) THEN i ELSE KeyCount(d)

ContainsKey(d, key) == key >= d.minKey /\ key <= d.maxKey

\* search and ReadEntries
Entries(d, key) ==
    LET i == SearchBytesFixed(d, key) IN
    IF ContainsKey(d, key) /\ KeyAt(d, i) = key THEN EntriesAt(d, i) ELSE <<>>

\* Entry: the first entry whose range holds t, none as the empty set.
Entry(d, key, t) ==
    LET es == Entries(d, key)
        at == {i \in DOMAIN es : HasTime(es[i], t)}
    IN  IF at = {} THEN {} ELSE {es[Min(at)]}

TombstoneRange(d, key) == IF key \in DOMAIN d.tombs THEN d.tombs[key] ELSE <<>>

ContainsValue(d, key, t) ==
    /\ Entry(d, key, t) # {}
    /\ \A i \in DOMAIN TombstoneRange(d, key) : ~HasTime(TombstoneRange(d, key)[i], t)

\* mutant: a range that only touches the file's does not count
OverlapsTimeRangeInside(d, min, max) == d.minTime < max /\ d.maxTime > min

OverlapsTimeRange(d, min, max) == d.minTime <= max /\ d.maxTime >= min

OverlapsKeyRange(d, min, max) == d.minKey <= max /\ d.maxKey >= min

-----------------------------------------------------------------------------
(* Deleting *)

\* Delete: walk offsets and keys together, from the place of the first key, and
\* pack what is left.
DeleteKeys(d, keys) ==
    IF keys = {} THEN d
    ELSE LET first == CHOOSE k \in keys : \A m \in keys : k <= m
             start == Seek(d, first)
             kept(i) == i <= start \/ SectionAt(d.b, d.offsets[i]).key \notin keys
             pack[i \in 0..KeyCount(d)] ==
                 IF i = 0 THEN <<>>
                 ELSE IF kept(i) THEN Append(pack[i - 1], d.offsets[i]) ELSE pack[i - 1]
         IN  [d EXCEPT !.offsets = pack[KeyCount(d)]]

\* The tombstones of a key in order of their start, then of their end: a new one
\* goes to its place.
InsertRange(ts, r) ==
    LET before(x) == x.min < r.min \/ (x.min = r.min /\ x.max <= r.max)
        place == CHOOSE i \in 1..(Len(ts) + 1) :
                    \A j \in DOMAIN ts : before(ts[j]) <=> j < i
    IN  InsertAt(ts, place, r)

\* From the least start to the greatest end.
Span(ts) == [min |-> Min({ts[j].min : j \in DOMAIN ts}), max |-> Max({ts[j].max : j \in DOMAIN ts})]

\* mutant: gaps are not noticed
WindowOverGaps(ts) == Span(ts)

\* The time that tombstones in a row delete, nothing when there is a gap: each
\* is compared with the one before it.
Window(ts) ==
    IF \A j \in 2..Len(ts) :
           \/ ts[j - 1].max = Pred(ts[j].min)
           \/ Overlaps(ts[j - 1], ts[j].min, ts[j].max)
    THEN Span(ts)
    ELSE [min |-> MaxInt64, max |-> MinInt64]

\* DeleteRange finds the keys to drop, and the tombstones of the others.
DeletePlan(d, keys, min, max) ==
    LET r == [min |-> min, max |-> max]
        es(k) == Entries(d, k)
        lo(k) == es(k)[1].min
        hi(k) == es(k)[Len(es(k))].max
        listed == {k \in keys : \E i \in 0..KeyCount(d) - 1 : KeyAt(d, i) = k}
        hit == {k \in listed : es(k) # <<>> /\ ~(min > hi(k) \/ max < lo(k))}
        whole == {k \in hit : min <= lo(k) /\ max >= hi(k)}
        new == [k \in hit \ whole |-> InsertRange(TombstoneRange(d, k), r)]
        spanned == {k \in hit \ whole : Window(new[k]).min <= lo(k) /\ Window(new[k]).max >= hi(k)}
    IN  IF min = MinInt64 /\ max = MaxInt64 THEN [full |-> keys, new |-> [k \in {} |-> <<>>]]
        ELSE IF min > d.maxTime \/ max < d.minTime
        THEN [full |-> {}, new |-> [k \in {} |-> <<>>]]
        ELSE [full |-> whole \cup spanned, new |-> new]

\* The tombstones take the place of the keys' old ones.
StoreTombstones(d, new) ==
    [d EXCEPT !.tombs = [k \in DOMAIN new \cup DOMAIN @ |->
                            IF k \in DOMAIN new THEN new[k] ELSE @[k]]]

\* indirectIndex.DeleteRange
DeleteRange(d, keys, min, max) ==
    LET plan == DeletePlan(d, keys, min, max) IN
    StoreTombstones(DeleteKeys(d, plan.full), plan.new)

-----------------------------------------------------------------------------
(* Reading blocks *)

\* readBlock: the bytes an entry names, nothing when no block lies there.
BlockAt(file, e) ==
    LET at == {i \in DOMAIN file.blocks :
                  file.blocks[i].offset = e.offset /\ file.blocks[i].size = e.size}
    IN  IF at = {} THEN <<>> ELSE file.blocks[CHOOSE i \in at : TRUE].points

\* read: the block that may hold the point.
Read(file, d, key, t) ==
    LET es == Entry(d, key, t) IN
    IF es = {} THEN <<>> ELSE BlockAt(file, CHOOSE e \in es : TRUE)

\* readAll: the blocks one after the other, those a tombstone deletes whole left out,
\* without the points that are in a tombstone.
ReadAll(file, d, key) ==
    LET ts == TombstoneRange(d, key)
        es == Entries(d, key)
        skip(e) == \E i \in DOMAIN ts : ts[i].min <= e.min /\ ts[i].max >= e.max
        strip(a) ==
            LET left[i \in 0..Len(ts)] ==
                    IF i = 0 THEN a ELSE Exclude(left[i - 1], ts[i].min, ts[i].max)
            IN  left[Len(ts)]
        read[i \in 0..Len(es)] ==
            IF i = 0 THEN <<>>
            ELSE IF skip(es[i]) THEN read[i - 1]
            ELSE read[i - 1] \o strip(BlockAt(file, es[i]))
    IN  read[Len(es)]
=============================================================================
