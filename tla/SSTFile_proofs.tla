--------------------------- MODULE SSTFile_proofs ---------------------------
(***************************************************************************)
(* The files of one flush or compaction: what was written is found through *)
(* the indexes, and deletes take away what they were asked for and nothing *)
(* else, at any time and after any restart.                                *)
(***************************************************************************)
EXTENDS SSTFile, SSTIndex_proofs

(* The blocks of all inputs. *)
InputBlocks == UNION {{s[i].block : i \in DOMAIN s} : s \in Inputs}

FileEntry == [min : Int64, max : Int64, offset : Nat, size : Nat]

FileSection == [key : Nat \ {NoKey}, entries : Seq(FileEntry)]

FileBlock == [offset : Nat, size : Nat, points : InputBlocks]

Writer == [n : Nat, blocks : Seq(FileBlock), key : Nat, entries : Seq(FileEntry),
           sections : Seq(FileSection), size : Nat, keyCount : Nat]

(* Blocks lie one after the other. *)
BlocksOK(blocks, n) ==
    /\ blocks \in Seq(FileBlock)
    /\ \A i \in 1..Len(blocks) : blocks[i].offset < n
    /\ \A i, j \in 1..Len(blocks) : i < j => blocks[i].offset < blocks[j].offset

(* An entry is that of block i. *)
EntryOf(e, blocks, i) ==
    /\ blocks[i].offset = e.offset /\ blocks[i].size = e.size
    /\ e.min = MinTime(blocks[i].points) /\ e.max = MaxTime(blocks[i].points)

(* The entries of a key, in order and apart, each that of a block. *)
EntriesOK(es, blocks) ==
    /\ es \in Seq(FileEntry) /\ es # <<>>
    /\ \A i \in 1..Len(es) : \E b \in 1..Len(blocks) : EntryOf(es[i], blocks, b)
    /\ \A i, j \in 1..Len(es) : i < j => es[i].max < es[j].min

(* The sections of an index, their keys in order. *)
SectionsOK(secs, blocks) ==
    /\ Len(secs) \in Nat /\ DOMAIN secs = 1..Len(secs)
    /\ \A i \in 1..Len(secs) : /\ secs[i].key \in Nat \ {NoKey} /\ KeyLen(secs[i].key) \in Nat
                               /\ EntriesOK(secs[i].entries, blocks)
    /\ \A i, j \in 1..Len(secs) : i < j => secs[i].key < secs[j].key

(* The sections as they are when the file ends here. *)
Secs(x) == IF x.key = NoKey THEN x.sections ELSE Append(x.sections, [key |-> x.key, entries |-> x.entries])

(* A writer that has begun, or not. *)
WriterOK(x) ==
    \/ x = NewSSTWriter
    \/ /\ x \in Writer /\ x.key # NoKey /\ x.keyCount # 0 /\ x.n # 0
       /\ BlocksOK(x.blocks, x.n) /\ SectionsOK(Secs(x), x.blocks)

(* All of the sections come before time t of key k. *)
Precede(secs, k, t) ==
    \A i \in DOMAIN secs : \A j \in DOMAIN secs[i].entries :
        secs[i].key < k \/ (secs[i].key = k /\ secs[i].entries[j].max < t)

(* ... and before other sections. *)
PrecedeAll(secs, other) ==
    \A i \in DOMAIN other : \A j \in DOMAIN other[i].entries :
        Precede(secs, other[i].key, other[i].entries[j].min)

(* A file as WriteIndex leaves it. *)
FileOK(file) ==
    /\ \E n \in Nat : BlocksOK(file.blocks, n)
    /\ SectionsOK(file.index, file.blocks) /\ Len(file.index) # 0
    /\ \A i \in 1..Len(file.index) :
          file.index[i] = [ofs |-> file.index[i].ofs, key |-> file.index[i].key, entries |-> file.index[i].entries]
    /\ file.index[1].ofs = 0
    /\ \A i \in 1..Len(file.index) :
          (IF i = Len(file.index) THEN file.indexLen ELSE file.index[i + 1].ofs)
              = file.index[i].ofs + SectionLen(file.index[i])

(* What is still to be written is the rest of the input. *)
TodoOK ==
    /\ input \in Inputs /\ Len(todo) \in Nat /\ DOMAIN todo = 1..Len(todo) /\ Len(todo) <= Len(input)
    /\ todo \in Seq(Range(input))
    /\ \A i \in 1..Len(todo) : todo[i] = input[Len(input) - Len(todo) + i]

WriteInv ==
    /\ TodoOK /\ full \in BOOLEAN /\ opens \in Nat
    /\ WriterOK(w) /\ Len(w.entries) <= MaxIndexEntries
    /\ ~full => Len(w.entries) < MaxIndexEntries
    /\ full => w # NewSSTWriter
    /\ opens > 0 => todo = <<>> /\ ~full
    /\ opens = 0 => /\ idx = <<>> /\ tfile = <<>> /\ pending = <<>> /\ asked = {}
                    /\ del = Idle /\ iter = NoIter
    /\ files \in Seq(Range(files))
    /\ \A f \in DOMAIN files : FileOK(files[f])
    /\ \A i \in 1..Len(todo) :
          /\ Precede(Secs(w), todo[i].key, MinTime(todo[i].block))
          /\ \A f \in DOMAIN files : Precede(files[f].index, todo[i].key, MinTime(todo[i].block))
    /\ opens = 0 => \A f \in DOMAIN files : PrecedeAll(files[f].index, Secs(w))
    /\ \A f, g \in DOMAIN files : f < g => PrecedeAll(files[f].index, files[g].index)
-----------------------------------------------------------------------------
(* Deletes *)

(* A range of a key. *)
Range64 == [key : Nat, min : Int64, max : Int64]

(* An entry of a file has the time. *)
InFile(file, k, t) ==
    \E i \in DOMAIN file.index :
        file.index[i].key = k /\ \E j \in DOMAIN file.index[i].entries : HasTime(file.index[i].entries[j], t)

Has(f, k, t) == InFile(files[f], k, t)

(* Ranges are kept in the tombstone file and beside it, never one nobody asked for. *)
TombstonesOK ==
    /\ opens > 0 => DOMAIN tfile = DOMAIN files /\ DOMAIN pending = DOMAIN files
    /\ \A f \in DOMAIN tfile : tfile[f] \in Seq(requested)
    /\ \A f \in DOMAIN pending : pending[f] \in Seq(requested)
    /\ requested \subseteq Range64
    /\ asked \subseteq requested

(* An open index: it holds what nobody asked to delete, and nothing of what was deleted. *)
FileHeld(d, file, ranges, gone) ==
    /\ IndexOK(d) /\ d.b = file.index
    /\ \A k \in Nat, t \in Int64 :
          /\ InFile(file, k, t) /\ ~Covered(k, t, ranges) => MayHold(d, k, t)
          /\ MayHold(d, k, t) => InFile(file, k, t) /\ ~Covered(k, t, gone)

Held ==
    idx # <<>> => /\ DOMAIN idx = DOMAIN files
                  /\ \A f \in DOMAIN files : FileHeld(idx[f], files[f], requested, asked)

(* While the files are closed the tombstone files hold all that was deleted. *)
Recoverable ==
    idx = <<>> => \A a \in asked, f \in DOMAIN files :
        (\E i \in DOMAIN files[f].index : files[f].index[i].key = a.key) => a \in Range(tfile[f])

(* Keys to delete a range of. *)
Batch == [keys : SUBSET Nat, min : Int64, max : Int64]

(* Batches made of ranges from a set. *)
BatchesOK(bs, ranges) ==
    /\ bs \in Seq(Batch)
    /\ \A i \in 1..Len(bs) : \A k \in bs[i].keys : [key |-> k, min |-> bs[i].min, max |-> bs[i].max] \in ranges

Ahead(bs, k, t) == \E i \in DOMAIN bs : k \in bs[i].keys /\ bs[i].min <= t /\ t <= bs[i].max

(* A range of the delete in progress. *)
InDelete(k, t) == k \in del.r.keys /\ del.r.min <= t /\ t <= del.r.max

(* What the delete must take away is recorded, ... *)
AddOK ==
    /\ del.pc = "add"
    /\ del = [pc |-> "add", r |-> del.r, failed |-> del.failed, left |-> del.left, files |-> del.files]
    /\ del.failed \in BOOLEAN /\ del.left \subseteq del.files
    /\ del.files = {f \in DOMAIN idx : OverlapsTimeRange(idx[f], del.r.min, del.r.max)}
    /\ ~del.failed => \A f \in del.files \ del.left, k \in del.r.keys :
          ContainsKey(idx[f], k) => [key |-> k, min |-> del.r.min, max |-> del.r.max] \in Range(tfile[f])

(* ... to be applied or gone, ... *)
ApplyOK ==
    /\ del.pc = "apply"
    /\ del = [pc |-> "apply", r |-> del.r, left |-> del.left, todo |-> del.todo]
    /\ del.left \subseteq DOMAIN idx /\ del.left \subseteq DOMAIN del.todo
    /\ \A f \in DOMAIN del.todo : BatchesOK(del.todo[f], requested)
    /\ \A f \in DOMAIN idx, k \in Nat, t \in Int64 :
          InDelete(k, t) /\ MayHold(idx[f], k, t) => f \in del.left /\ Ahead(del.todo[f], k, t)

(* ... or about to be stored. *)
StoringOK ==
    /\ del.pc = "store"
    /\ del = [pc |-> "store", file |-> del.file, new |-> del.new, r |-> del.r, left |-> del.left, todo |-> del.todo]
    /\ del.file \in del.left
    /\ \E r \in Span64 : \A k \in DOMAIN del.new :
          /\ [key |-> k, min |-> r.min, max |-> r.max] \in requested
          /\ del.new[k] = InsertRange(TombstoneRange(idx[del.file], k), r)
    /\ del.left \subseteq DOMAIN idx /\ del.left \subseteq DOMAIN del.todo
    /\ \A f \in DOMAIN del.todo : BatchesOK(del.todo[f], requested)
    /\ \A f \in DOMAIN idx, k \in Nat, t \in Int64 :
          InDelete(k, t) /\ MayHold(idx[f], k, t) =>
             /\ f \in del.left
             /\ Ahead(del.todo[f], k, t) \/ (f = del.file /\ k \in DOMAIN del.new /\ Deleted(del.new[k], t))

DelOK ==
    \/ del = Idle
    \/ /\ idx # <<>> /\ del.r \in Requests /\ Ranges(del.r) \subseteq requested
       /\ AddOK \/ ApplyOK \/ StoringOK

DeleteInv == TombstonesOK /\ Held /\ Recoverable /\ DelOK /\ (idx = <<>> => del = Idle)
-----------------------------------------------------------------------------
(* Iterating *)

(* Sequences one after the other, up to the i-th. *)
Joined(ss) ==
    LET at[i \in 0..Len(ss)] == IF i = 0 THEN <<>> ELSE at[i - 1] \o ss[i] IN at

(* What an iterator delivers of a section. *)
Delivered(s) == [i \in DOMAIN s.entries |-> [key |-> s.key, entry |-> s.entries[i]]]

DeliveredOf(b, keys) == [i \in DOMAIN keys |-> Delivered(SectionAt(b, keys[i]))]

(* The iterator stands on a block of section s. *)
OnBlock(it, s, before) ==
    \E j \in 1..Len(s.entries) :
        /\ it.key = s.key /\ it.entries = SubSeq(s.entries, j, Len(s.entries))
        /\ it.out = before \o SubSeq(Delivered(s), 1, j)

(* An iterator on index d: the index lists what it listed when the iterator began, or fewer
   keys; what was delivered is all up to where it stands. *)
IterOK(it, d) ==
    /\ it = [file |-> it.file, i |-> it.i, n |-> it.n, key |-> it.key, entries |-> it.entries,
             err |-> it.err, done |-> it.done, keys |-> it.keys, out |-> it.out]
    /\ it.keys \in Seq(Int) /\ it.n = Len(it.keys) /\ it.i \in 0..it.n
    /\ it.err \in BOOLEAN /\ it.done \in BOOLEAN /\ (it.err => it.done)
    /\ \A j \in 1..it.n : \E x \in DOMAIN d.b : SectionAt(d.b, it.keys[j]) = d.b[x]
    /\ Len(d.offsets) <= it.n /\ (Len(d.offsets) = it.n => d.offsets = it.keys)
    /\ ~it.done /\ it.i = 0 => it.out = <<>> /\ it.entries = <<>>
    /\ ~it.done /\ it.i # 0 =>
          OnBlock(it, SectionAt(d.b, it.keys[it.i]), Joined(DeliveredOf(d.b, it.keys))[it.i - 1])
    /\ it.done /\ ~it.err => it.out = Joined(DeliveredOf(d.b, it.keys))[it.n]

IterInv == iter = NoIter \/ (idx # <<>> /\ iter.file \in DOMAIN files /\ IterOK(iter, idx[iter.file]))
-----------------------------------------------------------------------------
(* The operators of the writer *)

(* What a block of the input is. *)
LEMMA BlockFacts ==
  ASSUME NEW b \in InputBlocks
  PROVE  /\ Len(b) \in Nat \ {0} /\ DOMAIN b = 1..Len(b) /\ BlockLen(b) \in Nat /\ b # <<>>
         /\ \A x \in 1..Len(b) : b[x].t \in Int64
         /\ \A x, y \in 1..Len(b) : x < y => b[x].t < b[y].t
         /\ MinTime(b) \in Int64 /\ MaxTime(b) \in Int64 /\ MinTime(b) <= MaxTime(b)
         /\ \A x \in 1..Len(b) : MinTime(b) <= b[x].t /\ b[x].t <= MaxTime(b)
<1>1. PICK s \in Inputs : \E i \in DOMAIN s : b = s[i].block
  BY DEF InputBlocks
<1>2. /\ b \in Seq(Range(b)) /\ b # <<>> /\ BlockLen(b) \in Nat
      /\ \A x \in DOMAIN b : b[x].t \in MinInt64..MaxInt64
      /\ \A x, y \in DOMAIN b : x < y => b[x].t < b[y].t
  BY <1>1, SSTAssumption DEF Ordered
<1>3. Len(b) \in Nat \ {0} /\ DOMAIN b = 1..Len(b)
  BY <1>2
<1>4. PICK n : n = Len(b)
  OBVIOUS
<1>5. n \in Nat \ {0} /\ 1 \in 1..n /\ n \in 1..n /\ \A x \in 1..n : (x # 1 => 1 < x) /\ (x # n => x < n)
  <2>1. n \in Nat \ {0}
    BY <1>3, <1>4
  <2> QED  BY <2>1
<1>6. \A x \in 1..n : b[x].t \in Int
  BY <1>2, <1>3, <1>4, TimeAssumption
<1>7. \A x \in 1..Len(b) : b[1].t <= b[x].t /\ b[x].t <= b[Len(b)].t
  <2> SUFFICES ASSUME NEW x \in 1..n PROVE b[1].t <= b[x].t /\ b[x].t <= b[n].t
    BY <1>4
  <2>1. b[1].t \in Int /\ b[x].t \in Int /\ b[n].t \in Int
    BY <1>5, <1>6
  <2>2. (x # 1 => b[1].t < b[x].t) /\ (x # n => b[x].t < b[n].t)
    BY <1>2, <1>3, <1>4, <1>5
  <2> QED  BY <2>1, <2>2
<1>8. 1 \in DOMAIN b /\ Len(b) \in DOMAIN b
  <2>1. DOMAIN b = 1..n /\ Len(b) = n
    BY <1>3, <1>4
  <2> QED  BY <1>5, <2>1
<1>9. b[1].t \in Int64 /\ b[Len(b)].t \in Int64 /\ b[1].t <= b[Len(b)].t
  BY <1>2, <1>3, <1>7, <1>8 DEF Int64
<1>10. \A x \in 1..Len(b) : b[x].t \in Int64
  BY <1>2, <1>3 DEF Int64
<1> QED  BY <1>2, <1>3, <1>7, <1>9, <1>10 DEF MinTime, MaxTime

(* Entries that are in order stay as they are. *)
LEMMA SortedAlready ==
  ASSUME NEW es \in Seq(FileEntry), \A i, j \in 1..Len(es) : i < j => es[i].min <= es[j].min
  PROVE  ByMinTime(es) = es
<1> DEFINE n == Len(es)
           T == FileEntry
           place(s, e) == CHOOSE i \in 1..(Len(s) + 1) : \A j \in DOMAIN s : s[j].min <= e.min <=> j < i
           body(m, s) == InsertAt(s, place(s, es[m]), es[m])
           Def(f) == f = [m \in 0..n |-> IF m = 0 THEN <<>> ELSE body(m, f[m - 1])]
           f == CHOOSE x : Def(x)
           g == [m \in 0..n |-> SubSeq(es, 1, m)]
<1>0. n \in Nat /\ \A i \in 1..n : es[i] \in T /\ es[i].min \in Int
  <2>1. \A e \in FileEntry : e.min \in Int
    BY TimeAssumption DEF FileEntry, Int64
  <2> QED  BY <2>1
<1>1. ByMinTime(es) = f[n]
  BY DEF ByMinTime
<1> HIDE DEF n, T
<1>2. \A m \in 0..n : /\ g[m] \in Seq(T) /\ Len(g[m]) = m /\ DOMAIN g[m] = 1..m
                      /\ \A i \in 1..m : g[m][i] = es[i]
  BY <1>0 DEF n, T
<1> HIDE DEF g
<1>3. ASSUME NEW m \in 1..n PROVE body(m, g[m - 1]) = g[m]
  <2> PICK s, e : s = g[m - 1] /\ e = es[m]
    OBVIOUS
  <2>1. /\ m - 1 \in 0..n /\ m \in 0..n /\ s \in Seq(T) /\ Len(s) = m - 1 /\ DOMAIN s = 1..(m - 1)
        /\ \A i \in 1..(m - 1) : s[i] = es[i]
    <3>1. m - 1 \in 0..n /\ m \in 0..n
      BY <1>0
    <3> QED  BY <1>2, <3>1
  <2>2. \A j \in DOMAIN s : s[j].min <= e.min
    BY <1>0, <2>1 DEF n
  <2>3. place(s, e) = m
    <3> DEFINE Q(i) == \A j \in DOMAIN s : s[j].min <= e.min <=> j < i
    <3>1. Q(m)
      BY <2>1, <2>2
    <3>2. m \in 1..(Len(s) + 1)
      BY <1>0, <2>1
    <3>3. ASSUME NEW i \in 1..(Len(s) + 1), Q(i) PROVE i = m
      <4> SUFFICES ASSUME i < m PROVE FALSE
        BY <1>0, <2>1
      <4>1. i \in DOMAIN s
        BY <1>0, <2>1
      <4> QED  BY <2>2, <3>3, <4>1
    <3>4. place(s, e) = CHOOSE i \in 1..(Len(s) + 1) : Q(i)
      OBVIOUS
    <3> HIDE DEF Q, place
    <3> QED  BY <3>1, <3>2, <3>3, <3>4
  <2> HIDE DEF place
  <2>4. body(m, s) = SubSeq(s, 1, m - 1) \o <<e>> \o SubSeq(s, m, Len(s))
    BY <2>3 DEF InsertAt
  <2>5. SubSeq(s, 1, m - 1) = s /\ SubSeq(s, m, Len(s)) = <<>>
    BY <1>0, <2>1
  <2>6. e \in T
    BY <1>0
  <2> HIDE DEF body
  <2>7. body(m, s) = Append(s, e)
    <3>1. body(m, s) = s \o <<e>> \o <<>>
      BY <2>4, <2>5
    <3>2. s \o <<e>> = Append(s, e) /\ Append(s, e) \in Seq(T)
      BY <2>1, <2>6
    <3>3. \A x \in Seq(T) : x \o <<>> = x
      OBVIOUS
    <3> QED  BY <3>1, <3>2, <3>3
  <2>8. Append(s, e) = g[m]
    <3>1. /\ Append(s, e) \in Seq(T) /\ Len(Append(s, e)) = m
          /\ \A i \in 1..m : Append(s, e)[i] = es[i]
      BY <1>0, <2>1, <2>6
    <3>2. g[m] \in Seq(T) /\ Len(g[m]) = m /\ \A i \in 1..m : g[m][i] = es[i]
      BY <1>2, <2>1
    <3> PICK a : a = Append(s, e)
      OBVIOUS
    <3> QED  BY <3>1, <3>2, SeqEqual
  <2> QED  BY <2>7, <2>8
<1> HIDE DEF body
<1>4. g[0] = <<>>
  <2>1. 0 \in 0..n
    BY <1>0
  <2> QED  BY <1>2, <2>1
<1>5. Def(g)
  <2>1. g = [m \in 0..n |-> g[m]]
    BY DEF g
  <2>2. \A m \in 0..n : g[m] = IF m = 0 THEN <<>> ELSE body(m, g[m - 1])
    <3>1. \A m \in 0..n : m = 0 \/ m \in 1..n
      BY <1>0
    <3> QED  BY <1>3, <1>4, <3>1
  <2> QED  BY <2>1, <2>2
<1>6. Def(f)
  <2> HIDE DEF Def
  <2> QED  BY <1>5
<1> HIDE DEF f
<1>7. f[0] = <<>> /\ \A m \in 1..n : f[m] = body(m, f[m - 1])
  <2>1. \A m \in 0..n : f[m] = (IF m = 0 THEN <<>> ELSE body(m, f[m - 1]))
    BY <1>6
  <2> QED  BY <1>0, <2>1
<1> DEFINE S == {m \in 0..n : f[m] = g[m]}
<1>8. 0 \in S
  BY <1>0, <1>4, <1>7
<1>9. ASSUME NEW m \in 0..n, m \in S, m < n PROVE m + 1 \in S
  <2>1. m + 1 \in 1..n /\ m + 1 \in 0..n /\ (m + 1) - 1 = m
    BY <1>0, <1>9
  <2> QED  BY <1>3, <1>7, <1>9, <2>1
<1>10. n \in S
  <2> HIDE DEF S
  <2>1. \A m \in 0..n : m \in S
    BY <1>0, <1>8, <1>9, SetInduction
  <2> QED  BY <1>0, <2>1
<1>11. g[n] = es
  <2>1. n \in 0..n
    BY <1>0
  <2>2. g[n] \in Seq(T) /\ Len(g[n]) = n /\ \A i \in 1..n : g[n][i] = es[i]
    BY <1>2, <2>1
  <2> QED  BY <2>2, SeqEqual DEF n, T
<1> QED  BY <1>1, <1>10, <1>11
(* Where the sections lie: the ends of a list of sections with lengths. *)
LEMMA EndsFacts ==
  ASSUME NEW secs, Len(secs) \in Nat, \A i \in 1..Len(secs) : SectionLen(secs[i]) \in Nat
  PROVE  /\ \A i \in 0..Len(secs) : SectionEnds(secs)[i] \in Nat
         /\ SectionEnds(secs)[0] = 0
         /\ \A i \in 1..Len(secs) : SectionEnds(secs)[i] = SectionEnds(secs)[i - 1] + SectionLen(secs[i])
<1> DEFINE n == Len(secs)
           c(i) == SectionLen(secs[i])
           h == [i \in 1..n |-> [x \in Nat |-> x + c(i)]]
           Def(f) == f = [i \in 0..n |-> IF i = 0 THEN 0 ELSE f[i - 1] + c(i)]
           f == CHOOSE x : Def(x)
<1>0. n \in Nat /\ \A i \in 1..n : c(i) \in Nat
  OBVIOUS
<1>1. SectionEnds(secs) = f
  BY DEF SectionEnds
<1> HIDE DEF n, c
<1>2. h \in [1..n -> [Nat -> Nat]] /\ \A i \in 1..n, x \in Nat : h[i][x] = x + c(i)
  BY <1>0
<1> HIDE DEF h
<1>3. PICK g \in [0..n -> Nat] : g[0] = 0 /\ \A i \in 1..n : g[i] = h[i][g[i - 1]]
  <2>1. 0 \in Nat
    OBVIOUS
  <2>2. \E g \in [0..n -> Nat] : Stepwise(g, n, 0, h)
    BY <1>0, <1>2, <2>1, StepwiseFunction
  <2> QED  BY <2>2 DEF Stepwise
<1>4. \A i \in 1..n : g[i] = g[i - 1] + c(i)
  <2> SUFFICES ASSUME NEW i \in 1..n PROVE g[i] = g[i - 1] + c(i)
    OBVIOUS
  <2>1. i - 1 \in 0..n
    BY <1>0
  <2>2. g[i - 1] \in Nat
    BY <1>3, <2>1
  <2> QED  BY <1>2, <1>3, <2>2
<1>5. Def(g)
  BY <1>0, <1>3, <1>4
<1>6. Def(f)
  <2> HIDE DEF Def
  <2> QED  BY <1>5
<1> HIDE DEF f
<1>7. f[0] = 0 /\ \A i \in 1..n : f[i] = f[i - 1] + c(i)
  <2>1. \A i \in 0..n : f[i] = (IF i = 0 THEN 0 ELSE f[i - 1] + c(i))
    BY <1>6
  <2> QED  BY <1>0, <2>1
<1> DEFINE S == {i \in 0..n : f[i] \in Nat}
<1>8. 0 \in S
  BY <1>0, <1>7
<1>9. ASSUME NEW m \in 0..n, m \in S, m < n PROVE m + 1 \in S
  <2>1. m + 1 \in 1..n /\ (m + 1) - 1 = m /\ m + 1 \in 0..n
    BY <1>0, <1>9
  <2> QED  BY <1>0, <1>7, <1>9, <2>1
<1>10. \A m \in 0..n : m \in S
  <2> HIDE DEF S
  <2> QED  BY <1>0, <1>8, <1>9, SetInduction
<1> QED  BY <1>1, <1>7, <1>10 DEF n, c
-----------------------------------------------------------------------------
(* Opening a file *)

(* The length of a section. *)
LEMMA LenFacts ==
  ASSUME NEW secs, NEW blocks, SectionsOK(secs, blocks), NEW i \in 1..Len(secs)
  PROVE  /\ SectionLen(secs[i]) \in Nat \ {0} /\ KeyLen(secs[i].key) \in Nat
         /\ Len(secs[i].entries) \in Nat \ {0}
<1>1. KeyLen(secs[i].key) \in Nat /\ secs[i].entries \in Seq(FileEntry) /\ secs[i].entries # <<>>
  BY DEF SectionsOK, EntriesOK
<1>2. Len(secs[i].entries) \in Nat \ {0}
  BY <1>1
<1> QED  BY <1>1, <1>2 DEF SectionLen, EntrySize

(* A position where a section begins leads to that section. *)
LEMMA SectionFound ==
  ASSUME NEW file, FileOK(file), NEW i \in 1..Len(file.index)
  PROVE  /\ SectionAt(file.index, file.index[i].ofs) = file.index[i]
         /\ file.index[i].ofs \in Nat /\ file.indexLen \in Nat
         /\ file.index[i].ofs + SectionLen(file.index[i]) <= file.indexLen
<1> PICK b, n : b = file.index /\ n = Len(b)
  OBVIOUS
<1>1. n \in Nat \ {0} /\ DOMAIN b = 1..n /\ i \in 1..n
  BY DEF FileOK, SectionsOK
<1> DEFINE end(x) == IF x = n THEN file.indexLen ELSE b[x + 1].ofs
<1>2. \A x \in 1..n : SectionLen(b[x]) \in Nat \ {0}
  BY LenFacts DEF FileOK
<1>3. b[1].ofs = 0 /\ \A x \in 1..n : end(x) = b[x].ofs + SectionLen(b[x])
  BY DEF FileOK
<1> DEFINE S == {m \in 0..(n - 1) : b[m + 1].ofs \in Nat /\ \A x \in 1..m : b[x].ofs \in Nat /\ b[x].ofs < b[m + 1].ofs}
<1>4. 0 \in S
  BY <1>1, <1>3
<1>5. ASSUME NEW m \in 0..(n - 1), m \in S, m < n - 1 PROVE m + 1 \in S
  <2>1. m + 1 \in 1..n /\ m + 1 # n /\ (m + 1) + 1 \in 1..n /\ m + 1 \in 0..(n - 1)
    BY <1>1, <1>5
  <2>2. b[(m + 1) + 1].ofs = b[m + 1].ofs + SectionLen(b[m + 1]) /\ SectionLen(b[m + 1]) \in Nat \ {0}
    BY <1>2, <1>3, <2>1
  <2>3. b[m + 1].ofs \in Nat /\ \A x \in 1..m : b[x].ofs \in Nat /\ b[x].ofs < b[m + 1].ofs
    BY <1>5
  <2> PICK o, q, l : o = b[m + 1].ofs /\ q = b[(m + 1) + 1].ofs /\ l = SectionLen(b[m + 1])
    OBVIOUS
  <2>4. o \in Nat /\ l \in Nat \ {0} /\ q = o + l
    BY <2>2, <2>3
  <2>5. q \in Nat /\ o < q
    BY <2>4
  <2>6. \A x \in 1..(m + 1) : b[x].ofs \in Nat /\ b[x].ofs < q
    <3>1. \A x \in 1..(m + 1) : x \in 1..m \/ x = m + 1
      BY <1>5
    <3>2. \A x \in 1..m : b[x].ofs \in Nat /\ b[x].ofs < o
      BY <2>3
    <3>3. \A y \in Nat : y < o => y < q
      BY <2>4, <2>5
    <3>4. \A x \in 1..m : b[x].ofs \in Nat /\ b[x].ofs < q
      BY <3>2, <3>3
    <3> QED  BY <2>4, <2>5, <3>1, <3>4
  <2> QED  BY <2>1, <2>5, <2>6
<1>6. \A m \in 0..(n - 1) : m \in S
  <2> HIDE DEF S
  <2>1. n - 1 \in Nat
    BY <1>1
  <2> QED  BY <1>4, <1>5, <2>1, SetInduction
<1>7. \A x, y \in 1..n : b[y].ofs \in Nat /\ b[x].ofs \in Nat /\ (x < y => b[x].ofs < b[y].ofs)
  <2> SUFFICES ASSUME NEW y \in 1..n
               PROVE  b[y].ofs \in Nat /\ \A x \in 1..n : x < y => b[x].ofs < b[y].ofs
    OBVIOUS
  <2>1. y - 1 \in 0..(n - 1) /\ (y - 1) + 1 = y /\ \A x \in 1..n : x < y => x \in 1..(y - 1)
    BY <1>1
  <2>2. y - 1 \in S
    BY <1>6, <2>1
  <2> QED  BY <2>1, <2>2
<1>8. \A x \in 1..n : b[x].ofs = b[i].ofs => x = i
  <2> SUFFICES ASSUME NEW x \in 1..n, b[x].ofs = b[i].ofs, x # i PROVE FALSE
    OBVIOUS
  <2>1. x < i \/ i < x
    BY <1>1
  <2>2. b[x].ofs \in Nat /\ (b[x].ofs < b[i].ofs \/ b[i].ofs < b[x].ofs)
    BY <1>1, <1>7, <2>1
  <2> QED  BY <2>2
<1>9. SectionAt(b, b[i].ofs) = b[i]
  <2> DEFINE at == {x \in DOMAIN b : b[x].ofs = b[i].ofs}
  <2>1. at = {i}
    BY <1>1, <1>8
  <2>2. SectionAt(b, b[i].ofs) = IF at = {} THEN Garbage ELSE b[CHOOSE x \in at : TRUE]
    BY DEF SectionAt
  <2> HIDE DEF at
  <2> QED  BY <2>1, <2>2
<1>10. file.indexLen \in Nat /\ b[i].ofs + SectionLen(b[i]) <= file.indexLen
  <2>0. PICK l, a, c, e : l = SectionLen(b[n]) /\ a = b[n].ofs /\ c = b[i].ofs /\ e = SectionLen(b[i])
    OBVIOUS
  <2>1. n \in 1..n /\ file.indexLen = a + l /\ a \in Nat /\ l \in Nat /\ c \in Nat /\ e \in Nat
    BY <1>1, <1>2, <1>3, <1>7, <2>0
  <2>2. CASE i = n
    BY <2>0, <2>1, <2>2
  <2>3. CASE i # n
    <3>1. i + 1 \in 1..n /\ b[i + 1].ofs = c + e
      BY <1>1, <1>3, <2>0, <2>3
    <3>2. b[i + 1].ofs <= a
      <4>1. i + 1 = n \/ i + 1 < n
        BY <1>1, <3>1
      <4>2. b[i + 1].ofs \in Nat /\ (i + 1 < n => b[i + 1].ofs < b[n].ofs)
        BY <1>7, <2>1, <3>1
      <4>3. a = b[n].ofs
        BY <2>0
      <4>4. CASE i + 1 = n
        BY <2>1, <4>3, <4>4
      <4>5. CASE i + 1 < n
        <5>1. PICK z : z = b[i + 1].ofs
          OBVIOUS
        <5>2. z \in Nat /\ a \in Nat /\ z < a
          BY <2>1, <4>2, <4>3, <4>5, <5>1
        <5>3. z <= a
          BY <5>2
        <5> QED  BY <5>1, <5>3
      <4> QED  BY <4>1, <4>4, <4>5
    <3>3. file.indexLen \in Nat /\ c + e <= file.indexLen
      BY <2>1, <3>1, <3>2
    <3> QED  BY <2>0, <3>3
  <2> QED  BY <2>2, <2>3
<1> QED  BY <1>1, <1>7, <1>9, <1>10

(* The length of a section, as the walk over the index adds it up. *)
LEMMA StepLength ==
  ASSUME NEW o \in Int, NEW k \in Int, NEW l \in Int
  PROVE  o + 3 + k + 2 + (l - 1) * 28 + 28 = o + (2 + k + 3 + 28 * l)
  OBVIOUS

(* indirectIndex.UnmarshalBinary steps from section to section, to the end. *)
LEMMA WalkAll ==
  ASSUME NEW file, FileOK(file)
  PROVE  Walk(file.index, file.indexLen).offsets = [i \in 1..Len(file.index) |-> file.index[i].ofs]
<1> PICK b, n, len : b = file.index /\ n = Len(b) /\ len = file.indexLen
  OBVIOUS
<1>1. n \in Nat \ {0} /\ DOMAIN b = 1..n
  BY DEF FileOK, SectionsOK
<1>2. \A i \in 1..n : /\ SectionAt(b, b[i].ofs) = b[i] /\ b[i].ofs \in Nat /\ len \in Nat
                      /\ b[i].ofs + SectionLen(b[i]) <= len
  BY SectionFound
<1>3. \A i \in 1..n : /\ SectionLen(b[i]) \in Nat \ {0}
                      /\ KeyLen(b[i].key) \in Nat /\ Len(b[i].entries) \in Nat \ {0}
  BY LenFacts DEF FileOK
<1> DEFINE next(o, s) == o + 3 + KeyLen(s.key) + 2 + (Len(s.entries) - 1) * EntrySize + EntrySize
           body(p) == LET s == SectionAt(b, p.i) IN
                      IF p.i >= len \/ s = Garbage \/ next(p.i, s) > len THEN p
                      ELSE [i |-> next(p.i, s), offsets |-> Append(p.offsets, p.i)]
           base == [i |-> 0, offsets |-> <<>>]
           Def(f) == f = [m \in 0..n |-> IF m = 0 THEN base ELSE body(f[m - 1])]
           f == CHOOSE x : Def(x)
           pos(m) == IF m = n THEN len ELSE b[m + 1].ofs
           offs(m) == [i \in 1..m |-> b[i].ofs]
           g == [m \in 0..n |-> [i |-> pos(m), offsets |-> offs(m)]]
<1>4. Walk(b, len) = f[n]
  BY DEF Walk
<1>5. pos(0) = 0 /\ \A m \in 1..n : pos(m) = b[m].ofs + SectionLen(b[m]) /\ pos(m - 1) = b[m].ofs
  <2>1. pos(0) = 0
    BY <1>1 DEF FileOK
  <2>2. \A m \in 1..n : pos(m) = b[m].ofs + SectionLen(b[m])
    BY DEF FileOK
  <2>3. \A m \in 1..n : m - 1 # n /\ (m - 1) + 1 = m
    BY <1>1
  <2> QED  BY <2>1, <2>2, <2>3
<1>6. \A m \in 0..n : g[m].i = pos(m) /\ g[m].offsets = offs(m) /\ g[m] = [i |-> pos(m), offsets |-> offs(m)]
  OBVIOUS
<1>7. g = [m \in 0..n |-> g[m]]
  OBVIOUS
<1> HIDE DEF g, pos
<1>8. ASSUME NEW m \in 1..n PROVE body(g[m - 1]) = g[m]
  <2> PICK p, o, s : p = g[m - 1] /\ o = b[m].ofs /\ s = b[m]
    OBVIOUS
  <2>1. m - 1 \in 0..n /\ m \in 0..n
    BY <1>1
  <2>2. p.i = o /\ p.offsets = offs(m - 1)
    BY <1>5, <1>6, <2>1
  <2>3. SectionAt(b, o) = s /\ o \in Nat /\ len \in Nat /\ o + SectionLen(s) <= len
    BY <1>2
  <2>4. SectionLen(s) \in Nat \ {0} /\ KeyLen(s.key) \in Nat /\ Len(s.entries) \in Nat \ {0}
    BY <1>3
  <2>5. next(o, s) = o + SectionLen(s) /\ next(o, s) = pos(m)
    <3>1. PICK k, l : k = KeyLen(s.key) /\ l = Len(s.entries)
      OBVIOUS
    <3>2. next(o, s) = o + 3 + k + 2 + (l - 1) * 28 + 28 /\ SectionLen(s) = 2 + k + 3 + 28 * l
      BY <3>1 DEF SectionLen, EntrySize
    <3>3. o \in Int /\ k \in Int /\ l \in Int
      BY <2>3, <2>4, <3>1
    <3> HIDE DEF next
    <3>5. o + 3 + k + 2 + (l - 1) * 28 + 28 = o + (2 + k + 3 + 28 * l)
      BY <3>3, StepLength, SMTT(30)
    <3>4. next(o, s) = o + SectionLen(s)
      BY <3>2, <3>5, Zenon
    <3> QED  BY <1>5, <3>4
  <2>6. s # Garbage
    <3>1. s.ofs = o
      OBVIOUS
    <3>2. Garbage.ofs = -1
      BY DEF Garbage
    <3> QED  BY <2>3, <3>1, <3>2
  <2>7. ~(o >= len) /\ ~(next(o, s) > len)
    <3> HIDE DEF next
    <3>1. PICK l : l = SectionLen(s)
      OBVIOUS
    <3>2. o \in Nat /\ len \in Nat /\ l \in Nat \ {0} /\ o + l <= len /\ next(o, s) = o + l
      BY <2>3, <2>4, <2>5, <3>1
    <3> QED  BY <3>2
  <2>8. Append(offs(m - 1), o) = offs(m)
    <3>1. \A i \in 1..m : b[i].ofs \in Nat
      BY <1>1, <1>2
    <3>2. offs(m - 1) \in Seq(Nat) /\ Len(offs(m - 1)) = m - 1 /\ offs(m) \in Seq(Nat) /\ Len(offs(m)) = m
      BY <1>1, <3>1
    <3>3. Append(offs(m - 1), o) \in Seq(Nat) /\ Len(Append(offs(m - 1), o)) = m
      BY <2>3, <3>2
    <3>4. \A i \in 1..m : Append(offs(m - 1), o)[i] = offs(m)[i]
      BY <1>1, <2>3, <3>1, <3>2
    <3> HIDE DEF offs
    <3> QED  BY <3>2, <3>3, <3>4, SeqEqual
  <2> HIDE DEF next, offs
  <2>9. body(p) = [i |-> pos(m), offsets |-> offs(m)]
    BY <2>2, <2>3, <2>5, <2>6, <2>7, <2>8
  <2> QED  BY <1>6, <2>1, <2>9
<1>9. g[0] = base
  <2>1. offs(0) = <<>> /\ 0 \in 0..n
    BY <1>1
  <2> QED  BY <1>5, <1>6, <2>1
<1> HIDE DEF body, base, offs
<1>10. Def(g)
  <2>1. \A m \in 0..n : g[m] = IF m = 0 THEN base ELSE body(g[m - 1])
    <3>1. \A m \in 0..n : m = 0 \/ m \in 1..n
      BY <1>1
    <3> QED  BY <1>8, <1>9, <3>1
  <2> QED  BY <1>7, <2>1
<1>11. Def(f)
  <2> HIDE DEF Def
  <2> QED  BY <1>10
<1> HIDE DEF f
<1>12. f[0] = base /\ \A m \in 1..n : f[m] = body(f[m - 1])
  <2>1. \A m \in 0..n : f[m] = (IF m = 0 THEN base ELSE body(f[m - 1]))
    BY <1>11
  <2> QED  BY <1>1, <2>1
<1> DEFINE S == {m \in 0..n : f[m] = g[m]}
<1>13. 0 \in S
  BY <1>1, <1>9, <1>12
<1>14. ASSUME NEW m \in 0..n, m \in S, m < n PROVE m + 1 \in S
  <2>1. m + 1 \in 1..n /\ m + 1 \in 0..n /\ (m + 1) - 1 = m
    BY <1>1, <1>14
  <2> QED  BY <1>8, <1>12, <1>14, <2>1
<1>15. n \in S
  <2> HIDE DEF S
  <2>1. \A m \in 0..n : m \in S
    BY <1>1, <1>13, <1>14, SetInduction
  <2> QED  BY <1>1, <2>1
<1>16. f[n].offsets = offs(n)
  <2>1. n \in 0..n
    BY <1>1
  <2> QED  BY <1>6, <1>15, <2>1
<1> QED  BY <1>4, <1>16 DEF offs

(* The least of a set of numbers with a bound. *)
LEMMA MinFacts ==
  ASSUME NEW S \in SUBSET Int, S # {}, NEW c \in Int, \A x \in S : c <= x
  PROVE  Min(S) \in S /\ \A y \in S : Min(S) <= y
<1> DEFINE M == {x - c : x \in S}
<1>1. M \in SUBSET Nat /\ M # {}
  <2>1. \A x \in S : x \in Int /\ x - c \in Nat
    OBVIOUS
  <2>2. \A m \in M : m \in Nat
    BY <2>1
  <2>3. M # {}
    OBVIOUS
  <2> HIDE DEF M
  <2> QED  BY <2>2, <2>3
<1>2. PICK m \in M : \A k \in M : m <= k
  <2> HIDE DEF M
  <2> QED  BY <1>1, NatLeast
<1>3. PICK x \in S : m = x - c
  BY <1>2
<1>4. \A y \in S : x <= y
  <2> SUFFICES ASSUME NEW y \in S PROVE x <= y
    OBVIOUS
  <2>1. y - c \in M
    OBVIOUS
  <2>2. m <= y - c /\ x \in Int /\ y \in Int
    BY <1>2, <2>1
  <2> HIDE DEF M
  <2> QED  BY <1>3, <2>2
<1> QED  BY <1>4 DEF Min

(* The greatest. *)
LEMMA MaxFacts ==
  ASSUME NEW S \in SUBSET Int, S # {}, NEW c \in Int, \A x \in S : x <= c
  PROVE  Max(S) \in S /\ \A y \in S : y <= Max(S)
<1> DEFINE M == {c - x : x \in S}
<1>1. M \in SUBSET Nat /\ M # {}
  <2>1. \A x \in S : x \in Int /\ c - x \in Nat
    OBVIOUS
  <2>2. \A m \in M : m \in Nat
    BY <2>1
  <2>3. M # {}
    OBVIOUS
  <2> HIDE DEF M
  <2> QED  BY <2>2, <2>3
<1>2. PICK m \in M : \A k \in M : m <= k
  <2> HIDE DEF M
  <2> QED  BY <1>1, NatLeast
<1>3. PICK x \in S : m = c - x
  BY <1>2
<1>4. \A y \in S : x >= y
  <2> SUFFICES ASSUME NEW y \in S PROVE x >= y
    OBVIOUS
  <2>1. c - y \in M
    OBVIOUS
  <2>2. m <= c - y /\ x \in Int /\ y \in Int
    BY <1>2, <2>1
  <2> HIDE DEF M
  <2> QED  BY <1>3, <2>2
<1>5. Max(S) \in S /\ \A y \in S : Max(S) >= y
  BY <1>4 DEF Max
<1> QED  BY <1>5

(* The numbers of the entries of a key. *)
LEMMA EntryFacts ==
  ASSUME NEW es, NEW blocks, EntriesOK(es, blocks), NEW n, BlocksOK(blocks, n)
  PROVE  /\ Len(es) \in Nat \ {0} /\ DOMAIN es = 1..Len(es)
         /\ \A i \in 1..Len(es) : /\ es[i] \in FileEntry /\ es[i].min \in Int64 /\ es[i].max \in Int64
                                  /\ es[i].min \in Int /\ es[i].max \in Int
                                  /\ es[i].min <= es[i].max
         /\ \A i, j \in 1..Len(es) : i < j => es[i].max < es[j].min
         /\ \A i, j \in 1..Len(es) : i <= j => es[i].min <= es[j].min /\ es[i].max <= es[j].max
<1>1. Len(es) \in Nat \ {0} /\ DOMAIN es = 1..Len(es) /\ \A i \in 1..Len(es) : es[i] \in FileEntry
  BY DEF EntriesOK
<1>2. \A e \in FileEntry : e.min \in Int64 /\ e.max \in Int64
  BY DEF FileEntry
<1>3. \A x \in Int64 : x \in Int
  BY TimeAssumption DEF Int64
<1>4. ASSUME NEW i \in 1..Len(es) PROVE es[i].min <= es[i].max
  <2>1. PICK b \in 1..Len(blocks) : EntryOf(es[i], blocks, b)
    BY DEF EntriesOK
  <2>2. blocks[b].points \in InputBlocks
    <3>1. blocks[b] \in FileBlock
      BY DEF BlocksOK
    <3> QED  BY <3>1 DEF FileBlock
  <2> QED  BY <2>1, <2>2, BlockFacts DEF EntryOf
<1>5. \A i, j \in 1..Len(es) : i < j => es[i].max < es[j].min
  BY DEF EntriesOK
<1>6. \A i \in 1..Len(es) : es[i].min \in Int /\ es[i].max \in Int /\ es[i].min <= es[i].max
  BY <1>1, <1>2, <1>3, <1>4
<1>7. ASSUME NEW i \in 1..Len(es), NEW j \in 1..Len(es), i <= j
      PROVE  es[i].min <= es[j].min /\ es[i].max <= es[j].max
  <2>1. i = j \/ i < j
    BY <1>1, <1>7
  <2>2. CASE i = j
    BY <1>6, <2>2
  <2>3. CASE i < j
    BY <1>5, <1>6, <2>3
  <2> QED  BY <2>1, <2>2, <2>3
<1> QED  BY <1>1, <1>2, <1>5, <1>6, <1>7

(* An index as NewSSTReader finds it. *)
Opened(file, d) ==
    /\ IndexOK(d) /\ d.b = file.index
    /\ Len(d.offsets) = Len(file.index)
    /\ \A i \in 1..Len(file.index) : Section(d, i) = file.index[i]
    /\ \A k : TombstoneRange(d, k) = <<>>

(* The times of a file are between those its index keeps. *)
LEMMA TimesOfFile ==
  ASSUME NEW file, FileOK(file)
  PROVE  LET d == UnmarshalBinary(file) IN
         /\ d.minTime \in Int /\ d.maxTime \in Int
         /\ \A i \in 1..Len(file.index) :
               /\ d.minTime <= file.index[i].entries[1].min
               /\ file.index[i].entries[Len(file.index[i].entries)].max <= d.maxTime
<1> PICK b, n, d : b = file.index /\ n = Len(b) /\ d = UnmarshalBinary(file)
  OBVIOUS
<1>1. n \in Nat \ {0} /\ DOMAIN b = 1..n
  BY DEF FileOK, SectionsOK
<1> DEFINE lows == {MaxInt64} \cup {b[i].entries[1].min : i \in DOMAIN b}
           highs == {0} \cup {b[i].entries[Len(b[i].entries)].max : i \in DOMAIN b}
<1>2. d.minTime = Min(lows) /\ d.maxTime = Max(highs)
  BY DEF UnmarshalBinary
<1>3. \A i \in 1..n : /\ b[i].entries[1].min \in Int64
                      /\ b[i].entries[Len(b[i].entries)].max \in Int64
  <2> SUFFICES ASSUME NEW i \in 1..n
               PROVE  b[i].entries[1].min \in Int64 /\ b[i].entries[Len(b[i].entries)].max \in Int64
    OBVIOUS
  <2>1. EntriesOK(b[i].entries, file.blocks)
    BY DEF FileOK, SectionsOK
  <2>2. PICK x : BlocksOK(file.blocks, x)
    BY DEF FileOK
  <2>3. PICK es, l : es = b[i].entries /\ l = Len(es)
    OBVIOUS
  <2>4. l \in Nat \ {0} /\ \A j \in 1..l : es[j].min \in Int64 /\ es[j].max \in Int64
    BY <2>1, <2>2, <2>3, EntryFacts
  <2>5. 1 \in 1..l /\ l \in 1..l
    BY <2>4
  <2> QED  BY <2>3, <2>4, <2>5
<1>4. \A x \in Int64 : x \in Int /\ MinInt64 <= x /\ x <= MaxInt64
  BY TimeAssumption DEF Int64
<1>5. \A x \in lows : x \in Int /\ MinInt64 <= x
  BY <1>1, <1>3, <1>4, TimeAssumption
<1>6. PICK c \in Int : 0 <= c /\ MaxInt64 <= c
  <2>1. (0 <= MaxInt64 /\ MaxInt64 <= MaxInt64) \/ (0 <= 0 /\ MaxInt64 <= 0)
    BY TimeAssumption
  <2> QED  BY <2>1, TimeAssumption
<1>7. \A x \in highs : x \in Int /\ x <= c
  BY <1>1, <1>3, <1>4, <1>6, TimeAssumption
<1>8. /\ lows # {} /\ highs # {}
      /\ \A i \in 1..n : b[i].entries[1].min \in lows /\ b[i].entries[Len(b[i].entries)].max \in highs
  BY <1>1
<1> HIDE DEF lows, highs
<1>9. Min(lows) \in lows /\ \A y \in lows : Min(lows) <= y
  BY <1>5, <1>8, TimeAssumption, MinFacts
<1>10. Max(highs) \in highs /\ \A y \in highs : y <= Max(highs)
  BY <1>6, <1>7, <1>8, MaxFacts
<1>11. /\ d.minTime \in Int /\ d.maxTime \in Int
       /\ \A i \in 1..n : d.minTime <= b[i].entries[1].min /\ b[i].entries[Len(b[i].entries)].max <= d.maxTime
  BY <1>2, <1>5, <1>7, <1>8, <1>9, <1>10
<1> QED  BY <1>11, Zenon

(* indirectIndex.UnmarshalBinary makes an index of all keys of a file. *)
LEMMA UnmarshalOK ==
  ASSUME NEW file, FileOK(file)
  PROVE  Opened(file, UnmarshalBinary(file))
<1> PICK b, n, d : b = file.index /\ n = Len(b) /\ d = UnmarshalBinary(file)
  OBVIOUS
<1>1. n \in Nat \ {0} /\ DOMAIN b = 1..n /\ 1 \in 1..n /\ n \in 1..n
  <2>1. n \in Nat \ {0} /\ DOMAIN b = 1..n
    BY DEF FileOK, SectionsOK
  <2> QED  BY <2>1
<1> DEFINE os == Walk(file.index, file.indexLen).offsets
<1>2. /\ d.b = b /\ d.offsets = os /\ d.minKey = SectionAt(b, os[1]).key
      /\ d.maxKey = SectionAt(b, os[Len(os)]).key /\ d.tombs = [k \in {} |-> <<>>]
      /\ d = [b |-> d.b, offsets |-> d.offsets, minKey |-> d.minKey, maxKey |-> d.maxKey,
              minTime |-> d.minTime, maxTime |-> d.maxTime, tombs |-> d.tombs]
  BY DEF UnmarshalBinary
<1>3. os = [i \in 1..n |-> b[i].ofs]
  BY WalkAll
<1>4. \A i \in 1..n : SectionAt(b, b[i].ofs) = b[i] /\ b[i].ofs \in Nat
  BY SectionFound
<1> HIDE DEF os
<1>5. os \in Seq(Int) /\ Len(os) = n /\ \A i \in 1..n : os[i] = b[i].ofs
  <2>1. \A i \in 1..n : b[i].ofs \in Int
    BY <1>4
  <2> QED  BY <1>1, <1>3, <2>1
<1>6. Len(d.offsets) = n /\ d.offsets \in Seq(Int) /\ \A i \in 1..n : Section(d, i) = b[i]
  BY <1>2, <1>4, <1>5 DEF Section
<1>7. d.minKey = b[1].key /\ d.maxKey = b[n].key
  BY <1>1, <1>2, <1>4, <1>5
<1>8. /\ \A i \in 1..n : b[i].key \in Nat /\ EntriesOK(b[i].entries, file.blocks)
      /\ \A i, j \in 1..n : i < j => b[i].key < b[j].key
  BY DEF FileOK, SectionsOK
<1>9. PICK x : BlocksOK(file.blocks, x)
  BY DEF FileOK
<1>10. /\ d.minTime \in Int /\ d.maxTime \in Int
       /\ \A i \in 1..n : /\ d.minTime <= b[i].entries[1].min
                         /\ b[i].entries[Len(b[i].entries)].max <= d.maxTime
  BY TimesOfFile
<1>11. ASSUME NEW i \in 1..n PROVE SectionOK(d, b[i])
  <2>1. b[i].key \in Int /\ d.minKey <= b[i].key /\ b[i].key <= d.maxKey
    <3>1. b[i].key \in Int /\ b[1].key \in Int /\ b[n].key \in Int
      BY <1>1, <1>8
    <3>2. (i = 1 \/ b[1].key < b[i].key) /\ (i = n \/ b[i].key < b[n].key)
      BY <1>1, <1>8
    <3> QED  BY <1>7, <3>1, <3>2
  <2>2. PICK es, l : es = b[i].entries /\ l = Len(es)
    OBVIOUS
  <2>3. /\ l \in Nat \ {0} /\ DOMAIN es = 1..l
        /\ \A j \in 1..l : es[j].min \in Int64 /\ es[j].max \in Int64
        /\ \A p, q \in 1..l : p <= q => es[p].min <= es[q].min /\ es[p].max <= es[q].max
    <3>1. EntriesOK(es, file.blocks)
      BY <1>8, <2>2
    <3> QED  BY <1>9, <2>2, <3>1, EntryFacts, SMTT(30)
  <2>4. \A j \in 1..l : es[1].min <= es[j].min /\ es[j].max <= es[l].max
    <3>1. \A j \in 1..l : 1 \in 1..l /\ l \in 1..l /\ 1 <= j /\ j <= l
      BY <2>3
    <3> QED  BY <2>3, <3>1, Zenon
  <2> QED  BY <1>10, <2>1, <2>2, <2>3, <2>4 DEF SectionOK
<1>12. TombstonesSorted(d)
  BY <1>2 DEF TombstonesSorted
<1>13. \A k : TombstoneRange(d, k) = <<>>
  BY <1>2 DEF TombstoneRange
<1>14. d.minKey \in Int /\ d.maxKey \in Int
  BY <1>1, <1>7, <1>8
<1>15. IndexOK(d)
  <2>1. \A i \in 1..Len(d.offsets) : SectionOK(d, Section(d, i))
    BY <1>6, <1>11
  <2>2. \A i, j \in 1..Len(d.offsets) : i < j => Section(d, i).key < Section(d, j).key
    BY <1>6, <1>8
  <2> QED  BY <1>2, <1>6, <1>10, <1>12, <1>14, <2>1, <2>2, Zenon DEF IndexOK
<1> QED  BY <1>1, <1>2, <1>6, <1>13, <1>15 DEF Opened

(* It may hold all that the file has. *)
LEMMA OpenedHolds ==
  ASSUME NEW file, FileOK(file), NEW d, Opened(file, d), NEW k, NEW t
  PROVE  MayHold(d, k, t) <=> InFile(file, k, t)
<1>1. DOMAIN file.index = 1..Len(file.index)
  BY DEF FileOK, SectionsOK
<1>2. ~Deleted(TombstoneRange(d, k), t)
  BY DEF Opened, Deleted
<1>3. Len(d.offsets) = Len(file.index) /\ \A i \in 1..Len(file.index) : Section(d, i) = file.index[i]
  BY DEF Opened
<1>4. Indexed(d, k, t) <=> InFile(file, k, t)
  BY <1>1, <1>3 DEF Indexed, InFile
<1> QED  BY <1>2, <1>4 DEF MayHold-----------------------------------------------------------------------------
(* Tombstones in batches *)

(* The fields of a range and of a batch. *)
LEMMA RangeFacts ==
  ASSUME NEW a \in Range64
  PROVE  a = [key |-> a.key, min |-> a.min, max |-> a.max] /\ a.key \in Nat /\ a.min \in Int64 /\ a.max \in Int64
  BY DEF Range64

LEMMA BatchFields ==
  ASSUME NEW b \in Batch
  PROVE  b.keys \in SUBSET Nat /\ b.min \in Int64 /\ b.max \in Int64
  BY DEF Batch

(* Tombstoner.applyTombstones: what one more entry does to the batch being collected. *)
Collect(acc, e) ==
    LET changed == acc.keys # {} /\ (acc.prev.min # e.min \/ acc.prev.max # e.max)
        flushed == [keys |-> acc.keys, min |-> acc.prev.min, max |-> acc.prev.max]
        out == IF changed THEN Append(acc.out, flushed) ELSE acc.out
        keys == IF changed THEN {e.key} ELSE acc.keys \cup {e.key}
    IN  IF Cardinality(keys) >= BatchSize
        THEN [keys |-> {}, prev |-> e,
              out |-> Append(out, [keys |-> keys, min |-> acc.prev.min,
                                   max |-> acc.prev.max])]
        ELSE [keys |-> keys, prev |-> e, out |-> out]

Collected0 == [keys |-> {}, prev |-> [key |-> NoKey, min |-> 0, max |-> 0], out |-> <<>>]

(* An entry is in one of the batches. *)
InBatch(e, bs) == \E i \in 1..Len(bs) : e.key \in bs[i].keys /\ bs[i].min = e.min /\ bs[i].max = e.max

(* The batches so far, and the one being collected, after n entries of es. *)
Collected(acc, es, n) ==
    /\ acc.keys \in SUBSET Nat /\ BatchesOK(acc.out, Range(es))
    /\ acc.keys # {} => /\ acc.prev \in Range64
                        /\ \A k \in acc.keys : [key |-> k, min |-> acc.prev.min, max |-> acc.prev.max] \in Range(es)
    /\ \A m \in 1..n : InBatch(es[m], acc.out) \/ (es[m].key \in acc.keys /\ acc.prev.min = es[m].min /\ acc.prev.max = es[m].max)

(* One more batch. *)
LEMMA BatchAppend ==
  ASSUME NEW bs, NEW R, BatchesOK(bs, R), NEW b \in Batch,
         \A k \in b.keys : [key |-> k, min |-> b.min, max |-> b.max] \in R
  PROVE  /\ BatchesOK(Append(bs, b), R)
         /\ \A e : InBatch(e, Append(bs, b)) <=> InBatch(e, bs) \/ (e.key \in b.keys /\ b.min = e.min /\ b.max = e.max)
<1> PICK new : new = Append(bs, b)
  OBVIOUS
<1>2. bs \in Seq(Batch) /\ Len(bs) \in Nat
  BY DEF BatchesOK
<1>3. /\ new \in Seq(Batch) /\ Len(new) = Len(bs) + 1 /\ new[Len(bs) + 1] = b
      /\ \A i \in 1..Len(bs) : new[i] = bs[i]
  BY <1>2
<1>4. \A i : i \in 1..Len(new) <=> i \in 1..Len(bs) \/ i = Len(bs) + 1
  BY <1>2, <1>3
<1>5. BatchesOK(new, R)
  <2> SUFFICES ASSUME NEW i \in 1..Len(new), NEW k \in new[i].keys
               PROVE  [key |-> k, min |-> new[i].min, max |-> new[i].max] \in R
    BY <1>3 DEF BatchesOK
  <2>1. CASE i \in 1..Len(bs)
    BY <1>3, <2>1 DEF BatchesOK
  <2>2. CASE i = Len(bs) + 1
    BY <1>3, <2>2
  <2> QED  BY <1>4, <2>1, <2>2
<1>6. \A e : InBatch(e, new) <=> InBatch(e, bs) \/ (e.key \in b.keys /\ b.min = e.min /\ b.max = e.max)
  BY <1>3, <1>4 DEF InBatch
<1> QED  BY <1>5, <1>6

(* One more entry is collected. *)
LEMMA CollectOne ==
  ASSUME NEW es \in Seq(Range64), NEW n \in Nat, n < Len(es), NEW acc, Collected(acc, es, n)
  PROVE  Collected(Collect(acc, es[n + 1]), es, n + 1)
<1> PICK e, R : e = es[n + 1] /\ R = Range(es)
  OBVIOUS
<1> DEFINE changed == acc.keys # {} /\ (acc.prev.min # e.min \/ acc.prev.max # e.max)
           more == acc.keys \cup {e.key}
<1>1. n + 1 \in 1..Len(es) /\ e \in Range64 /\ e \in R /\ \A m \in 1..(n + 1) : m \in 1..n \/ m = n + 1
  <2>1. n + 1 \in 1..Len(es) /\ \A m \in 1..(n + 1) : m \in 1..n \/ m = n + 1
    OBVIOUS
  <2>2. e \in Range64 /\ e \in R
    BY <2>1 DEF Range
  <2> QED  BY <2>1, <2>2
<1>2. e = [key |-> e.key, min |-> e.min, max |-> e.max] /\ e.key \in Nat /\ e.min \in Int64 /\ e.max \in Int64
  BY <1>1, RangeFacts
<1>3. /\ acc.keys \in SUBSET Nat /\ BatchesOK(acc.out, R)
      /\ acc.keys # {} => /\ acc.prev \in Range64
                          /\ \A k \in acc.keys : [key |-> k, min |-> acc.prev.min, max |-> acc.prev.max] \in R
      /\ \A m \in 1..n : InBatch(es[m], acc.out) \/ (es[m].key \in acc.keys /\ acc.prev.min = es[m].min /\ acc.prev.max = es[m].max)
  BY DEF Collected
<1>4. ~(Cardinality({e.key}) >= BatchSize)
  <2>1. Cardinality({e.key}) = 1
    BY FS_Singleton
  <2> QED  BY <2>1, SSTAssumption
<1>5. CASE changed
  <2> PICK out : out = Append(acc.out, [keys |-> acc.keys, min |-> acc.prev.min, max |-> acc.prev.max])
    OBVIOUS
  <2>1. Collect(acc, e) = [keys |-> {e.key}, prev |-> e, out |-> out]
    BY <1>4, <1>5 DEF Collect
  <2>2. acc.prev \in Range64 /\ acc.prev.min \in Int64 /\ acc.prev.max \in Int64
    BY <1>3, <1>5, RangeFacts
  <2>3. /\ BatchesOK(out, R)
        /\ \A x : InBatch(x, out) <=> InBatch(x, acc.out) \/ (x.key \in acc.keys /\ acc.prev.min = x.min /\ acc.prev.max = x.max)
    <3>1. PICK b : b = [keys |-> acc.keys, min |-> acc.prev.min, max |-> acc.prev.max]
      OBVIOUS
    <3>2. b \in Batch /\ b.keys = acc.keys /\ b.min = acc.prev.min /\ b.max = acc.prev.max
      BY <1>3, <2>2, <3>1 DEF Batch
    <3>3. out = Append(acc.out, b)
      BY <3>1
    <3>4. \A k \in b.keys : [key |-> k, min |-> b.min, max |-> b.max] \in R
      BY <1>3, <1>5, <3>2
    <3> QED  BY <1>3, <3>2, <3>3, <3>4, BatchAppend
  <2>4. \A m \in 1..(n + 1) : InBatch(es[m], out) \/ (es[m].key \in {e.key} /\ e.min = es[m].min /\ e.max = es[m].max)
    BY <1>1, <1>3, <2>3
  <2>5. \A k \in {e.key} : [key |-> k, min |-> e.min, max |-> e.max] \in R
    BY <1>1, <1>2
  <2>6. {e.key} \in SUBSET Nat
    BY <1>2
  <2> QED  BY <1>1, <2>1, <2>3, <2>4, <2>5, <2>6 DEF Collected
<1>6. CASE ~changed /\ ~(Cardinality(more) >= BatchSize)
  <2>1. Collect(acc, e) = [keys |-> more, prev |-> e, out |-> acc.out]
    BY <1>6 DEF Collect
  <2>2. more \in SUBSET Nat
    BY <1>2, <1>3
  <2>3. \A k \in more : [key |-> k, min |-> e.min, max |-> e.max] \in R
    BY <1>1, <1>2, <1>3, <1>6
  <2>4. \A m \in 1..(n + 1) : InBatch(es[m], acc.out) \/ (es[m].key \in more /\ e.min = es[m].min /\ e.max = es[m].max)
    <3> SUFFICES ASSUME NEW m \in 1..n, ~InBatch(es[m], acc.out)
                 PROVE  es[m].key \in more /\ e.min = es[m].min /\ e.max = es[m].max
      BY <1>1
    <3>1. es[m].key \in acc.keys /\ acc.prev.min = es[m].min /\ acc.prev.max = es[m].max
      BY <1>3
    <3>2. acc.prev.min = e.min /\ acc.prev.max = e.max
      BY <1>6, <3>1
    <3> QED  BY <3>1, <3>2
  <2> HIDE DEF more, changed
  <2> QED  BY <1>1, <1>3, <2>1, <2>2, <2>3, <2>4 DEF Collected
<1>7. CASE ~changed /\ Cardinality(more) >= BatchSize
  <2> PICK out : out = Append(acc.out, [keys |-> more, min |-> acc.prev.min, max |-> acc.prev.max])
    OBVIOUS
  <2>1. Collect(acc, e) = [keys |-> {}, prev |-> e, out |-> out]
    BY <1>7 DEF Collect
  <2>2. acc.keys # {}
    <3> SUFFICES ASSUME acc.keys = {} PROVE FALSE
      OBVIOUS
    <3>1. more = {e.key}
      OBVIOUS
    <3> QED  BY <1>4, <1>7, <3>1
  <2>3. acc.prev.min = e.min /\ acc.prev.max = e.max
    BY <1>7, <2>2
  <2>4. more \in SUBSET Nat /\ \A k \in more : [key |-> k, min |-> acc.prev.min, max |-> acc.prev.max] \in R
    BY <1>1, <1>2, <1>3, <2>2, <2>3
  <2>5. e.key \in more /\ acc.keys \subseteq more
    OBVIOUS
  <2> HIDE DEF more, changed
  <2>6. /\ BatchesOK(out, R)
        /\ \A x : InBatch(x, out) <=> InBatch(x, acc.out) \/ (x.key \in more /\ acc.prev.min = x.min /\ acc.prev.max = x.max)
    <3>1. PICK b : b = [keys |-> more, min |-> acc.prev.min, max |-> acc.prev.max]
      OBVIOUS
    <3>2. b \in Batch /\ b.keys = more /\ b.min = acc.prev.min /\ b.max = acc.prev.max
      BY <1>2, <2>3, <2>4, <3>1 DEF Batch
    <3>3. out = Append(acc.out, b)
      BY <3>1
    <3>4. \A k \in b.keys : [key |-> k, min |-> b.min, max |-> b.max] \in R
      BY <2>4, <3>2
    <3> QED  BY <1>3, <3>2, <3>3, <3>4, BatchAppend
  <2>7. \A m \in 1..(n + 1) : InBatch(es[m], out)
    BY <1>1, <1>3, <2>3, <2>5, <2>6
  <2> QED  BY <2>1, <2>6, <2>7 DEF Collected
<1> QED  BY <1>5, <1>6, <1>7

(* Tombstoner.applyTombstones applies every entry of the file with its own range, and no
   other, though a full batch is applied with the range of the entry before the last. *)
LEMMA BatchFacts ==
  ASSUME NEW es \in Seq(Range64)
  PROVE  BatchesOK(Batches(es), Range(es)) /\ \A m \in 1..Len(es) : InBatch(es[m], Batches(es))
<1> DEFINE n == Len(es)
           Def(f) == f = [m \in 0..n |-> IF m = 0 THEN Collected0 ELSE Collect(f[m - 1], es[m])]
           f == CHOOSE x : Def(x)
           Upton(g, m) == g = [i \in 0..m |-> IF i = 0 THEN Collected0 ELSE Collect(g[i - 1], es[i])]
           S == {m \in 0..n : \E g : Upton(g, m)}
<1>1. n \in Nat
  OBVIOUS
<1>2. Batches(es) = IF f[n].keys = {} THEN f[n].out
                    ELSE Append(f[n].out, [keys |-> f[n].keys, min |-> f[n].prev.min, max |-> f[n].prev.max])
  BY DEF Batches, Collect, Collected0
<1> HIDE DEF n
<1>3. 0 \in S
  <2> DEFINE g == [i \in 0..0 |-> Collected0]
  <2>1. Upton(g, 0)
    OBVIOUS
  <2> HIDE DEF Upton, g
  <2> QED  BY <1>1, <2>1
<1>4. ASSUME NEW m \in 0..n, m \in S, m < n PROVE m + 1 \in S
  <2>1. PICK g : Upton(g, m)
    BY <1>4
  <2> DEFINE h == [i \in 0..(m + 1) |-> IF i = m + 1 THEN Collect(g[m], es[m + 1]) ELSE g[i]]
  <2>2. \A i \in 0..m : g[i] = IF i = 0 THEN Collected0 ELSE Collect(g[i - 1], es[i])
    BY <2>1
  <2>3. \A i \in 0..(m + 1) : h[i] = IF i = 0 THEN Collected0 ELSE Collect(h[i - 1], es[i])
    <3>1. \A i \in 0..m : i # m + 1 /\ i \in 0..(m + 1) /\ h[i] = g[i]
      OBVIOUS
    <3>2. h[m + 1] = Collect(h[m], es[m + 1])
      BY <3>1
    <3>3. \A i \in 0..(m + 1) : i \in 0..m \/ i = m + 1
      OBVIOUS
    <3>4. \A i \in 0..m : i # 0 => i - 1 \in 0..m
      OBVIOUS
    <3> HIDE DEF h
    <3> QED  BY <2>2, <3>1, <3>2, <3>3, <3>4
  <2>4. h = [i \in 0..(m + 1) |-> h[i]]
    OBVIOUS
  <2> HIDE DEF h
  <2>5. Upton(h, m + 1)
    BY <2>3, <2>4
  <2>6. m + 1 \in 0..n
    BY <1>1, <1>4
  <2> HIDE DEF Upton
  <2> QED  BY <2>5, <2>6
<1>5. n \in S
  <2> HIDE DEF S
  <2>1. \A m \in 0..n : m \in S
    BY <1>1, <1>3, <1>4, SetInduction
  <2> QED  BY <1>1, <2>1
<1>6. Def(f)
  <2>1. PICK g : Upton(g, n)
    BY <1>5
  <2>2. Def(g)
    BY <2>1
  <2> HIDE DEF Def
  <2> QED  BY <2>2
<1> HIDE DEF f
<1>7. f[0] = Collected0 /\ \A m \in 1..n : f[m] = Collect(f[m - 1], es[m])
  <2>1. \A m \in 0..n : f[m] = (IF m = 0 THEN Collected0 ELSE Collect(f[m - 1], es[m]))
    BY <1>6
  <2> QED  BY <1>1, <2>1
<1> DEFINE C == {m \in 0..n : Collected(f[m], es, m)}
<1>8. 0 \in C
  <2>1. f[0].keys = {} /\ f[0].out = <<>>
    BY <1>7 DEF Collected0
  <2>2. BatchesOK(<<>>, Range(es))
    BY DEF BatchesOK
  <2>3. Collected(f[0], es, 0)
    BY <2>1, <2>2 DEF Collected
  <2> QED  BY <1>1, <2>3
<1>9. ASSUME NEW m \in 0..n, m \in C, m < n PROVE m + 1 \in C
  <2>1. m + 1 \in 1..n /\ m + 1 \in 0..n /\ (m + 1) - 1 = m /\ m \in Nat /\ m < Len(es)
    BY <1>1, <1>9 DEF n
  <2>2. Collected(Collect(f[m], es[m + 1]), es, m + 1)
    BY <1>9, <2>1, CollectOne
  <2> QED  BY <1>7, <2>1, <2>2
<1>10. Collected(f[n], es, n)
  <2> HIDE DEF C
  <2>1. \A m \in 0..n : m \in C
    BY <1>1, <1>8, <1>9, SetInduction
  <2> QED  BY <1>1, <2>1 DEF C
<1> PICK acc : acc = f[n]
  OBVIOUS
<1>11. /\ acc.keys \in SUBSET Nat /\ BatchesOK(acc.out, Range(es))
       /\ acc.keys # {} => /\ acc.prev \in Range64
                           /\ \A k \in acc.keys : [key |-> k, min |-> acc.prev.min, max |-> acc.prev.max] \in Range(es)
       /\ \A m \in 1..n : InBatch(es[m], acc.out) \/ (es[m].key \in acc.keys /\ acc.prev.min = es[m].min /\ acc.prev.max = es[m].max)
  BY <1>10 DEF Collected
<1>12. CASE acc.keys = {}
  <2>1. Batches(es) = acc.out
    BY <1>2, <1>12
  <2> QED  BY <1>11, <1>12, <2>1 DEF n
<1>13. CASE acc.keys # {}
  <2> PICK out : out = Append(acc.out, [keys |-> acc.keys, min |-> acc.prev.min, max |-> acc.prev.max])
    OBVIOUS
  <2>1. Batches(es) = out
    BY <1>2, <1>13
  <2>2. acc.prev.min \in Int64 /\ acc.prev.max \in Int64
    BY <1>11, <1>13, RangeFacts
  <2>3. /\ BatchesOK(out, Range(es))
        /\ \A x : InBatch(x, out) <=> InBatch(x, acc.out) \/ (x.key \in acc.keys /\ acc.prev.min = x.min /\ acc.prev.max = x.max)
    <3>1. PICK b : b = [keys |-> acc.keys, min |-> acc.prev.min, max |-> acc.prev.max]
      OBVIOUS
    <3>2. b \in Batch /\ b.keys = acc.keys /\ b.min = acc.prev.min /\ b.max = acc.prev.max
      BY <1>11, <2>2, <3>1 DEF Batch
    <3>3. out = Append(acc.out, b)
      BY <3>1
    <3>4. \A k \in b.keys : [key |-> k, min |-> b.min, max |-> b.max] \in Range(es)
      BY <1>11, <1>13, <3>2
    <3> QED  BY <1>11, <3>2, <3>3, <3>4, BatchAppend
  <2> QED  BY <1>11, <2>1, <2>3 DEF n
<1> QED  BY <1>12, <1>13
(* The first n batches have the time. *)
InFirst(bs, n, k, t) == \E i \in 1..n : k \in bs[i].keys /\ bs[i].min <= t /\ t <= bs[i].max

(* What is left of an index after the first n batches. *)
AppliedOK(d0, bs, n, d) ==
    /\ IndexOK(d) /\ d.b = d0.b
    /\ \A k \in Nat, t \in Int64 : MayHold(d, k, t) <=> MayHold(d0, k, t) /\ ~InFirst(bs, n, k, t)

(* NewSSTReader: a file is opened as its index, without the tombstones of the file. *)
LEMMA OpenReaderFacts ==
  ASSUME NEW f, FileOK(files[f]), tfile[f] \in Seq(Range64)
  PROVE  /\ IndexOK(OpenReader(f)) /\ OpenReader(f).b = files[f].index
         /\ \A k \in Nat, t \in Int64 :
               MayHold(OpenReader(f), k, t) <=> Has(f, k, t) /\ ~Covered(k, t, Range(tfile[f]))
<1> PICK es, bs, d0 : es = tfile[f] /\ bs = Batches(es) /\ d0 = UnmarshalBinary(files[f])
  OBVIOUS
<1> DEFINE n == Len(bs)
           body(m, d) == DeleteRange(d, bs[m].keys, bs[m].min, bs[m].max)
           Def(x) == x = [m \in 0..n |-> IF m = 0 THEN d0 ELSE body(m, x[m - 1])]
           fn == CHOOSE x : Def(x)
           Upton(g, m) == g = [i \in 0..m |-> IF i = 0 THEN d0 ELSE body(i, g[i - 1])]
           S == {m \in 0..n : \E g : Upton(g, m)}
<1>0. BatchesOK(bs, Range(es)) /\ \A m \in 1..Len(es) : InBatch(es[m], bs)
  BY BatchFacts
<1>1. n \in Nat /\ \A i \in 1..n : bs[i] \in Batch
  BY <1>0 DEF BatchesOK
<1>2. OpenReader(f) = fn[n]
  BY DEF OpenReader
<1> HIDE DEF n, body
<1>3. 0 \in S
  <2> DEFINE g == [i \in 0..0 |-> d0]
  <2>1. Upton(g, 0)
    OBVIOUS
  <2> HIDE DEF Upton, g
  <2> QED  BY <1>1, <2>1
<1>4. ASSUME NEW m \in 0..n, m \in S, m < n PROVE m + 1 \in S
  <2>1. PICK g : Upton(g, m)
    BY <1>4
  <2> DEFINE h == [i \in 0..(m + 1) |-> IF i = m + 1 THEN body(m + 1, g[m]) ELSE g[i]]
  <2>2. \A i \in 0..m : g[i] = IF i = 0 THEN d0 ELSE body(i, g[i - 1])
    BY <2>1
  <2>3. \A i \in 0..(m + 1) : h[i] = IF i = 0 THEN d0 ELSE body(i, h[i - 1])
    <3>1. \A i \in 0..m : i # m + 1 /\ i \in 0..(m + 1) /\ h[i] = g[i]
      OBVIOUS
    <3>2. h[m + 1] = body(m + 1, h[m])
      <4>1. h[m] = g[m] /\ h[m + 1] = body(m + 1, g[m])
        BY <3>1
      <4> HIDE DEF h
      <4> QED  BY <4>1
    <3>3. \A i \in 0..(m + 1) : i \in 0..m \/ i = m + 1
      OBVIOUS
    <3>4. \A i \in 0..m : i # 0 => i - 1 \in 0..m
      OBVIOUS
    <3> HIDE DEF h
    <3>5. ASSUME NEW i \in 0..m PROVE h[i] = IF i = 0 THEN d0 ELSE body(i, h[i - 1])
      <4>1. h[i] = g[i] /\ (i # 0 => h[i - 1] = g[i - 1])
        BY <3>1, <3>4
      <4> QED  BY <2>2, <4>1
    <3>6. m + 1 # 0 /\ (m + 1) - 1 = m
      OBVIOUS
    <3> QED  BY <3>2, <3>3, <3>5, <3>6
  <2>4. h = [i \in 0..(m + 1) |-> h[i]]
    OBVIOUS
  <2> HIDE DEF h
  <2>5. Upton(h, m + 1)
    BY <2>3, <2>4
  <2>6. m + 1 \in 0..n
    BY <1>1, <1>4
  <2> HIDE DEF Upton
  <2> QED  BY <2>5, <2>6
<1>5. n \in S
  <2> HIDE DEF S
  <2>1. \A m \in 0..n : m \in S
    BY <1>1, <1>3, <1>4, SetInduction
  <2> QED  BY <1>1, <2>1
<1>6. Def(fn)
  <2>1. PICK g : Upton(g, n)
    BY <1>5
  <2>2. Def(g)
    BY <2>1
  <2> HIDE DEF Def
  <2> QED  BY <2>2
<1> HIDE DEF fn
<1>7. fn[0] = d0 /\ \A m \in 1..n : fn[m] = body(m, fn[m - 1])
  <2>1. \A m \in 0..n : fn[m] = (IF m = 0 THEN d0 ELSE body(m, fn[m - 1]))
    BY <1>6
  <2> QED  BY <1>1, <2>1
<1>8. Opened(files[f], d0)
  BY UnmarshalOK
<1> DEFINE A == {m \in 0..n : AppliedOK(d0, bs, m, fn[m])}
<1>9. 0 \in A
  <2>1. \A k, t : ~InFirst(bs, 0, k, t)
    BY DEF InFirst
  <2>2. AppliedOK(d0, bs, 0, d0)
    BY <1>8, <2>1 DEF AppliedOK, Opened
  <2> QED  BY <1>1, <1>7, <2>2
<1>10. ASSUME NEW m \in 0..n, m \in A, m < n PROVE m + 1 \in A
  <2>1. m + 1 \in 1..n /\ m + 1 \in 0..n /\ (m + 1) - 1 = m
    BY <1>1, <1>10
  <2> PICK d, e, b : d = fn[m] /\ e = fn[m + 1] /\ b = bs[m + 1]
    OBVIOUS
  <2>2. b.keys \in SUBSET Nat /\ b.min \in Int64 /\ b.max \in Int64
    BY <1>1, <2>1, BatchFields
  <2>3. AppliedOK(d0, bs, m, d)
    BY <1>10
  <2>4. e = DeleteRange(d, b.keys, b.min, b.max)
    BY <1>7, <2>1 DEF body
  <2>5. IndexOK(d)
    BY <2>3 DEF AppliedOK
  <2>6. ExactOK(d, b.keys, b.min, b.max, e)
    BY <2>2, <2>4, <2>5, DeleteRangeEffect
  <2>7. \A k, t : InFirst(bs, m + 1, k, t) <=> InFirst(bs, m, k, t) \/ (k \in b.keys /\ b.min <= t /\ t <= b.max)
    <3>1. \A i : i \in 1..(m + 1) <=> i \in 1..m \/ i = m + 1
      BY <1>10
    <3> QED  BY <3>1 DEF InFirst
  <2>8. AppliedOK(d0, bs, m + 1, e)
    BY <2>3, <2>6, <2>7, Zenon DEF AppliedOK, ExactOK
  <2> QED  BY <2>1, <2>8
<1>11. AppliedOK(d0, bs, n, fn[n])
  <2> HIDE DEF A
  <2>1. \A m \in 0..n : m \in A
    BY <1>1, <1>9, <1>10, SetInduction
  <2> QED  BY <1>1, <2>1 DEF A
<1>12. ASSUME NEW k \in Nat, NEW t \in Int64 PROVE InFirst(bs, n, k, t) <=> Covered(k, t, Range(es))
  <2>0. t \in Int /\ \A x \in Int64 : x \in Int
    BY TimeAssumption DEF Int64
  <2>1. ASSUME InFirst(bs, n, k, t) PROVE Covered(k, t, Range(es))
    <3>1. PICK i \in 1..n : k \in bs[i].keys /\ bs[i].min <= t /\ t <= bs[i].max
      BY <2>1 DEF InFirst
    <3>2. PICK r : r = [key |-> k, min |-> bs[i].min, max |-> bs[i].max]
      OBVIOUS
    <3>3. r \in Range(es) /\ r.key = k /\ r.min = bs[i].min /\ r.max = bs[i].max
      BY <1>0, <3>1, <3>2 DEF BatchesOK, n
    <3>4. bs[i].max >= t
      BY <1>1, <2>0, <3>1, BatchFields
    <3> QED  BY <3>1, <3>3, <3>4 DEF Covered, HasTime
  <2>2. ASSUME Covered(k, t, Range(es)) PROVE InFirst(bs, n, k, t)
    <3>1. PICK r \in Range(es) : r.key = k /\ HasTime(r, t)
      BY <2>2 DEF Covered
    <3>2. PICK m \in 1..Len(es) : r = es[m]
      BY <3>1 DEF Range
    <3>3. r \in Range64 /\ r.max \in Int
      BY <2>0, <3>2, RangeFacts
    <3>4. PICK i \in 1..n : r.key \in bs[i].keys /\ bs[i].min = r.min /\ bs[i].max = r.max
      BY <1>0, <3>2 DEF InBatch, n
    <3>5. r.min <= t /\ t <= r.max
      BY <2>0, <3>1, <3>3 DEF HasTime
    <3> QED  BY <3>1, <3>4, <3>5 DEF InFirst
  <2> QED  BY <2>1, <2>2
<1>13. \A k, t : MayHold(d0, k, t) <=> Has(f, k, t)
  BY <1>8, OpenedHolds DEF Has
<1>14. d0.b = files[f].index
  BY <1>8 DEF Opened
<1>15. /\ IndexOK(fn[n]) /\ fn[n].b = d0.b
       /\ \A k \in Nat, t \in Int64 : MayHold(fn[n], k, t) <=> MayHold(d0, k, t) /\ ~InFirst(bs, n, k, t)
  BY <1>11, Zenon DEF AppliedOK
<1>16. \A k \in Nat, t \in Int64 : MayHold(fn[n], k, t) <=> Has(f, k, t) /\ ~Covered(k, t, Range(es))
  BY <1>12, <1>13, <1>15, Zenon
<1> QED  BY <1>2, <1>14, <1>15, <1>16
-----------------------------------------------------------------------------
(* The tombstones a delete adds *)

(* A finite set of keys has a greatest one. *)
LEMMA FiniteGreatest ==
  ASSUME NEW T \in SUBSET Nat, IsFiniteSet(T), T # {}
  PROVE  \E x \in T : \A y \in T : y <= x
<1> DEFINE R == {p \in T \X T : p[1] > p[2]}
<1>1. \A x, y \in T : <<x, y>> \in R <=> x > y
  OBVIOUS
<1>2. \A x \in T : <<x, x>> \notin R
  <2>1. \A x \in T : ~(x > x)
    OBVIOUS
  <2> HIDE DEF R
  <2> QED  BY <1>1, <2>1
<1>3. \A x, y, z \in T : <<x, y>> \in R /\ <<y, z>> \in R => <<x, z>> \in R
  <2>1. \A x, y, z \in T : x > y /\ y > z => x > z
    OBVIOUS
  <2> HIDE DEF R
  <2> QED  BY <1>1, <2>1
<1> HIDE DEF R
<1>4. \E x \in T : \A y \in T : <<y, x>> \notin R
  BY <1>2, <1>3, FiniteMinimal
<1>5. \A x, y \in T : ~(y > x) => y <= x
  OBVIOUS
<1> QED  BY <1>1, <1>4, <1>5

(* The keys of a finite set can be put in order. *)
LEMMA OrderExists ==
  ASSUME NEW S \in SUBSET Nat, IsFiniteSet(S)
  PROVE  \E s \in [1..Cardinality(S) -> S] : \A i, j \in DOMAIN s : i < j => s[i] < s[j]
<1> DEFINE n == Cardinality(S)
           Up(s) == \A i, j \in DOMAIN s : i < j => s[i] < s[j]
           M == {m \in 0..n : \A T \in SUBSET S : Cardinality(T) = m => \E s \in [1..m -> T] : Up(s)}
<1>1. n \in Nat
  BY FS_CardinalityType
<1> HIDE DEF n
<1>2. 0 \in M
  <2> HIDE DEF Up
  <2> SUFFICES \A T \in SUBSET S : Cardinality(T) = 0 => \E s \in [1..0 -> T] : Up(s)
    BY <1>1
  <2> SUFFICES ASSUME NEW T \in SUBSET S PROVE \E s \in [1..0 -> T] : Up(s)
    OBVIOUS
  <2> USE DEF Up
  <2>1. [i \in 1..0 |-> 0] \in [1..0 -> T] /\ Up([i \in 1..0 |-> 0])
    OBVIOUS
  <2> QED  BY <2>1
<1>3. ASSUME NEW m \in 0..n, m \in M, m < n PROVE m + 1 \in M
  <2> SUFFICES ASSUME NEW T \in SUBSET S, Cardinality(T) = m + 1 PROVE \E s \in [1..(m + 1) -> T] : Up(s)
    BY <1>1, <1>3
  <2>1. IsFiniteSet(T)
    BY FS_Subset
  <2>2. T # {}
    <3>1. m + 1 # 0
      OBVIOUS
    <3> QED  BY <3>1, FS_EmptySet
  <2>3. PICK x \in T : \A y \in T : y <= x
    BY <2>1, <2>2, FiniteGreatest
  <2>4. Cardinality(T \ {x}) = m /\ T \ {x} \in SUBSET S
    <3>1. Cardinality(T \ {x}) = (m + 1) - 1
      BY <2>1, FS_RemoveElement
    <3> QED  BY <3>1
  <2>5. PICK s \in [1..m -> T \ {x}] : Up(s)
    BY <1>3, <2>4
  <2> DEFINE u == [i \in 1..(m + 1) |-> IF i = m + 1 THEN x ELSE s[i]]
  <2>6. \A i \in 1..m : i # m + 1 /\ u[i] = s[i] /\ s[i] \in T \ {x} /\ s[i] \in Nat
    <3>1. \A i \in 1..m : i # m + 1 /\ i \in 1..(m + 1)
      OBVIOUS
    <3>2. \A i \in 1..m : s[i] \in T \ {x}
      OBVIOUS
    <3>3. T \subseteq Nat
      OBVIOUS
    <3> QED  BY <3>1, <3>2, <3>3
  <2>7. u[m + 1] = x /\ x \in Nat /\ \A i \in 1..(m + 1) : i \in 1..m \/ i = m + 1
    OBVIOUS
  <2>8. DOMAIN u = 1..(m + 1) /\ DOMAIN s = 1..m
    OBVIOUS
  <2>9. u \in [1..(m + 1) -> T]
    OBVIOUS
  <2> HIDE DEF u
  <2>10. ASSUME NEW i \in 1..(m + 1), NEW j \in 1..(m + 1), i < j PROVE u[i] < u[j]
    <3>1. i \in 1..m
      BY <1>1, <2>10
    <3>2. CASE j \in 1..m
      <4>1. s[i] < s[j]
        BY <2>5, <2>8, <2>10, <3>1, <3>2
      <4> QED  BY <2>6, <3>1, <3>2, <4>1
    <3>3. CASE j = m + 1
      <4>1. s[i] <= x /\ s[i] # x /\ s[i] \in Nat /\ x \in Nat
        BY <2>3, <2>6, <2>7, <3>1
      <4>2. s[i] < x
        BY <4>1
      <4> QED  BY <2>6, <2>7, <3>1, <3>3, <4>2
    <3> QED  BY <2>7, <3>2, <3>3
  <2>11. Up(u)
    BY <2>8, <2>10
  <2> QED  BY <2>9, <2>11
<1>4. n \in M
  <2> HIDE DEF M
  <2>1. \A m \in 0..n : m \in M
    BY <1>1, <1>2, <1>3, SetInduction
  <2> QED  BY <1>1, <2>1
<1> QED  BY <1>4 DEF n

(* SortedKeys lists every key. *)
LEMMA SortedFacts ==
  ASSUME NEW S \in SUBSET Nat, IsFiniteSet(S)
  PROVE  /\ Cardinality(S) \in Nat /\ SortedKeys(S) \in [1..Cardinality(S) -> S]
         /\ \A x \in S : \E i \in 1..Cardinality(S) : SortedKeys(S)[i] = x
<1> PICK n : n = Cardinality(S)
  OBVIOUS
<1> DEFINE s == SortedKeys(S)
<1>1. n \in Nat
  BY FS_CardinalityType
<1>2. s \in [1..n -> S] /\ \A i, j \in DOMAIN s : i < j => s[i] < s[j]
  BY OrderExists DEF SortedKeys
<1> HIDE DEF s
<1>3. DOMAIN s = 1..n
  BY <1>2
<1>4. ASSUME NEW i \in 1..n, NEW j \in 1..n, s[i] = s[j] PROVE i = j
  <2> SUFFICES ASSUME i # j PROVE FALSE
    OBVIOUS
  <2>1. i < j \/ j < i
    OBVIOUS
  <2>2. s[i] \in Nat /\ (s[i] < s[j] \/ s[j] < s[i])
    BY <1>2, <1>3, <2>1
  <2> QED  BY <1>4, <2>2
<1>5. s \in Injection(1..n, S)
  BY <1>2, <1>4 DEF Injection, IsInjective
<1>6. Cardinality(1..n) = n
  <2>0. 1 \in Int /\ n \in Int
    BY <1>1
  <2>1. Cardinality(1..n) = IF 1 > n THEN 0 ELSE n - 1 + 1
    BY <2>0, FS_Interval, Zenon
  <2> QED  BY <1>1, <2>1
<1>7. s \in Surjection(1..n, S)
  BY <1>5, <1>6, FS_Injection
<1>8. \A x \in S : \E i \in 1..n : s[i] = x
  BY <1>7 DEF Surjection
<1> QED  BY <1>1, <1>2, <1>8 DEF s
(* What a request is. *)
LEMMA RequestFacts ==
  ASSUME NEW r \in Requests
  PROVE  /\ r.keys \in SUBSET Nat /\ r.keys # {} /\ IsFiniteSet(r.keys)
         /\ r.min \in Int64 /\ r.max \in Int64 /\ Ranges(r) \subseteq Range64
         /\ \A k \in r.keys : [key |-> k, min |-> r.min, max |-> r.max] \in Ranges(r)
         /\ \A a \in Ranges(r) : a.key \in r.keys /\ a.min = r.min /\ a.max = r.max
<1>1. /\ r.keys \in SUBSET Nat /\ r.keys # {} /\ IsFiniteSet(r.keys)
      /\ r.min \in Int64 /\ r.max \in Int64
  BY SSTAssumption DEF Int64
<1>2. \A a \in Ranges(r) : \E k \in r.keys : a = [key |-> k, min |-> r.min, max |-> r.max]
  BY DEF Ranges
<1>3. \A k \in r.keys : [key |-> k, min |-> r.min, max |-> r.max] \in Range64
  BY <1>1 DEF Range64
<1>4. Ranges(r) \subseteq Range64
  BY <1>2, <1>3
<1>5. \A k \in r.keys : [key |-> k, min |-> r.min, max |-> r.max] \in Ranges(r)
  BY DEF Ranges
<1>6. \A a \in Ranges(r) : a.key \in r.keys /\ a.min = r.min /\ a.max = r.max
  BY <1>2
<1> QED  BY <1>1, <1>4, <1>5, <1>6

(* batchDelete.DeleteRange: the tombstones are some of the ranges asked for; of a file whose
   times the range meets, none of a key is left out that the file may have. *)
LEMMA NewTombstonesFacts ==
  ASSUME NEW f, NEW r \in Requests, IndexOK(idx[f])
  PROVE  /\ NewTombstones(f, r) \in Seq(Ranges(r))
         /\ OverlapsTimeRange(idx[f], r.min, r.max) =>
               \A k \in r.keys : ContainsKey(idx[f], k) =>
                   [key |-> k, min |-> r.min, max |-> r.max] \in Range(NewTombstones(f, r))
<1> PICK d, K, keys, lo, hi : /\ d = idx[f] /\ K = {k \in r.keys : ContainsKey(d, k)}
                              /\ keys = SortedKeys(K)
                              /\ lo = CHOOSE k \in r.keys : \A m \in r.keys : k <= m
                              /\ hi = CHOOSE k \in r.keys : \A m \in r.keys : k >= m
  OBVIOUS
<1> DEFINE of(k) == [key |-> k, min |-> r.min, max |-> r.max]
           new == [i \in DOMAIN keys |-> of(keys[i])]
           out == ~OverlapsKeyRange(d, lo, hi) \/ ~OverlapsTimeRange(d, r.min, r.max)
<1>1. NewTombstones(f, r) = IF out THEN <<>> ELSE new
  BY DEF NewTombstones
<1>2. /\ r.keys \in SUBSET Nat /\ r.keys # {} /\ IsFiniteSet(r.keys)
      /\ \A k \in r.keys : of(k) \in Ranges(r)
  BY RequestFacts
<1>3. K \in SUBSET Nat /\ IsFiniteSet(K) /\ K \subseteq r.keys
  <2>1. K \in SUBSET r.keys
    OBVIOUS
  <2> QED  BY <1>2, <2>1, FS_Subset
<1> PICK n : n = Cardinality(K)
  OBVIOUS
<1>4. n \in Nat /\ keys \in [1..n -> K] /\ \A x \in K : \E i \in 1..n : keys[i] = x
  BY <1>3, SortedFacts
<1>5. DOMAIN keys = 1..n /\ \A i \in 1..n : keys[i] \in K /\ keys[i] \in r.keys
  BY <1>3, <1>4
<1>6. new \in Seq(Ranges(r)) /\ \A x \in K : of(x) \in Range(new)
  <2> HIDE DEF of
  <2>1. \A i \in 1..n : of(keys[i]) \in Ranges(r)
    BY <1>2, <1>5
  <2>2. new \in Seq(Ranges(r)) /\ DOMAIN new = 1..n /\ \A i \in 1..n : new[i] = of(keys[i])
    <3>1. DOMAIN new = 1..n /\ \A i \in 1..n : new[i] = of(keys[i])
      BY <1>5
    <3>2. new = [i \in 1..n |-> new[i]]
      BY <1>5
    <3> HIDE DEF new
    <3>3. \A i \in 1..n : new[i] \in Ranges(r)
      BY <2>1, <3>1
    <3>4. new \in [1..n -> Ranges(r)]
      BY <3>2, <3>3
    <3>5. \A X : \A s \in [1..n -> X] : s \in Seq(X)
      BY <1>4
    <3> QED  BY <3>1, <3>4, <3>5, Zenon
  <2> HIDE DEF new
  <2>3. ASSUME NEW x \in K PROVE of(x) \in Range(new)
    <3>1. PICK i \in 1..n : keys[i] = x
      BY <1>4
    <3>2. new[i] = of(x) /\ i \in DOMAIN new
      BY <2>2, <3>1
    <3> QED  BY <3>2 DEF Range
  <2> QED  BY <2>2, <2>3
<1>7. NewTombstones(f, r) \in Seq(Ranges(r))
  <2> HIDE DEF new, out
  <2>1. <<>> \in Seq(Ranges(r))
    OBVIOUS
  <2> QED  BY <1>1, <1>6, <2>1
<1>8. ASSUME OverlapsTimeRange(d, r.min, r.max), NEW k \in r.keys, ContainsKey(d, k)
      PROVE  of(k) \in Range(NewTombstones(f, r))
  <2>1. lo \in r.keys /\ \A m \in r.keys : lo <= m
    <3>1. \E x \in r.keys : \A m \in r.keys : x <= m
      BY <1>2, NatLeast
    <3> QED  BY <3>1
  <2>2. hi \in r.keys /\ \A m \in r.keys : hi >= m
    <3>1. \E x \in r.keys : \A m \in r.keys : m <= x
      BY <1>2, FiniteGreatest
    <3>2. \A x, m \in r.keys : m <= x => x >= m
      BY <1>2
    <3>3. \E x \in r.keys : \A m \in r.keys : x >= m
      BY <3>1, <3>2
    <3> QED  BY <3>3
  <2>3. d.minKey \in Int /\ d.maxKey \in Int /\ k \in Int /\ lo \in Int /\ hi \in Int
    BY <1>2, <2>1, <2>2 DEF IndexOK
  <2>4. k >= d.minKey /\ k <= d.maxKey /\ lo <= k /\ hi >= k
    BY <1>8, <2>1, <2>2 DEF ContainsKey
  <2>5. OverlapsKeyRange(d, lo, hi)
    BY <2>3, <2>4 DEF OverlapsKeyRange
  <2>6. ~out
    BY <1>8, <2>5
  <2>7. k \in K
    BY <1>8
  <2> HIDE DEF out, new, of
  <2> QED  BY <1>1, <1>6, <2>6, <2>7
<1> QED  BY <1>7, <1>8
-----------------------------------------------------------------------------
(* Writing *)

(* The fields of a writer. *)
LEMMA WriterFields ==
  ASSUME NEW x \in Writer
  PROVE  /\ x = [n |-> x.n, blocks |-> x.blocks, key |-> x.key, entries |-> x.entries,
                 sections |-> x.sections, size |-> x.size, keyCount |-> x.keyCount]
         /\ x.n \in Nat /\ x.blocks \in Seq(FileBlock) /\ x.key \in Nat /\ x.entries \in Seq(FileEntry)
         /\ x.sections \in Seq(FileSection) /\ x.size \in Nat /\ x.keyCount \in Nat
  BY DEF Writer

(* A sequence with one more element. *)
LEMMA Appended ==
  ASSUME NEW T, NEW s \in Seq(T), NEW x \in T
  PROVE  /\ Append(s, x) \in Seq(T) /\ Len(Append(s, x)) = Len(s) + 1 /\ Len(s) \in Nat
         /\ DOMAIN Append(s, x) = 1..(Len(s) + 1) /\ Append(s, x)[Len(s) + 1] = x
         /\ DOMAIN s = 1..Len(s) /\ Append(s, x) # <<>>
         /\ \A i \in 1..Len(s) : Append(s, x)[i] = s[i] /\ i \in 1..(Len(s) + 1)
         /\ \A i : i \in 1..(Len(s) + 1) <=> i \in 1..Len(s) \/ i = Len(s) + 1
  OBVIOUS

(* One more block after the others. *)
LEMMA BlocksMore ==
  ASSUME NEW blocks, NEW n \in Nat, BlocksOK(blocks, n), NEW b \in FileBlock, n <= b.offset,
         NEW m \in Nat, b.offset < m
  PROVE  /\ BlocksOK(Append(blocks, b), m)
         /\ \A es : EntriesOK(es, blocks) => EntriesOK(es, Append(blocks, b))
<1> PICK new, l : new = Append(blocks, b) /\ l = Len(blocks)
  OBVIOUS
<1>1. /\ new \in Seq(FileBlock) /\ Len(new) = l + 1 /\ l \in Nat /\ new[l + 1] = b
      /\ \A i \in 1..l : new[i] = blocks[i] /\ i \in 1..(l + 1)
      /\ \A i : i \in 1..(l + 1) <=> i \in 1..l \/ i = l + 1
  BY Appended DEF BlocksOK
<1>2. \A x \in FileBlock : x.offset \in Nat
  BY DEF FileBlock
<1>3. /\ \A i \in 1..l : blocks[i] \in FileBlock /\ blocks[i].offset \in Nat /\ blocks[i].offset < n
      /\ \A i, j \in 1..l : i < j => blocks[i].offset < blocks[j].offset
  BY <1>2 DEF BlocksOK
<1>4. \A i \in 1..l : blocks[i].offset < b.offset /\ blocks[i].offset < m
  <2>1. b.offset \in Nat
    BY <1>2
  <2>2. \A y \in Nat : y < n => y < b.offset /\ y < m
    BY <2>1
  <2> QED  BY <1>3, <2>2
<1>5. BlocksOK(new, m)
  <2>1. \A i \in 1..(l + 1) : new[i].offset < m
    BY <1>1, <1>4
  <2>2. ASSUME NEW i \in 1..(l + 1), NEW j \in 1..(l + 1), i < j PROVE new[i].offset < new[j].offset
    <3>1. i \in 1..l
      BY <1>1, <2>2
    <3>2. CASE j \in 1..l
      BY <1>1, <1>3, <2>2, <3>1, <3>2
    <3>3. CASE j = l + 1
      BY <1>1, <1>4, <3>1, <3>3
    <3> QED  BY <1>1, <3>2, <3>3
  <2> QED  BY <1>1, <2>1, <2>2 DEF BlocksOK
<1>6. ASSUME NEW es, EntriesOK(es, blocks) PROVE EntriesOK(es, new)
  <2>1. \A i \in 1..Len(es) : \E x \in 1..l : EntryOf(es[i], blocks, x)
    BY <1>6 DEF EntriesOK
  <2>2. \A e : \A x \in 1..l : EntryOf(e, blocks, x) => EntryOf(e, new, x)
    BY <1>1 DEF EntryOf
  <2>3. \A i \in 1..Len(es) : \E x \in 1..Len(new) : EntryOf(es[i], new, x)
    BY <1>1, <2>1, <2>2
  <2> QED  BY <1>6, <2>3 DEF EntriesOK
<1> QED  BY <1>5, <1>6

(* The sections with one more, of a greater key. *)
LEMMA SectionsMore ==
  ASSUME NEW T, NEW secs \in Seq(T), NEW s \in T, NEW blocks, SectionsOK(secs, blocks),
         s.key \in Nat \ {NoKey}, KeyLen(s.key) \in Nat, EntriesOK(s.entries, blocks),
         \A i \in 1..Len(secs) : secs[i].key < s.key
  PROVE  SectionsOK(Append(secs, s), blocks)
<1> PICK new, l : new = Append(secs, s) /\ l = Len(secs)
  OBVIOUS
<1>1. /\ new \in Seq(T) /\ Len(new) = l + 1 /\ DOMAIN new = 1..(l + 1) /\ l \in Nat /\ new[l + 1] = s
      /\ \A i \in 1..l : new[i] = secs[i] /\ i \in 1..(l + 1)
      /\ \A i : i \in 1..(l + 1) <=> i \in 1..l \/ i = l + 1
  BY Appended
<1>2. /\ \A i \in 1..l : /\ secs[i].key \in Nat \ {NoKey} /\ KeyLen(secs[i].key) \in Nat
                         /\ EntriesOK(secs[i].entries, blocks)
      /\ \A i, j \in 1..l : i < j => secs[i].key < secs[j].key
  BY DEF SectionsOK
<1>3. \A i \in 1..(l + 1) : /\ new[i].key \in Nat \ {NoKey} /\ KeyLen(new[i].key) \in Nat
                            /\ EntriesOK(new[i].entries, blocks)
  BY <1>1, <1>2
<1>4. ASSUME NEW i \in 1..(l + 1), NEW j \in 1..(l + 1), i < j PROVE new[i].key < new[j].key
  <2>1. i \in 1..l
    BY <1>1, <1>4
  <2>2. CASE j \in 1..l
    BY <1>1, <1>2, <1>4, <2>1, <2>2
  <2>3. CASE j = l + 1
    BY <1>1, <2>1, <2>3
  <2> QED  BY <1>1, <2>2, <2>3
<1>5. Len(new) \in Nat
  BY <1>1
<1> QED  BY <1>1, <1>3, <1>4, <1>5 DEF SectionsOK

(* The first sections of some. *)
LEMMA SectionsLess ==
  ASSUME NEW T, NEW secs \in Seq(T), NEW s \in T, NEW blocks, SectionsOK(Append(secs, s), blocks)
  PROVE  /\ SectionsOK(secs, blocks) /\ \A i \in 1..Len(secs) : secs[i].key < s.key
         /\ s.key \in Nat \ {NoKey} /\ KeyLen(s.key) \in Nat /\ EntriesOK(s.entries, blocks)
<1> PICK new, l : new = Append(secs, s) /\ l = Len(secs)
  OBVIOUS
<1>1. /\ new \in Seq(T) /\ Len(new) = l + 1 /\ DOMAIN secs = 1..l /\ l \in Nat /\ new[l + 1] = s
      /\ \A i \in 1..l : new[i] = secs[i] /\ i \in 1..(l + 1)
      /\ \A i : i \in 1..(l + 1) <=> i \in 1..l \/ i = l + 1
  BY Appended
<1>2. /\ \A i \in 1..(l + 1) : /\ new[i].key \in Nat \ {NoKey} /\ KeyLen(new[i].key) \in Nat
                               /\ EntriesOK(new[i].entries, blocks)
      /\ \A i, j \in 1..(l + 1) : i < j => new[i].key < new[j].key
  BY <1>1 DEF SectionsOK
<1>3. l + 1 \in 1..(l + 1) /\ \A i \in 1..l : i < l + 1
  BY <1>1
<1>4. \A i \in 1..l : secs[i].key < s.key
  BY <1>1, <1>2, <1>3
<1>5. SectionsOK(secs, blocks)
  BY <1>1, <1>2 DEF SectionsOK
<1>6. s.key \in Nat \ {NoKey} /\ KeyLen(s.key) \in Nat /\ EntriesOK(s.entries, blocks)
  BY <1>1, <1>2, <1>3
<1> QED  BY <1>4, <1>5, <1>6
(* sstWriter.WriteBlock writes block b at position n and leads to it with entry e, of the
   section of the key before it or of a new one. *)
Wrote(x, y, key, block, n, e, b) ==
    /\ n \in Nat /\ x.n <= n /\ n # 0 /\ b \in FileBlock /\ e \in FileEntry
    /\ b.offset = n /\ b.points = block /\ b.size \in Nat \ {0}
    /\ e.offset = n /\ e.size = b.size /\ e.min = MinTime(block) /\ e.max = MaxTime(block)
    /\ y \in Writer /\ y.keyCount # 0 /\ y.key = key /\ y.blocks = Append(x.blocks, b) /\ y.n = n + b.size
    /\ x.key # key => y.sections = Secs(x) /\ y.entries = <<e>>
    /\ x.key = key => y.sections = x.sections /\ y.entries = Append(x.entries, e)

(* The section being written is a section. *)
LEMMA SecsFacts ==
  ASSUME NEW x \in Writer, WriterOK(x), x # NewSSTWriter
  PROVE  /\ Secs(x) = Append(x.sections, [key |-> x.key, entries |-> x.entries])
         /\ [key |-> x.key, entries |-> x.entries] \in FileSection
         /\ Secs(x) \in Seq(FileSection) /\ EntriesOK(x.entries, x.blocks)
<1>1. x.key # NoKey /\ SectionsOK(Secs(x), x.blocks)
  BY DEF WriterOK
<1>2. Secs(x) = Append(x.sections, [key |-> x.key, entries |-> x.entries])
  BY <1>1 DEF Secs
<1>3. x.key \in Nat /\ x.entries \in Seq(FileEntry) /\ x.sections \in Seq(FileSection)
  BY WriterFields
<1> PICK s : s = [key |-> x.key, entries |-> x.entries]
  OBVIOUS
<1>4. s \in FileSection /\ s.entries = x.entries
  BY <1>1, <1>3 DEF FileSection
<1>5. Append(x.sections, s) \in Seq(FileSection)
  BY <1>3, <1>4, Appended
<1>6. EntriesOK(s.entries, x.blocks)
  BY <1>1, <1>2, <1>3, <1>4, SectionsLess
<1> QED  BY <1>2, <1>4, <1>5, <1>6

(* directIndex.flush of the section being written. *)
LEMMA FlushFacts ==
  ASSUME NEW x \in Writer, WriterOK(x), x # NewSSTWriter, Len(x.entries) <= MaxIndexEntries
  PROVE  FlushKey(x) = [x EXCEPT !.sections = Secs(x), !.key = NoKey, !.entries = <<>>]
<1>1. x.key # NoKey /\ BlocksOK(x.blocks, x.n)
  BY DEF WriterOK
<1>2. Secs(x) = Append(x.sections, [key |-> x.key, entries |-> x.entries]) /\ EntriesOK(x.entries, x.blocks)
  BY SecsFacts
<1>3. ByMinTime(x.entries) = x.entries
  <2>1. \A i, j \in 1..Len(x.entries) : i <= j => x.entries[i].min <= x.entries[j].min
    BY <1>1, <1>2, EntryFacts
  <2>2. x.entries \in Seq(FileEntry) /\ Len(x.entries) \in Nat
    BY WriterFields
  <2>3. \A i, j \in 1..Len(x.entries) : i < j => i <= j
    BY <2>2
  <2>4. \A i, j \in 1..Len(x.entries) : i < j => x.entries[i].min <= x.entries[j].min
    BY <2>1, <2>3
  <2> QED  BY <2>2, <2>4, SortedAlready
<1>4. ~(Len(x.entries) > MaxIndexEntries)
  <2>1. Len(x.entries) \in Nat
    BY WriterFields
  <2> QED  BY <2>1, SSTAssumption
<1>5. FlushKey(x) = [x EXCEPT !.sections = Append(x.sections, [key |-> x.key, entries |-> ByMinTime(x.entries)]),
                             !.key = NoKey, !.entries = <<>>]
  BY <1>1, <1>4 DEF FlushKey
<1> QED  BY <1>2, <1>3, <1>5

(* A writer by its fields. *)
Rec(n, bs, k, es, secs, size, c) ==
    [n |-> n, blocks |-> bs, key |-> k, entries |-> es, sections |-> secs, size |-> size, keyCount |-> c]

IsRec(x) == x = Rec(x.n, x.blocks, x.key, x.entries, x.sections, x.size, x.keyCount)

LEMMA RecFacts ==
  ASSUME NEW n, NEW bs, NEW k, NEW es, NEW secs, NEW size, NEW c, NEW x, x = Rec(n, bs, k, es, secs, size, c)
  PROVE  /\ x.n = n /\ x.blocks = bs /\ x.key = k /\ x.entries = es /\ x.sections = secs /\ x.size = size
         /\ x.keyCount = c /\ IsRec(x)
  BY DEF Rec, IsRec

(* The records that directIndex.Add and sstWriter.WriteBlock make of a writer. *)
LEMMA RecNew ==
  ASSUME NEW x, IsRec(x), NEW key, NEW e
  PROVE  NewSection(x, key, e) =
           Rec(x.n, x.blocks, key, Append(x.entries, e), x.sections, x.size + 2 + KeyLen(key) + 2 + EntrySize, x.keyCount + 1)
<1>1. PICK x1, a, b, c : /\ x1 = [x EXCEPT !.key = key] /\ a = Append(x.entries, e)
                         /\ b = x.size + 2 + KeyLen(key) + 2 + EntrySize /\ c = x.keyCount + 1
  OBVIOUS
<1>2. PICK x2 : x2 = [x1 EXCEPT !.entries = a]
  OBVIOUS
<1>3. PICK x3 : x3 = [x2 EXCEPT !.size = b]
  OBVIOUS
<1>4. PICK x4 : x4 = [x3 EXCEPT !.keyCount = c]
  OBVIOUS
<1>5. x1 = Rec(x.n, x.blocks, key, x.entries, x.sections, x.size, x.keyCount)
  BY <1>1 DEF Rec, IsRec
<1>6. x2 = Rec(x.n, x.blocks, key, a, x.sections, x.size, x.keyCount)
  BY <1>2, <1>5 DEF Rec
<1>7. x3 = Rec(x.n, x.blocks, key, a, x.sections, b, x.keyCount)
  BY <1>3, <1>6 DEF Rec
<1>8. x4 = Rec(x.n, x.blocks, key, a, x.sections, b, c)
  BY <1>4, <1>7 DEF Rec
<1>9. x4 = NewSection(x, key, e)
  BY <1>1, <1>2, <1>3, <1>4, Zenon DEF NewSection
<1> QED  BY <1>1, <1>8, <1>9, Zenon

LEMMA RecMore ==
  ASSUME NEW x, IsRec(x), NEW e
  PROVE  [x EXCEPT !.entries = Append(@, e), !.size = @ + EntrySize] =
           Rec(x.n, x.blocks, x.key, Append(x.entries, e), x.sections, x.size + EntrySize, x.keyCount)
<1>1. PICK x1, a, b : x1 = [x EXCEPT !.entries = a] /\ a = Append(x.entries, e) /\ b = x.size + EntrySize
  OBVIOUS
<1>2. PICK x2 : x2 = [x1 EXCEPT !.size = b]
  OBVIOUS
<1>3. x1 = Rec(x.n, x.blocks, x.key, a, x.sections, x.size, x.keyCount)
  BY <1>1 DEF Rec, IsRec
<1>4. x2 = Rec(x.n, x.blocks, x.key, a, x.sections, b, x.keyCount)
  BY <1>2, <1>3 DEF Rec
<1>5. x2 = [x EXCEPT !.entries = Append(@, e), !.size = @ + EntrySize]
  BY <1>1, <1>2, Zenon
<1> QED  BY <1>1, <1>4, <1>5, Zenon

LEMMA RecBlock ==
  ASSUME NEW x, IsRec(x), NEW b, NEW add
  PROVE  [x EXCEPT !.blocks = Append(@, b), !.n = @ + add] =
           Rec(x.n + add, Append(x.blocks, b), x.key, x.entries, x.sections, x.size, x.keyCount)
<1>1. PICK x1, a, c : x1 = [x EXCEPT !.blocks = a] /\ a = Append(x.blocks, b) /\ c = x.n + add
  OBVIOUS
<1>2. PICK x2 : x2 = [x1 EXCEPT !.n = c]
  OBVIOUS
<1>3. x1 = Rec(x.n, a, x.key, x.entries, x.sections, x.size, x.keyCount)
  BY <1>1 DEF Rec, IsRec
<1>4. x2 = Rec(c, a, x.key, x.entries, x.sections, x.size, x.keyCount)
  BY <1>2, <1>3 DEF Rec
<1>5. x2 = [x EXCEPT !.blocks = Append(@, b), !.n = @ + add]
  BY <1>1, <1>2, Zenon
<1> QED  BY <1>1, <1>4, <1>5, Zenon

LEMMA RecFlush ==
  ASSUME NEW x, IsRec(x), NEW u
  PROVE  [x EXCEPT !.sections = u, !.key = NoKey, !.entries = <<>>] =
           Rec(x.n, x.blocks, NoKey, <<>>, u, x.size, x.keyCount)
<1>1. PICK x1 : x1 = [x EXCEPT !.sections = u]
  OBVIOUS
<1>2. PICK x2 : x2 = [x1 EXCEPT !.key = NoKey]
  OBVIOUS
<1>3. PICK x3 : x3 = [x2 EXCEPT !.entries = <<>>]
  OBVIOUS
<1>4. x1 = Rec(x.n, x.blocks, x.key, x.entries, u, x.size, x.keyCount)
  BY <1>1 DEF Rec, IsRec
<1>5. x2 = Rec(x.n, x.blocks, NoKey, x.entries, u, x.size, x.keyCount)
  BY <1>2, <1>4 DEF Rec
<1>6. x3 = Rec(x.n, x.blocks, NoKey, <<>>, u, x.size, x.keyCount)
  BY <1>3, <1>5 DEF Rec
<1>7. x3 = [x EXCEPT !.sections = u, !.key = NoKey, !.entries = <<>>]
  BY <1>1, <1>2, <1>3, Zenon
<1> QED  BY <1>6, <1>7, Zenon

LEMMA WriteShape ==
  ASSUME NEW x, WriterOK(x), NEW key \in Nat \ {NoKey}, KeyLen(key) \in Nat, NEW block \in InputBlocks,
         Len(x.entries) < MaxIndexEntries
  PROVE  \E n, e, b : Wrote(x, WriteBlock(x, key, block), key, block, n, e, b)
<1>0. PICK y, h, n, size, kl : /\ y = WriteBlock(x, key, block) /\ h = WriteHeader(x) /\ n = h.n
                               /\ size = ChecksumSize + BlockLen(block) /\ kl = KeyLen(key)
  OBVIOUS
<1>00. PICK e, b : /\ e = [min |-> MinTime(block), max |-> MaxTime(block), offset |-> n, size |-> size]
                   /\ b = [offset |-> n, size |-> size, points |-> block]
  OBVIOUS
<1>1. block # <<>> /\ BlockLen(block) \in Nat /\ MinTime(block) \in Int64 /\ MaxTime(block) \in Int64
  BY BlockFacts
<1>2. size \in Nat \ {0} /\ kl \in Nat
  BY <1>0, <1>1 DEF ChecksumSize
<1>3. PICK a : a = Add(h, key, e) /\ y = [a EXCEPT !.blocks = Append(@, b), !.n = @ + size]
  <2>1. y = [Add(h, key, e) EXCEPT !.blocks = Append(@, b), !.n = @ + size]
    BY <1>0, <1>00, <1>1 DEF WriteBlock
  <2> QED  BY <2>1, Zenon
<1>4. ASSUME n \in Nat PROVE e \in FileEntry /\ b \in FileBlock
  BY <1>00, <1>1, <1>2, <1>4 DEF FileEntry, FileBlock
<1>5. /\ e.offset = n /\ e.size = size /\ e.min = MinTime(block) /\ e.max = MaxTime(block)
      /\ b.offset = n /\ b.size = size /\ b.points = block
  BY <1>00
<1>6. ASSUME IsRec(a)
      PROVE  /\ y = Rec(a.n + size, Append(a.blocks, b), a.key, a.entries, a.sections, a.size, a.keyCount)
             /\ y.n = a.n + size /\ y.blocks = Append(a.blocks, b) /\ y.key = a.key /\ y.entries = a.entries
             /\ y.sections = a.sections /\ y.size = a.size /\ y.keyCount = a.keyCount
  <2>1. y = Rec(a.n + size, Append(a.blocks, b), a.key, a.entries, a.sections, a.size, a.keyCount)
    BY <1>3, <1>6, RecBlock, Zenon
  <2>2. PICK p, q : p = a.n + size /\ q = Append(a.blocks, b)
    OBVIOUS
  <2>3. y = Rec(p, q, a.key, a.entries, a.sections, a.size, a.keyCount)
    BY <2>1, <2>2, Zenon
  <2>4. /\ y.n = p /\ y.blocks = q /\ y.key = a.key /\ y.entries = a.entries
        /\ y.sections = a.sections /\ y.size = a.size /\ y.keyCount = a.keyCount
    BY <2>3 DEF Rec
  <2> QED  BY <2>1, <2>2, <2>4, Zenon
<1>7. CASE x = NewSSTWriter
  <2>1. /\ x = Rec(0, <<>>, NoKey, <<>>, <<>>, 0, 0)
        /\ x.n = 0 /\ x.key = NoKey /\ x.blocks = <<>> /\ Secs(x) = <<>>
    BY <1>7 DEF NewSSTWriter, Secs, Rec
  <2>2. h = Rec(HeaderSize, <<>>, NoKey, <<>>, <<>>, 0, 0)
    <3>1. h = [x EXCEPT !.n = HeaderSize]
      BY <1>0, <2>1 DEF WriteHeader
    <3> QED  BY <2>1, <3>1 DEF Rec
  <2>3. /\ n = 5 /\ h.n = HeaderSize /\ h.blocks = <<>> /\ h.key = NoKey /\ h.entries = <<>> /\ h.sections = <<>>
        /\ h.size = 0 /\ h.keyCount = 0 /\ IsRec(h)
    <3>1. /\ h.n = HeaderSize /\ h.blocks = <<>> /\ h.key = NoKey /\ h.entries = <<>> /\ h.sections = <<>>
          /\ h.size = 0 /\ h.keyCount = 0 /\ IsRec(h)
      BY <2>2, RecFacts
    <3> QED  BY <1>0, <3>1 DEF HeaderSize
  <2>4. a = NewSection(h, key, e)
    BY <1>3, <2>3 DEF Add
  <2>5. a = Rec(HeaderSize, <<>>, key, Append(<<>>, e), <<>>, 0 + 2 + KeyLen(key) + 2 + EntrySize, 0 + 1)
    <3>1. a = Rec(h.n, h.blocks, key, Append(h.entries, e), h.sections, h.size + 2 + KeyLen(key) + 2 + EntrySize, h.keyCount + 1)
      BY <2>3, <2>4, RecNew, Zenon
    <3> QED  BY <2>3, <3>1, Zenon
  <2>6. /\ a.n = HeaderSize /\ a.blocks = <<>> /\ a.key = key /\ a.entries = Append(<<>>, e) /\ a.sections = <<>>
        /\ a.size = 0 + 2 + KeyLen(key) + 2 + EntrySize /\ a.keyCount = 0 + 1 /\ IsRec(a)
    BY <2>5, RecFacts
  <2>7. e \in FileEntry /\ b \in FileBlock
    BY <1>4, <2>3
  <2>8. Append(<<>>, e) = <<e>> /\ <<e>> \in Seq(FileEntry) /\ Append(<<>>, b) \in Seq(FileBlock) /\ <<>> \in Seq(FileSection)
    BY <2>7
  <2>9. /\ HeaderSize + size \in Nat /\ 0 + 2 + KeyLen(key) + 2 + EntrySize \in Nat /\ 0 + 1 \in Nat /\ 0 + 1 # 0
        /\ HeaderSize + size = n + size
    BY <1>2, <2>3 DEF HeaderSize, EntrySize
  <2>10. /\ y.n = HeaderSize + size /\ y.blocks = Append(<<>>, b) /\ y.key = key /\ y.entries = <<e>>
         /\ y.sections = <<>> /\ y.size = 0 + 2 + KeyLen(key) + 2 + EntrySize /\ y.keyCount = 0 + 1
         /\ y = Rec(y.n, y.blocks, y.key, y.entries, y.sections, y.size, y.keyCount)
    BY <1>6, <2>6, <2>8
  <2>11. y \in Writer
    BY <2>8, <2>9, <2>10 DEF Writer, Rec
  <2>12. n \in Nat /\ x.n <= n /\ n # 0 /\ x.key # key
    BY <2>1, <2>3
  <2>13. y.keyCount # 0 /\ y.blocks = Append(x.blocks, b) /\ y.sections = Secs(x) /\ y.n = n + size
    BY <2>1, <2>9, <2>10
  <2>14. Wrote(x, y, key, block, n, e, b)
    BY <1>2, <1>5, <2>7, <2>10, <2>11, <2>12, <2>13 DEF Wrote
  <2> QED  BY <1>0, <2>14
<1>8. CASE x # NewSSTWriter
  <2>1. x \in Writer /\ x.key # NoKey /\ x.keyCount # 0 /\ x.n # 0
    BY <1>8 DEF WriterOK
  <2>2. /\ IsRec(x)
        /\ x.n \in Nat /\ x.blocks \in Seq(FileBlock) /\ x.key \in Nat /\ x.entries \in Seq(FileEntry)
        /\ x.sections \in Seq(FileSection) /\ x.size \in Nat /\ x.keyCount \in Nat
    BY <2>1, WriterFields DEF IsRec, Rec
  <2>3. h = x /\ n = x.n
    BY <1>0, <2>1 DEF WriteHeader
  <2>4. e \in FileEntry /\ b \in FileBlock
    BY <1>4, <2>2, <2>3
  <2>5. PICK s, c : s = x.size /\ c = x.keyCount
    OBVIOUS
  <2>6. s \in Nat /\ c \in Nat /\ c # 0 /\ n \in Nat /\ n # 0 /\ n <= n
    BY <2>1, <2>2, <2>3, <2>5
  <2>7. /\ n + size \in Nat /\ s + EntrySize \in Nat /\ s + 2 + KeyLen(key) + 2 + EntrySize \in Nat
        /\ c + 1 \in Nat /\ c + 1 # 0
    <3>1. s + 2 + kl + 2 + EntrySize \in Nat
      BY <1>2, <2>6 DEF EntrySize
    <3>2. KeyLen(key) = kl
      BY <1>0
    <3>3. n + size \in Nat /\ s + EntrySize \in Nat /\ c + 1 \in Nat /\ c + 1 # 0
      BY <1>2, <2>6 DEF EntrySize
    <3> QED  BY <3>1, <3>2, <3>3, Zenon
  <2>8. Append(x.blocks, b) \in Seq(FileBlock) /\ Append(x.entries, e) \in Seq(FileEntry) /\ <<e>> \in Seq(FileEntry)
    BY <2>2, <2>4
  <2>9. CASE x.key = key
    <3>1. a = [x EXCEPT !.entries = Append(@, e), !.size = @ + EntrySize]
      BY <1>3, <2>1, <2>3, <2>9 DEF Add
    <3>2. a = Rec(x.n, x.blocks, x.key, Append(x.entries, e), x.sections, x.size + EntrySize, x.keyCount)
      BY <2>2, <3>1, RecMore, Zenon
    <3>3. /\ a.n = n /\ a.blocks = x.blocks /\ a.key = key /\ a.entries = Append(x.entries, e)
          /\ a.sections = x.sections /\ a.size = s + EntrySize /\ a.keyCount = c /\ IsRec(a)
      <4>1. PICK p, q : p = Append(x.entries, e) /\ q = x.size + EntrySize
        OBVIOUS
      <4>2. a = Rec(x.n, x.blocks, x.key, p, x.sections, q, x.keyCount)
        BY <3>2, <4>1, Zenon
      <4>3. /\ a.n = x.n /\ a.blocks = x.blocks /\ a.key = x.key /\ a.entries = p
            /\ a.sections = x.sections /\ a.size = q /\ a.keyCount = x.keyCount /\ IsRec(a)
        BY <4>2 DEF Rec, IsRec
      <4> QED  BY <2>3, <2>5, <2>9, <4>1, <4>3, Zenon
    <3>4. /\ y.n = n + size /\ y.blocks = Append(x.blocks, b) /\ y.key = key /\ y.entries = Append(x.entries, e)
          /\ y.sections = x.sections /\ y.size = s + EntrySize /\ y.keyCount = c
          /\ y = Rec(y.n, y.blocks, y.key, y.entries, y.sections, y.size, y.keyCount)
      BY <1>6, <3>3
    <3>5. y \in Writer
      BY <2>2, <2>6, <2>7, <2>8, <3>4 DEF Writer, Rec
    <3>6. Wrote(x, y, key, block, n, e, b)
      BY <1>2, <1>5, <2>3, <2>4, <2>6, <2>9, <3>4, <3>5 DEF Wrote
    <3> QED  BY <1>0, <3>6
  <2>10. CASE x.key # key
    <3>1. PICK g : g = FlushKey(x)
      OBVIOUS
    <3>2. g = [x EXCEPT !.sections = Secs(x), !.key = NoKey, !.entries = <<>>]
      <4>1. Len(x.entries) <= MaxIndexEntries
        <5>1. Len(x.entries) \in Nat
          BY <2>2
        <5> QED  BY <5>1, SSTAssumption
      <4> QED  BY <1>8, <2>1, <3>1, <4>1, FlushFacts, Zenon
    <3>3. g = Rec(x.n, x.blocks, NoKey, <<>>, Secs(x), x.size, x.keyCount)
      BY <2>2, <3>2, RecFlush, Zenon
    <3>4. /\ g.n = n /\ g.blocks = x.blocks /\ g.entries = <<>> /\ g.sections = Secs(x) /\ g.size = s /\ g.keyCount = c
          /\ IsRec(g)
      BY <2>3, <2>5, <3>3, RecFacts
    <3>5. a = NewSection(g, key, e)
      BY <1>3, <2>1, <2>3, <2>10, <3>1 DEF Add
    <3>6. a = Rec(g.n, g.blocks, key, Append(g.entries, e), g.sections, g.size + 2 + KeyLen(key) + 2 + EntrySize, g.keyCount + 1)
      BY <3>4, <3>5, RecNew, Zenon
    <3>7. Append(<<>>, e) = <<e>>
      BY <2>4
    <3>8. /\ a.n = n /\ a.blocks = x.blocks /\ a.key = key /\ a.entries = <<e>> /\ a.sections = Secs(x)
          /\ a.size = s + 2 + KeyLen(key) + 2 + EntrySize /\ a.keyCount = c + 1 /\ IsRec(a)
      BY <3>4, <3>6, <3>7, RecFacts
    <3>9. /\ y.n = n + size /\ y.blocks = Append(x.blocks, b) /\ y.key = key /\ y.entries = <<e>>
          /\ y.sections = Secs(x) /\ y.size = s + 2 + KeyLen(key) + 2 + EntrySize /\ y.keyCount = c + 1
          /\ y = Rec(y.n, y.blocks, y.key, y.entries, y.sections, y.size, y.keyCount)
      BY <1>6, <3>8
    <3>10. Secs(x) \in Seq(FileSection)
      BY <1>8, <2>1, SecsFacts
    <3>11. y \in Writer
      BY <2>6, <2>7, <2>8, <3>9, <3>10 DEF Writer, Rec
    <3>12. Wrote(x, y, key, block, n, e, b)
      BY <1>2, <1>5, <2>3, <2>4, <2>6, <2>7, <2>10, <3>9, <3>11 DEF Wrote
    <3> QED  BY <1>0, <3>12
  <2> QED  BY <2>9, <2>10
<1> QED  BY <1>7, <1>8
(* An entry of a key among the sections. *)
Among(secs, k, e) == \E i \in DOMAIN secs : secs[i].key = k /\ \E j \in DOMAIN secs[i].entries : secs[i].entries[j] = e

(* What Precede says of them. *)
LEMMA PrecedeAmong ==
  ASSUME NEW secs, NEW k, NEW t
  PROVE  Precede(secs, k, t) <=> \A k2, e : Among(secs, k2, e) => k2 < k \/ (k2 = k /\ e.max < t)
  BY DEF Precede, Among

(* The entries among the sections and one more. *)
LEMMA AmongAppend ==
  ASSUME NEW T, NEW secs \in Seq(T), NEW s \in T, NEW k, NEW e
  PROVE  Among(Append(secs, s), k, e) <=>
            Among(secs, k, e) \/ (s.key = k /\ \E j \in DOMAIN s.entries : s.entries[j] = e)
<1> PICK new, l : new = Append(secs, s) /\ l = Len(secs)
  OBVIOUS
<1>1. /\ DOMAIN new = 1..(l + 1) /\ DOMAIN secs = 1..l /\ l \in Nat /\ new[l + 1] = s
      /\ \A i \in 1..l : new[i] = secs[i] /\ i \in 1..(l + 1)
      /\ \A i : i \in 1..(l + 1) <=> i \in 1..l \/ i = l + 1
  BY Appended
<1> QED  BY <1>1 DEF Among

(* After a block is written: the sections are those before it and an entry more. *)
LEMMA WriteKeeps ==
  ASSUME NEW x, WriterOK(x), NEW key \in Nat \ {NoKey}, KeyLen(key) \in Nat, NEW block \in InputBlocks,
         Precede(Secs(x), key, MinTime(block)), NEW y, NEW n, NEW e, NEW b, Wrote(x, y, key, block, n, e, b)
  PROVE  /\ WriterOK(y) /\ y # NewSSTWriter
         /\ \A k, en : Among(Secs(y), k, en) <=> Among(Secs(x), k, en) \/ (k = key /\ en = e)
<1>1. /\ n \in Nat /\ x.n <= n /\ n # 0 /\ b \in FileBlock /\ e \in FileEntry
      /\ b.offset = n /\ b.points = block /\ b.size \in Nat \ {0}
      /\ e.offset = n /\ e.size = b.size /\ e.min = MinTime(block) /\ e.max = MaxTime(block)
      /\ y \in Writer /\ y.keyCount # 0 /\ y.key = key /\ y.blocks = Append(x.blocks, b) /\ y.n = n + b.size
      /\ x.key # key => y.sections = Secs(x) /\ y.entries = <<e>>
      /\ x.key = key => y.sections = x.sections /\ y.entries = Append(x.entries, e)
  BY DEF Wrote
<1>2. y.n \in Nat /\ y.n # 0 /\ n < y.n
  <2> PICK s : s = b.size
    OBVIOUS
  <2>1. s \in Nat \ {0} /\ y.n = n + s
    BY <1>1
  <2> QED  BY <1>1, <2>1
<1>3. y # NewSSTWriter /\ y.key # NoKey
  BY <1>1 DEF NewSSTWriter
<1>4. /\ x.n \in Nat /\ x.blocks \in Seq(FileBlock) /\ BlocksOK(x.blocks, x.n)
      /\ Secs(x) \in Seq(FileSection) /\ SectionsOK(Secs(x), x.blocks)
  <2>1. CASE x = NewSSTWriter
    <3>1. x.n = 0 /\ x.blocks = <<>> /\ Secs(x) = <<>>
      BY <2>1 DEF NewSSTWriter, Secs
    <3>2. <<>> \in Seq(FileBlock) /\ <<>> \in Seq(FileSection) /\ Len(<<>>) = 0 /\ DOMAIN <<>> = 1..0
      OBVIOUS
    <3>3. BlocksOK(<<>>, 0)
      BY <3>2 DEF BlocksOK
    <3>4. SectionsOK(<<>>, <<>>)
      BY <3>2 DEF SectionsOK
    <3> QED  BY <3>1, <3>2, <3>3, <3>4
  <2>2. CASE x # NewSSTWriter
    BY <2>2, WriterFields, SecsFacts DEF WriterOK
  <2> QED  BY <2>1, <2>2
<1>5. /\ BlocksOK(y.blocks, y.n)
      /\ \A es : EntriesOK(es, x.blocks) => EntriesOK(es, y.blocks)
  <2>1. n <= b.offset /\ x.n <= b.offset /\ b.offset < y.n
    BY <1>1, <1>2
  <2> QED  BY <1>1, <1>2, <1>4, <2>1, BlocksMore
<1>6. EntryOf(e, y.blocks, Len(y.blocks)) /\ Len(y.blocks) \in 1..Len(y.blocks)
  <2> PICK l : l = Len(x.blocks)
    OBVIOUS
  <2>1. l \in Nat /\ Len(y.blocks) = l + 1 /\ y.blocks[l + 1] = b
    BY <1>1, <1>4, Appended
  <2> QED  BY <1>1, <2>1 DEF EntryOf
<1>7. EntriesOK(<<e>>, y.blocks)
  <2>1. <<e>> \in Seq(FileEntry) /\ <<e>> # <<>> /\ Len(<<e>>) = 1 /\ <<e>>[1] = e
    BY <1>1
  <2>2. \A i, j \in 1..1 : ~(i < j)
    OBVIOUS
  <2>3. \A i \in 1..1 : i = 1
    OBVIOUS
  <2> QED  BY <1>6, <2>1, <2>2, <2>3 DEF EntriesOK
<1>8. SectionsOK(Secs(x), y.blocks)
  BY <1>4, <1>5 DEF SectionsOK
<1>9. PICK s : s = [key |-> key, entries |-> y.entries]
  OBVIOUS
<1>10. s \in FileSection /\ s.key = key /\ s.entries = y.entries /\ Secs(y) = Append(y.sections, s)
  <2>1. y.entries \in Seq(FileEntry)
    BY <1>1, WriterFields
  <2>2. s \in FileSection /\ s.key = key /\ s.entries = y.entries
    BY <1>9, <2>1 DEF FileSection
  <2> QED  BY <1>1, <1>3, <1>9, <2>2 DEF Secs
<1>11. CASE x.key # key
  <2>1. y.sections = Secs(x) /\ y.entries = <<e>>
    BY <1>1, <1>11
  <2>2. \A i \in 1..Len(Secs(x)) : Secs(x)[i].key < key
    <3> SUFFICES ASSUME NEW i \in 1..Len(Secs(x)) PROVE Secs(x)[i].key < key
      OBVIOUS
    <3>1. CASE x = NewSSTWriter
      <4>1. Secs(x) = <<>>
        BY <3>1 DEF NewSSTWriter, Secs
      <4> QED  BY <4>1
    <3>2. CASE x # NewSSTWriter
      <4>1. PICK sx, l : sx = [key |-> x.key, entries |-> x.entries] /\ l = Len(x.sections)
        OBVIOUS
      <4>2. x.sections \in Seq(FileSection) /\ Secs(x) = Append(x.sections, sx) /\ sx \in FileSection
        BY <3>2, <4>1, WriterFields, SecsFacts DEF WriterOK
      <4>3. /\ l \in Nat /\ Len(Secs(x)) = l + 1 /\ DOMAIN Secs(x) = 1..(l + 1) /\ Secs(x)[l + 1] = sx
            /\ sx.key = x.key /\ sx.entries = x.entries
        BY <4>1, <4>2, Appended
      <4>4. x.entries # <<>> /\ x.entries \in Seq(FileEntry)
        BY <3>2, SecsFacts DEF WriterOK, EntriesOK
      <4>5. 1 \in DOMAIN x.entries /\ l + 1 \in 1..(l + 1)
        BY <4>3, <4>4
      <4>6. x.key < key
        BY <1>11, <4>3, <4>5 DEF Precede
      <4>7. i = l + 1 \/ i < l + 1
        BY <4>3
      <4>8. \A p, q \in 1..Len(Secs(x)) : p < q => Secs(x)[p].key < Secs(x)[q].key
        BY <1>4 DEF SectionsOK
      <4>9. i < l + 1 => Secs(x)[i].key < x.key
        BY <4>3, <4>5, <4>8
      <4>10. Secs(x)[i].key \in Nat /\ x.key \in Nat
        BY <1>4, <4>3, <4>5 DEF SectionsOK
      <4> QED  BY <4>3, <4>6, <4>7, <4>9, <4>10
    <3> QED  BY <3>1, <3>2
  <2>3. SectionsOK(Secs(y), y.blocks)
    BY <1>4, <1>7, <1>8, <1>10, <2>1, <2>2, SectionsMore
  <2>4. ASSUME NEW k, NEW en PROVE Among(Secs(y), k, en) <=> Among(Secs(x), k, en) \/ (k = key /\ en = e)
    <3>1. Among(Secs(y), k, en) <=> Among(Secs(x), k, en) \/ (s.key = k /\ \E j \in DOMAIN s.entries : s.entries[j] = en)
      <4>1. Among(Append(Secs(x), s), k, en) <=> Among(Secs(x), k, en) \/ (s.key = k /\ \E j \in DOMAIN s.entries : s.entries[j] = en)
        BY <1>4, <1>10, AmongAppend
      <4> QED  BY <1>10, <2>1, <4>1, Zenon
    <3>2. DOMAIN <<e>> = {1} /\ <<e>>[1] = e
      OBVIOUS
    <3> QED  BY <1>10, <2>1, <3>1, <3>2
  <2> QED  BY <1>1, <1>2, <1>3, <1>5, <2>3, <2>4 DEF WriterOK
<1>12. CASE x.key = key
  <2>1. y.sections = x.sections /\ y.entries = Append(x.entries, e)
    BY <1>1, <1>12
  <2>2. x # NewSSTWriter /\ x \in Writer
    BY <1>12 DEF NewSSTWriter, WriterOK
  <2>3. PICK sx, l : sx = [key |-> x.key, entries |-> x.entries] /\ l = Len(x.entries)
    OBVIOUS
  <2>4. /\ x.sections \in Seq(FileSection) /\ Secs(x) = Append(x.sections, sx) /\ sx \in FileSection
        /\ x.entries \in Seq(FileEntry) /\ sx.key = key /\ sx.entries = x.entries
    BY <1>12, <2>2, <2>3, WriterFields, SecsFacts
  <2>5. /\ SectionsOK(x.sections, y.blocks) /\ (\A i \in 1..Len(x.sections) : x.sections[i].key < key)
        /\ EntriesOK(x.entries, y.blocks)
    BY <1>8, <2>4, SectionsLess
  <2>6. /\ y.entries \in Seq(FileEntry) /\ y.entries # <<>> /\ Len(y.entries) = l + 1 /\ l \in Nat
        /\ y.entries[l + 1] = e /\ DOMAIN y.entries = 1..(l + 1) /\ DOMAIN x.entries = 1..l
        /\ \A i \in 1..l : y.entries[i] = x.entries[i] /\ i \in 1..(l + 1)
        /\ \A i : i \in 1..(l + 1) <=> i \in 1..l \/ i = l + 1
    BY <1>1, <2>1, <2>3, <2>4, Appended
  <2>7. \A i \in 1..l : x.entries[i].max < e.min
    <3> SUFFICES ASSUME NEW i \in 1..l PROVE x.entries[i].max < e.min
      OBVIOUS
    <3>1. Among(Secs(x), key, x.entries[i])
      <4>1. Among(Append(x.sections, sx), key, x.entries[i])
        BY <2>4, <2>6, AmongAppend
      <4> QED  BY <2>4, <4>1
    <3>2. ~(key < key)
      OBVIOUS
    <3> QED  BY <1>1, <3>1, <3>2, PrecedeAmong
  <2>8. EntriesOK(y.entries, y.blocks)
    <3>1. \A i \in 1..l : \E p \in 1..Len(y.blocks) : EntryOf(x.entries[i], y.blocks, p)
      BY <2>3, <2>5 DEF EntriesOK
    <3>2. \A i \in 1..(l + 1) : \E p \in 1..Len(y.blocks) : EntryOf(y.entries[i], y.blocks, p)
      BY <1>6, <2>6, <3>1
    <3>3. ASSUME NEW i \in 1..(l + 1), NEW j \in 1..(l + 1), i < j PROVE y.entries[i].max < y.entries[j].min
      <4>1. i \in 1..l
        BY <2>6, <3>3
      <4>2. CASE j \in 1..l
        BY <2>3, <2>5, <2>6, <3>3, <4>1, <4>2 DEF EntriesOK
      <4>3. CASE j = l + 1
        BY <2>6, <2>7, <4>1, <4>3
      <4> QED  BY <2>6, <4>2, <4>3
    <3> QED  BY <2>6, <3>2, <3>3 DEF EntriesOK
  <2>9. SectionsOK(Secs(y), y.blocks)
    BY <1>10, <2>1, <2>4, <2>5, <2>8, SectionsMore
  <2>10. ASSUME NEW k, NEW en PROVE Among(Secs(y), k, en) <=> Among(Secs(x), k, en) \/ (k = key /\ en = e)
    <3>1. Among(Secs(y), k, en) <=> Among(x.sections, k, en) \/ (key = k /\ \E j \in 1..(l + 1) : y.entries[j] = en)
      <4>1. Among(Append(x.sections, s), k, en) <=> Among(x.sections, k, en) \/ (s.key = k /\ \E j \in DOMAIN s.entries : s.entries[j] = en)
        BY <1>10, <2>4, AmongAppend
      <4>2. Secs(y) = Append(x.sections, s) /\ DOMAIN s.entries = 1..(l + 1) /\ s.key = key /\ s.entries = y.entries
        BY <1>10, <2>1, <2>6
      <4> QED  BY <4>1, <4>2, Zenon
    <3>2. Among(Secs(x), k, en) <=> Among(x.sections, k, en) \/ (key = k /\ \E j \in 1..l : x.entries[j] = en)
      BY <2>4, <2>6, AmongAppend
    <3>3. (\E j \in 1..(l + 1) : y.entries[j] = en) <=> (\E j \in 1..l : x.entries[j] = en) \/ en = e
      BY <2>6
    <3> QED  BY <3>1, <3>2, <3>3, Zenon
  <2> QED  BY <1>1, <1>2, <1>3, <1>5, <2>9, <2>10 DEF WriterOK
<1> QED  BY <1>11, <1>12
(* What WriteIndex leaves of a writer. *)
Indexes(x, file) ==
    /\ FileOK(file) /\ file.blocks = x.blocks /\ DOMAIN file.index = DOMAIN Secs(x)
    /\ \A i \in DOMAIN Secs(x) : file.index[i].key = Secs(x)[i].key /\ file.index[i].entries = Secs(x)[i].entries

(* sstWriter.WriteIndex: the sections in their order, each where the one before it ends. *)
LEMMA WriteIndexOK ==
  ASSUME NEW x, WriterOK(x), x # NewSSTWriter, Len(x.entries) <= MaxIndexEntries
  PROVE  Indexes(x, WriteIndex(x))
<1>1. /\ x \in Writer /\ BlocksOK(x.blocks, x.n) /\ SectionsOK(Secs(x), x.blocks) /\ x.n \in Nat
      /\ x.sections \in Seq(FileSection)
  BY WriterFields DEF WriterOK
<1>2. IsRec(x)
  BY <1>1, WriterFields DEF IsRec, Rec
<1>3. PICK done : done = FlushKey(x)
  OBVIOUS
<1>4. done.blocks = x.blocks /\ done.sections = Secs(x)
  <2>1. done = Rec(x.n, x.blocks, NoKey, <<>>, Secs(x), x.size, x.keyCount)
    <3>1. [x EXCEPT !.sections = Secs(x), !.key = NoKey, !.entries = <<>>] =
             Rec(x.n, x.blocks, NoKey, <<>>, Secs(x), x.size, x.keyCount)
      BY <1>2, RecFlush, Zenon
    <3>2. FlushKey(x) = [x EXCEPT !.sections = Secs(x), !.key = NoKey, !.entries = <<>>]
      BY <1>1, FlushFacts, Zenon
    <3> QED  BY <1>3, <3>1, <3>2, Zenon
  <2> QED  BY <2>1, RecFacts
<1>5. PICK secs, ends, n : secs = Secs(x) /\ ends = SectionEnds(secs) /\ n = Len(secs)
  OBVIOUS
<1>6. PICK file : file = WriteIndex(x)
  OBVIOUS
<1>7. file = [blocks |-> x.blocks, index |-> Placed(secs), indexPos |-> x.n, indexLen |-> ends[n]]
  BY <1>3, <1>4, <1>5, <1>6 DEF WriteIndex
<1>8. file.blocks = x.blocks /\ file.index = Placed(secs) /\ file.indexLen = ends[n]
  BY <1>7
<1>9. /\ n \in Nat /\ DOMAIN secs = 1..n /\ Len(secs) = n
      /\ \A i \in 1..n : SectionLen(secs[i]) \in Nat \ {0}
  BY <1>1, <1>5, LenFacts DEF SectionsOK
<1>10. n # 0
  <2>1. PICK s : s = [key |-> x.key, entries |-> x.entries]
    OBVIOUS
  <2>2. secs = Append(x.sections, s) /\ s \in FileSection
    BY <1>1, <1>5, <2>1, SecsFacts
  <2>3. Len(secs) = Len(x.sections) + 1 /\ Len(x.sections) \in Nat
    BY <1>1, <2>2, Appended
  <2> QED  BY <1>5, <2>3
<1>11. /\ \A i \in 0..n : ends[i] \in Nat
       /\ ends[0] = 0
       /\ \A i \in 1..n : ends[i] = ends[i - 1] + SectionLen(secs[i])
  BY <1>5, <1>9, EndsFacts
<1>12. PICK g : g = file.index
  OBVIOUS
<1>13. g = [i \in 1..n |-> [ofs |-> ends[i - 1], key |-> secs[i].key, entries |-> secs[i].entries]]
  BY <1>5, <1>8, <1>12 DEF Placed
<1>14. DOMAIN g = 1..n /\ Len(g) = n
  BY <1>9, <1>13
<1>15. \A i \in 1..n : /\ g[i] = [ofs |-> g[i].ofs, key |-> g[i].key, entries |-> g[i].entries]
                      /\ g[i].ofs = ends[i - 1] /\ g[i].key = secs[i].key /\ g[i].entries = secs[i].entries
  BY <1>13
<1>16. SectionsOK(g, x.blocks)
  BY <1>1, <1>5, <1>9, <1>14, <1>15 DEF SectionsOK
<1>17. \A i \in 1..n : SectionLen(g[i]) = SectionLen(secs[i])
  BY <1>15 DEF SectionLen
<1>18. g[1].ofs = 0
  <2>1. 1 \in 1..n /\ 1 - 1 = 0
    BY <1>9, <1>10
  <2>2. g[1].ofs = ends[1 - 1]
    BY <1>15, <2>1
  <2> QED  BY <1>11, <2>1, <2>2
<1>19. \A i \in 1..n : (IF i = n THEN file.indexLen ELSE g[i + 1].ofs) = g[i].ofs + SectionLen(g[i])
  <2> SUFFICES ASSUME NEW i \in 1..n
               PROVE  (IF i = n THEN file.indexLen ELSE g[i + 1].ofs) = g[i].ofs + SectionLen(g[i])
    OBVIOUS
  <2>1. g[i].ofs + SectionLen(g[i]) = ends[i]
    BY <1>11, <1>15, <1>17
  <2>2. i # n => i + 1 \in 1..n /\ (i + 1) - 1 = i
    BY <1>9
  <2>3. i # n => g[i + 1].ofs = ends[i]
    BY <1>15, <2>2
  <2> QED  BY <1>8, <2>1, <2>3
<1>20. FileOK(file)
  BY <1>1, <1>8, <1>10, <1>12, <1>14, <1>15, <1>16, <1>18, <1>19 DEF FileOK
<1>21. Indexes(x, file)
  BY <1>5, <1>8, <1>9, <1>12, <1>14, <1>15, <1>20 DEF Indexes
<1> QED  BY <1>6, <1>21

(* The same entries come before the same. *)
LEMMA SamePrecede ==
  ASSUME NEW x, NEW file, Indexes(x, file)
  PROVE  /\ \A k, t : Precede(file.index, k, t) <=> Precede(Secs(x), k, t)
         /\ \A other : PrecedeAll(other, file.index) <=> PrecedeAll(other, Secs(x))
  BY DEF Indexes, Precede, PrecedeAll
-----------------------------------------------------------------------------
(* What is written stays in order *)

LEMMA WriteInit ==
  ASSUME Init
  PROVE  WriteInv
<1>1. /\ input \in Inputs /\ todo = input /\ w = NewSSTWriter /\ full = FALSE /\ files = <<>> /\ opens = 0
      /\ idx = <<>> /\ tfile = <<>> /\ pending = <<>> /\ asked = {} /\ del = Idle /\ iter = NoIter
  BY DEF Init
<1>2. input \in Seq(Range(input))
  BY <1>1, SSTAssumption DEF Ordered
<1>3. PICK n : n = Len(input)
  OBVIOUS
<1>4. n \in Nat /\ DOMAIN input = 1..n
  BY <1>2, <1>3
<1>5. \A i \in 1..n : n - n + i = i
  BY <1>4
<1>6. TodoOK
  BY <1>1, <1>2, <1>3, <1>4, <1>5 DEF TodoOK
<1>7. w.entries = <<>> /\ Secs(w) = <<>> /\ WriterOK(w)
  BY <1>1 DEF NewSSTWriter, Secs, WriterOK
<1>8. MaxIndexEntries \in Nat \ {0}
  BY SSTAssumption
<1>9. Len(w.entries) < MaxIndexEntries /\ Len(w.entries) <= MaxIndexEntries
  BY <1>7, <1>8
<1>10. DOMAIN files = {} /\ files \in Seq(Range(files)) /\ DOMAIN Secs(w) = {}
  BY <1>1, <1>7
<1>11. \A k, t : Precede(Secs(w), k, t)
  BY <1>10 DEF Precede
<1>12. opens \in Nat /\ ~(opens > 0) /\ full \in BOOLEAN /\ ~full
  <2>1. opens \in Nat /\ ~(opens > 0)
    BY <1>1
  <2>2. full \in BOOLEAN /\ ~full
    BY <1>1, Zenon
  <2> QED  BY <2>1, <2>2, Zenon
<1>13. /\ \A f \in DOMAIN files : FileOK(files[f]) /\ PrecedeAll(files[f].index, Secs(w))
       /\ \A f, g \in DOMAIN files : f < g => PrecedeAll(files[f].index, files[g].index)
       /\ \A i \in 1..Len(todo) :
             /\ Precede(Secs(w), todo[i].key, MinTime(todo[i].block))
             /\ \A f \in DOMAIN files : Precede(files[f].index, todo[i].key, MinTime(todo[i].block))
  BY <1>10, <1>11, Zenon
<1> QED  BY <1>1, <1>6, <1>7, <1>9, <1>10, <1>12, <1>13, Zenon DEF WriteInv

(* The blocks to come are in order. *)
LEMMA TodoFacts ==
  ASSUME TodoOK
  PROVE  /\ \A i \in 1..Len(todo) :
               /\ todo[i].key \in Nat \ {NoKey} /\ KeyLen(todo[i].key) \in Nat /\ todo[i].block \in InputBlocks
         /\ \A i, j \in 1..Len(todo) : i < j =>
               \/ todo[i].key < todo[j].key
               \/ todo[i].key = todo[j].key /\ MaxTime(todo[i].block) < MinTime(todo[j].block)
<1>1. PICK n, m : n = Len(input) /\ m = Len(todo)
  OBVIOUS
<1>2. Ordered(input) /\ input \in Inputs
  BY SSTAssumption DEF TodoOK
<1>3. n \in Nat /\ DOMAIN input = 1..n /\ m \in Nat /\ m <= n /\ \A i \in 1..m : todo[i] = input[n - m + i]
  <2>1. input \in Seq(Range(input))
    BY <1>2 DEF Ordered
  <2>2. n \in Nat /\ DOMAIN input = 1..n
    BY <1>1, <2>1
  <2> QED  BY <1>1, <2>2 DEF TodoOK
<1>4. /\ \A i \in 1..m : n - m + i \in DOMAIN input
      /\ \A i, j \in 1..m : i < j => n - m + i < n - m + j
  BY <1>3
<1>5. \A i \in DOMAIN input :
         input[i].key \in Nat \ {NoKey} /\ KeyLen(input[i].key) \in Nat /\ input[i].block \in InputBlocks
  BY <1>2 DEF Ordered, InputBlocks
<1>6. \A i, j \in DOMAIN input : i < j =>
          \/ input[i].key < input[j].key
          \/ input[i].key = input[j].key /\ MaxTime(input[i].block) < MinTime(input[j].block)
  BY <1>2 DEF Ordered
<1>7. ASSUME NEW i \in 1..m
      PROVE  todo[i].key \in Nat \ {NoKey} /\ KeyLen(todo[i].key) \in Nat /\ todo[i].block \in InputBlocks
  <2>1. PICK x \in DOMAIN input : todo[i] = input[x]
    BY <1>3, <1>4
  <2> QED  BY <1>5, <2>1
<1>8. ASSUME NEW i \in 1..m, NEW j \in 1..m, i < j
      PROVE  \/ todo[i].key < todo[j].key
             \/ todo[i].key = todo[j].key /\ MaxTime(todo[i].block) < MinTime(todo[j].block)
  <2>1. PICK x \in DOMAIN input, y \in DOMAIN input : todo[i] = input[x] /\ todo[j] = input[y] /\ x < y
    BY <1>3, <1>4, <1>8
  <2> QED  BY <1>6, <2>1
<1> QED  BY <1>1, <1>7, <1>8

(* One block leaves the rest of the input. *)
LEMMA TodoTail ==
  ASSUME TodoOK, todo # <<>>, todo' = Tail(todo), input' = input
  PROVE  /\ TodoOK' /\ Len(todo') = Len(todo) - 1 /\ Len(todo) \in Nat \ {0}
         /\ \A i \in 1..Len(todo') : todo'[i] = todo[i + 1] /\ i + 1 \in 1..Len(todo) /\ 1 < i + 1
<1>1. PICK n, m : n = Len(input) /\ m = Len(todo)
  OBVIOUS
<1>2. /\ todo \in Seq(Range(input)) /\ m \in Nat \ {0} /\ m <= n /\ input \in Inputs
      /\ \A i \in 1..m : todo[i] = input[n - m + i]
  BY <1>1 DEF TodoOK
<1>3. n \in Nat
  BY <1>1, <1>2, SSTAssumption DEF Ordered
<1>4. /\ todo' \in Seq(Range(input)) /\ Len(todo') = m - 1 /\ DOMAIN todo' = 1..(m - 1)
      /\ \A i \in 1..(m - 1) : todo'[i] = todo[i + 1]
  BY <1>1, <1>2
<1>5. \A i \in 1..(m - 1) : i + 1 \in 1..m /\ 1 < i + 1 /\ n - m + (i + 1) = n - (m - 1) + i
  BY <1>2, <1>3
<1>6. m - 1 \in Nat /\ m - 1 <= n
  BY <1>2, <1>3
<1>7. \A i \in 1..(m - 1) : todo'[i] = input[n - (m - 1) + i]
  BY <1>2, <1>4, <1>5
<1>8. TodoOK'
  BY <1>1, <1>2, <1>4, <1>6, <1>7 DEF TodoOK
<1> QED  BY <1>1, <1>2, <1>4, <1>5, <1>8

(* Compactor.write: one more block. *)
LEMMA WriteNextOK ==
  ASSUME WriteInv, WriteNext
  PROVE  WriteInv'
<1>1. /\ todo # <<>> /\ ~full /\ todo' = Tail(todo) /\ input' = input /\ files' = files
      /\ tfile' = tfile /\ pending' = pending /\ idx' = idx /\ del' = del /\ iter' = iter /\ asked' = asked
      /\ opens' = opens
      /\ w' = WriteBlock(w, todo[1].key, todo[1].block)
      /\ full' = (MaxBlocksExceeded(w', todo[1].key) \/ SizeOf(w') > MaxFileSize)
  BY DEF WriteNext, readers
<1>2. opens = 0
  BY <1>1 DEF WriteInv
<1>3. PICK key, block : key = todo[1].key /\ block = todo[1].block
  OBVIOUS
<1>4. /\ TodoOK' /\ Len(todo) \in Nat \ {0} /\ Len(todo') = Len(todo) - 1
      /\ \A i \in 1..Len(todo') : todo'[i] = todo[i + 1] /\ i + 1 \in 1..Len(todo) /\ 1 < i + 1
  BY <1>1, TodoTail DEF WriteInv
<1>5. 1 \in 1..Len(todo)
  BY <1>4
<1>6. key \in Nat \ {NoKey} /\ KeyLen(key) \in Nat /\ block \in InputBlocks
  BY <1>3, <1>5, TodoFacts DEF WriteInv
<1>7. WriterOK(w) /\ Len(w.entries) < MaxIndexEntries /\ Precede(Secs(w), key, MinTime(block))
  BY <1>1, <1>3, <1>5 DEF WriteInv
<1>8. PICK n, e, b : Wrote(w, w', key, block, n, e, b)
  BY <1>1, <1>3, <1>6, <1>7, WriteShape
<1>9. /\ WriterOK(w') /\ w' # NewSSTWriter
      /\ \A k, en : Among(Secs(w'), k, en) <=> Among(Secs(w), k, en) \/ (k = key /\ en = e)
  BY <1>6, <1>7, <1>8, WriteKeeps
<1>10. e.min = MinTime(block) /\ e.max = MaxTime(block) /\ w'.key = key
  BY <1>8 DEF Wrote
<1>11. full' \in BOOLEAN
  BY <1>1
<1>12. /\ Len(w'.entries) <= MaxIndexEntries
       /\ ~full' => Len(w'.entries) < MaxIndexEntries
  <2>1. PICK m, l : m = MaxIndexEntries /\ l = Len(w.entries)
    OBVIOUS
  <2>2. m \in Nat \ {0} /\ l < m /\ (w'.entries = <<e>> \/ w'.entries = Append(w.entries, e)) /\ e \in FileEntry
    BY <1>7, <1>8, <2>1, SSTAssumption DEF Wrote
  <2>3. w.entries \in Seq(FileEntry)
    <3>1. w = NewSSTWriter => w.entries = <<>>
      BY DEF NewSSTWriter
    <3>2. <<>> \in Seq(FileEntry)
      OBVIOUS
    <3> QED  BY <1>7, <3>1, <3>2, WriterFields DEF WriterOK
  <2>4. l \in Nat /\ (Len(w'.entries) = 1 \/ Len(w'.entries) = l + 1)
    <3>1. l \in Nat /\ Len(Append(w.entries, e)) = l + 1 /\ Len(<<e>>) = 1
      BY <2>1, <2>2, <2>3
    <3>2. CASE w'.entries = <<e>>
      BY <3>1, <3>2
    <3>3. CASE w'.entries = Append(w.entries, e)
      BY <3>1, <3>3
    <3> QED  BY <2>2, <3>1, <3>2, <3>3
  <2>5. Len(w'.entries) \in Nat /\ Len(w'.entries) <= m
    <3>1. PICK l2 : l2 = Len(w'.entries)
      OBVIOUS
    <3>2. l \in Nat /\ (l2 = 1 \/ l2 = l + 1) /\ m \in Nat \ {0} /\ l < m
      BY <2>2, <2>4, <3>1
    <3>3. l2 \in Nat /\ l2 <= m
      BY <3>2
    <3> QED  BY <3>1, <3>3
  <2>6. ~full' => ~(Len(w'.entries) >= m)
    BY <1>1, <1>3, <1>10, <2>1 DEF MaxBlocksExceeded
  <2> QED  BY <2>1, <2>2, <2>5, <2>6
<1>13. \A i \in 1..Len(todo') :
          \/ key < todo'[i].key
          \/ key = todo'[i].key /\ MaxTime(block) < MinTime(todo'[i].block)
  <2> SUFFICES ASSUME NEW i \in 1..Len(todo')
               PROVE  \/ key < todo'[i].key
                      \/ key = todo'[i].key /\ MaxTime(block) < MinTime(todo'[i].block)
    OBVIOUS
  <2>1. PICK j \in 1..Len(todo) : todo'[i] = todo[j] /\ 1 < j
    BY <1>4
  <2>2. \/ todo[1].key < todo[j].key
        \/ todo[1].key = todo[j].key /\ MaxTime(todo[1].block) < MinTime(todo[j].block)
    BY <1>5, <2>1, TodoFacts DEF WriteInv
  <2> QED  BY <1>3, <2>1, <2>2
<1>14. \A i \in 1..Len(todo') : /\ Precede(Secs(w'), todo'[i].key, MinTime(todo'[i].block))
                               /\ \A f \in DOMAIN files : Precede(files[f].index, todo'[i].key, MinTime(todo'[i].block))
  <2> SUFFICES ASSUME NEW i \in 1..Len(todo')
               PROVE  /\ Precede(Secs(w'), todo'[i].key, MinTime(todo'[i].block))
                      /\ \A f \in DOMAIN files : Precede(files[f].index, todo'[i].key, MinTime(todo'[i].block))
    OBVIOUS
  <2>1. /\ Precede(Secs(w), todo'[i].key, MinTime(todo'[i].block))
        /\ \A f \in DOMAIN files : Precede(files[f].index, todo'[i].key, MinTime(todo'[i].block))
    BY <1>4 DEF WriteInv
  <2>2. Precede(Secs(w'), todo'[i].key, MinTime(todo'[i].block))
    BY <1>9, <1>10, <1>13, <2>1, PrecedeAmong
  <2> QED  BY <2>1, <2>2
<1>15. \A f \in DOMAIN files : PrecedeAll(files[f].index, Secs(w'))
  <2> SUFFICES ASSUME NEW f \in DOMAIN files PROVE PrecedeAll(files[f].index, Secs(w'))
    OBVIOUS
  <2>1. PrecedeAll(files[f].index, Secs(w)) /\ Precede(files[f].index, key, MinTime(block))
    BY <1>2, <1>3, <1>5 DEF WriteInv
  <2>2. \A k, en : Among(Secs(w), k, en) => Precede(files[f].index, k, en.min)
    BY <2>1 DEF PrecedeAll, Among
  <2>3. \A k, en : Among(Secs(w'), k, en) => Precede(files[f].index, k, en.min)
    BY <1>9, <1>10, <2>1, <2>2
  <2> QED  BY <2>3 DEF PrecedeAll, Among
<1>16. /\ files \in Seq(Range(files)) /\ (\A f \in DOMAIN files : FileOK(files[f]))
       /\ (\A f, g \in DOMAIN files : f < g => PrecedeAll(files[f].index, files[g].index))
       /\ idx = <<>> /\ tfile = <<>> /\ pending = <<>> /\ asked = {} /\ del = Idle /\ iter = NoIter
  BY <1>2 DEF WriteInv
<1>17. opens' \in Nat /\ ~(opens' > 0) /\ opens' = 0
  BY <1>1, <1>2
<1> QED  BY <1>1, <1>4, <1>9, <1>11, <1>12, <1>14, <1>15, <1>16, <1>17 DEF WriteInv
(* One more file. *)
LEMMA FilesAppend ==
  ASSUME NEW fs, fs \in Seq(Range(fs)), NEW x
  PROVE  /\ Append(fs, x) \in Seq(Range(Append(fs, x))) /\ Len(fs) \in Nat /\ DOMAIN fs = 1..Len(fs)
         /\ \A f \in DOMAIN fs : Append(fs, x)[f] = fs[f] /\ f \in DOMAIN Append(fs, x) /\ f < Len(fs) + 1
         /\ Append(fs, x)[Len(fs) + 1] = x
         /\ \A f \in DOMAIN Append(fs, x) : f \in DOMAIN fs \/ f = Len(fs) + 1
         /\ \A f, g \in DOMAIN Append(fs, x) : f < g => f \in DOMAIN fs
<1>1. PICK T : T = Range(fs) \cup {x}
  OBVIOUS
<1>2. fs \in Seq(T) /\ x \in T
  BY <1>1
<1>3. PICK n, gs : n = Len(fs) /\ gs = Append(fs, x)
  OBVIOUS
<1>4. /\ gs \in Seq(T) /\ n \in Nat /\ DOMAIN fs = 1..n /\ DOMAIN gs = 1..(n + 1) /\ gs[n + 1] = x
      /\ \A i \in 1..n : gs[i] = fs[i]
  BY <1>2, <1>3, Appended
<1>5. gs \in Seq(Range(gs))
  <2>1. Len(gs) = n + 1 /\ n + 1 \in Nat
    BY <1>2, <1>3, Appended
  <2>2. \A i \in 1..(n + 1) : gs[i] \in Range(gs)
    BY <1>4 DEF Range
  <2> QED  BY <1>4, <2>1, <2>2
<1>6. /\ \A f \in 1..n : f \in 1..(n + 1) /\ f < n + 1
      /\ \A f \in 1..(n + 1) : f \in 1..n \/ f = n + 1
      /\ \A f, g \in 1..(n + 1) : f < g => f \in 1..n
  BY <1>4
<1> QED  BY <1>3, <1>4, <1>5, <1>6

(* The file that is ended is in order with the ones before it. *)
LEMMA FilesMore ==
  ASSUME WriteInv, opens = 0, w # NewSSTWriter, files' = Append(files, WriteIndex(w))
  PROVE  /\ files' \in Seq(Range(files')) /\ \A f \in DOMAIN files' : FileOK(files'[f])
         /\ \A f, g \in DOMAIN files' : f < g => PrecedeAll(files'[f].index, files'[g].index)
         /\ \A i \in 1..Len(todo), f \in DOMAIN files' :
               Precede(files'[f].index, todo[i].key, MinTime(todo[i].block))
<1>1. PICK file, n : file = WriteIndex(w) /\ n = Len(files)
  OBVIOUS
<1>2. Indexes(w, file)
  BY <1>1, WriteIndexOK DEF WriteInv
<1>3. /\ files' \in Seq(Range(files'))
      /\ \A f \in DOMAIN files : files'[f] = files[f] /\ f \in DOMAIN files'
      /\ files'[n + 1] = file
      /\ \A f \in DOMAIN files' : f \in DOMAIN files \/ f = n + 1
      /\ \A f, g \in DOMAIN files' : f < g => f \in DOMAIN files
  BY <1>1, FilesAppend DEF WriteInv
<1>4. /\ \A f \in DOMAIN files : FileOK(files[f]) /\ PrecedeAll(files[f].index, Secs(w))
      /\ \A i \in 1..Len(todo) :
          /\ Precede(Secs(w), todo[i].key, MinTime(todo[i].block))
          /\ \A f \in DOMAIN files : Precede(files[f].index, todo[i].key, MinTime(todo[i].block))
      /\ \A f, g \in DOMAIN files : f < g => PrecedeAll(files[f].index, files[g].index)
  BY DEF WriteInv
<1>5. /\ FileOK(file) /\ (\A k, t : Precede(file.index, k, t) <=> Precede(Secs(w), k, t))
      /\ (\A other : PrecedeAll(other, file.index) <=> PrecedeAll(other, Secs(w)))
  BY <1>2, SamePrecede DEF Indexes
<1>6. \A f \in DOMAIN files' : FileOK(files'[f])
  BY <1>3, <1>4, <1>5
<1>7. \A f, g \in DOMAIN files' : f < g => PrecedeAll(files'[f].index, files'[g].index)
  BY <1>3, <1>4, <1>5
<1>8. \A i \in 1..Len(todo), f \in DOMAIN files' : Precede(files'[f].index, todo[i].key, MinTime(todo[i].block))
  BY <1>3, <1>4, <1>5
<1> QED  BY <1>3, <1>6, <1>7, <1>8

(* Compactor.writeNewFiles: a limit ends the file. *)
LEMMA EndFullOK ==
  ASSUME WriteInv, EndFull
  PROVE  WriteInv'
<1>1. /\ full /\ files' = Append(files, WriteIndex(w)) /\ w' = NewSSTWriter /\ full' = FALSE
      /\ input' = input /\ todo' = todo
      /\ tfile' = tfile /\ pending' = pending /\ idx' = idx /\ del' = del /\ iter' = iter /\ asked' = asked
      /\ opens' = opens
  BY DEF EndFull, readers
<1>2. opens \in Nat /\ ~(opens > 0) /\ w # NewSSTWriter
  BY <1>1 DEF WriteInv
<1>3. opens = 0
  BY <1>2
<1>4. /\ files' \in Seq(Range(files')) /\ \A f \in DOMAIN files' : FileOK(files'[f])
      /\ \A f, g \in DOMAIN files' : f < g => PrecedeAll(files'[f].index, files'[g].index)
      /\ \A i \in 1..Len(todo), f \in DOMAIN files' :
            Precede(files'[f].index, todo[i].key, MinTime(todo[i].block))
  BY <1>1, <1>2, <1>3, FilesMore
<1>5. w'.entries = <<>> /\ Secs(w') = <<>> /\ WriterOK(w')
  BY <1>1 DEF NewSSTWriter, Secs, WriterOK
<1>6. MaxIndexEntries \in Nat \ {0}
  BY SSTAssumption
<1>7. Len(w'.entries) < MaxIndexEntries /\ Len(w'.entries) <= MaxIndexEntries /\ DOMAIN Secs(w') = {}
  BY <1>5, <1>6
<1>8. (\A k, t : Precede(Secs(w'), k, t)) /\ (\A secs : PrecedeAll(secs, Secs(w')))
  BY <1>7 DEF Precede, PrecedeAll
<1>9. TodoOK'
  BY <1>1 DEF WriteInv, TodoOK
<1>10. full' \in BOOLEAN /\ ~full'
  BY <1>1, Zenon
<1>11. idx = <<>> /\ tfile = <<>> /\ pending = <<>> /\ asked = {} /\ del = Idle /\ iter = NoIter
  BY <1>3 DEF WriteInv
<1> QED  BY <1>1, <1>2, <1>4, <1>5, <1>7, <1>8, <1>9, <1>10, <1>11, Zenon DEF WriteInv

(* Compactor.write: the iterator has ended. *)
LEMMA EndLastOK ==
  ASSUME WriteInv, EndLast
  PROVE  WriteInv'
<1>1. /\ ~full /\ todo = <<>> /\ opens = 0 /\ opens' = 1 /\ input' = input /\ todo' = todo /\ w' = w /\ full' = full
      /\ files' = IF NoValues(w) THEN files ELSE Append(files, WriteIndex(w))
  BY DEF EndLast
<1>2. /\ files' \in Seq(Range(files')) /\ \A f \in DOMAIN files' : FileOK(files'[f])
      /\ \A f, g \in DOMAIN files' : f < g => PrecedeAll(files'[f].index, files'[g].index)
  <2>1. CASE NoValues(w)
    BY <1>1, <2>1 DEF WriteInv
  <2>2. CASE ~NoValues(w)
    <3>1. w # NewSSTWriter
      BY <2>2 DEF NoValues, NewSSTWriter
    <3> QED  BY <1>1, <2>2, <3>1, FilesMore
  <2> QED  BY <2>1, <2>2
<1>3. opens' \in Nat /\ opens' # 0 /\ \A i \in 1..Len(todo) : FALSE
  BY <1>1
<1>4. TodoOK'
  BY <1>1 DEF WriteInv, TodoOK
<1>5. /\ full \in BOOLEAN /\ WriterOK(w) /\ Len(w.entries) <= MaxIndexEntries
      /\ ~full => Len(w.entries) < MaxIndexEntries
  BY DEF WriteInv
<1> QED  BY <1>1, <1>2, <1>3, <1>4, <1>5, Zenon DEF WriteInv

(* The files are read from when all are written. *)
LEMMA WriteOthers ==
  ASSUME WriteInv, UNCHANGED writers, opens > 0, opens' \in Nat, opens' > 0
  PROVE  WriteInv'
<1>1. input' = input /\ todo' = todo /\ w' = w /\ full' = full /\ files' = files
  BY DEF writers
<1>2. opens' # 0
  OBVIOUS
<1>3. TodoOK' <=> TodoOK
  BY <1>1 DEF TodoOK
<1> QED  BY <1>1, <1>2, <1>3 DEF WriteInv
-----------------------------------------------------------------------------
(* Deletes take away what they were asked for *)

(* More ranges. *)
LEMMA SeqMore ==
  ASSUME NEW S, NEW T, S \subseteq T, NEW s \in Seq(S)
  PROVE  s \in Seq(T)
  OBVIOUS

LEMMA BatchesMore ==
  ASSUME NEW bs, NEW S, NEW T, S \subseteq T, BatchesOK(bs, S)
  PROVE  BatchesOK(bs, T)
  BY DEF BatchesOK

LEMMA CoveredMore ==
  ASSUME NEW S, NEW T, S \subseteq T, NEW k, NEW t, Covered(k, t, S)
  PROVE  Covered(k, t, T)
  BY DEF Covered

LEMMA DeleteInit ==
  ASSUME Init
  PROVE  DeleteInv
<1>1. /\ files = <<>> /\ tfile = <<>> /\ pending = <<>> /\ idx = <<>> /\ del = Idle /\ asked = {} /\ requested = {}
      /\ opens = 0
  BY DEF Init
<1>2. DOMAIN files = {} /\ DOMAIN tfile = {} /\ DOMAIN pending = {} /\ ~(opens > 0)
  BY <1>1
<1> QED  BY <1>1, <1>2, Zenon DEF DeleteInv, TombstonesOK, Held, Recoverable, DelOK

(* While the files are written there is nothing to delete. *)
LEMMA DeleteWriting ==
  ASSUME WriteInv, DeleteInv, opens = 0, idx' = idx, del' = del, asked' = asked, requested' = requested,
         \A f \in DOMAIN tfile' : tfile'[f] \in Seq(requested),
         \A f \in DOMAIN pending' : pending'[f] \in Seq(requested),
         opens' > 0 => DOMAIN tfile' = DOMAIN files' /\ DOMAIN pending' = DOMAIN files'
  PROVE  DeleteInv'
<1>1. idx = <<>> /\ asked = {} /\ del = Idle
  BY DEF WriteInv
<1>2. requested \subseteq Range64 /\ asked \subseteq requested
  BY DEF DeleteInv, TombstonesOK
<1>3. TombstonesOK'
  BY <1>2 DEF TombstonesOK
<1>4. Held' /\ Recoverable' /\ DelOK'
  BY <1>1 DEF Held, Recoverable, DelOK, Idle
<1> QED  BY <1>1, <1>3, <1>4 DEF DeleteInv, Idle

LEMMA DeleteWrites ==
  ASSUME WriteInv, DeleteInv, WriteNext \/ EndFull \/ EndLast
  PROVE  DeleteInv'
<1>1. CASE WriteNext \/ EndFull
  <2>1. /\ tfile' = tfile /\ pending' = pending /\ idx' = idx /\ del' = del /\ asked' = asked
        /\ requested' = requested /\ opens' = opens
    BY <1>1 DEF WriteNext, EndFull, readers
  <2>2. opens \in Nat /\ ~(opens > 0)
    BY <1>1 DEF WriteInv, WriteNext, EndFull
  <2>3. opens = 0 /\ ~(opens' > 0)
    BY <2>1, <2>2
  <2>4. /\ \A f \in DOMAIN tfile : tfile[f] \in Seq(requested)
        /\ \A f \in DOMAIN pending : pending[f] \in Seq(requested)
    BY DEF DeleteInv, TombstonesOK
  <2> QED  BY <2>1, <2>3, <2>4, DeleteWriting
<1>2. CASE EndLast
  <2>1. /\ idx' = idx /\ del' = del /\ asked' = asked /\ requested' = requested /\ opens = 0
        /\ tfile' = [f \in DOMAIN files' |-> <<>>] /\ pending' = tfile'
    BY <1>2 DEF EndLast
  <2>2. /\ DOMAIN tfile' = DOMAIN files' /\ DOMAIN pending' = DOMAIN files'
        /\ \A f \in DOMAIN files' : tfile'[f] = <<>> /\ pending'[f] = <<>>
    BY <2>1
  <2>3. <<>> \in Seq(requested)
    OBVIOUS
  <2> QED  BY <2>1, <2>2, <2>3, DeleteWriting
<1> QED  BY <1>1, <1>2

(* The files are open or have been written. *)
LEMMA OpenFacts ==
  ASSUME WriteInv, DeleteInv, idx # <<>>
  PROVE  /\ opens \in Nat /\ opens > 0 /\ DOMAIN tfile = DOMAIN files /\ DOMAIN pending = DOMAIN files
         /\ DOMAIN idx = DOMAIN files
<1>1. opens \in Nat /\ opens # 0
  BY DEF WriteInv
<1>2. opens > 0
  BY <1>1
<1> QED  BY <1>1, <1>2 DEF DeleteInv, TombstonesOK, Held

(* NewSSTReader applies the tombstones of the file. *)
LEMMA DeleteOpen ==
  ASSUME WriteInv, DeleteInv, Open
  PROVE  DeleteInv'
<1>1. /\ opens > 0 /\ idx = <<>> /\ idx' = [f \in DOMAIN files |-> OpenReader(f)]
      /\ files' = files /\ tfile' = tfile /\ pending' = pending /\ del' = del /\ asked' = asked
      /\ requested' = requested /\ opens' = opens
  BY DEF Open
<1>2. /\ TombstonesOK /\ Recoverable /\ del = Idle /\ DOMAIN tfile = DOMAIN files
      /\ requested \subseteq Range64 /\ asked \subseteq requested
      /\ \A f \in DOMAIN files : tfile[f] \in Seq(requested)
  BY <1>1 DEF DeleteInv, TombstonesOK
<1>3. TombstonesOK'
  BY <1>1, <1>2 DEF TombstonesOK
<1>4. ASSUME NEW f \in DOMAIN files
      PROVE  FileHeld(OpenReader(f), files[f], requested, asked)
  <2>1. FileOK(files[f]) /\ tfile[f] \in Seq(requested) /\ tfile[f] \in Seq(Range64)
    BY <1>2, SeqMore DEF WriteInv
  <2>2. PICK d : d = OpenReader(f)
    OBVIOUS
  <2>3. /\ IndexOK(d) /\ d.b = files[f].index
        /\ \A k \in Nat, t \in Int64 : MayHold(d, k, t) <=> InFile(files[f], k, t) /\ ~Covered(k, t, Range(tfile[f]))
    BY <2>1, <2>2, OpenReaderFacts DEF Has
  <2>4. Range(tfile[f]) \subseteq requested
    <3>1. DOMAIN tfile[f] = 1..Len(tfile[f]) /\ \A i \in 1..Len(tfile[f]) : tfile[f][i] \in requested
      BY <2>1
    <3> QED  BY <3>1 DEF Range
  <2>5. ASSUME NEW k \in Nat, NEW t \in Int64, InFile(files[f], k, t), ~Covered(k, t, Range(tfile[f]))
        PROVE  ~Covered(k, t, asked)
    <3> SUFFICES ASSUME Covered(k, t, asked) PROVE FALSE
      OBVIOUS
    <3>1. PICK a \in asked : a.key = k /\ HasTime(a, t)
      BY DEF Covered
    <3>2. \E i \in DOMAIN files[f].index : files[f].index[i].key = a.key
      BY <2>5, <3>1 DEF InFile
    <3>3. a \in Range(tfile[f])
      BY <1>1, <1>2, <3>2 DEF Recoverable
    <3> QED  BY <2>5, <3>1, <3>3 DEF Covered
  <2>6. ASSUME NEW k \in Nat, NEW t \in Int64, ~Covered(k, t, requested)
        PROVE  ~Covered(k, t, Range(tfile[f]))
    BY <2>4, <2>6, CoveredMore
  <2> QED  BY <2>2, <2>3, <2>5, <2>6, Zenon DEF FileHeld
<1>5. DOMAIN idx' = DOMAIN files' /\ \A f \in DOMAIN files' : FileHeld(idx'[f], files'[f], requested', asked')
  BY <1>1, <1>4
<1>6. Held'
  BY <1>5 DEF Held
<1>7. Recoverable'
  BY <1>1, <1>2 DEF Recoverable
<1>8. DelOK' /\ del' = Idle
  BY <1>1, <1>2 DEF DelOK
<1> QED  BY <1>3, <1>6, <1>7, <1>8 DEF DeleteInv

(* A restart, with a delete in progress or not. *)
LEMMA DeleteRestart ==
  ASSUME WriteInv, DeleteInv, Restart
  PROVE  DeleteInv'
<1>1. /\ idx # <<>> /\ idx' = <<>> /\ del' = Idle /\ pending' = [f \in DOMAIN files |-> <<>>]
      /\ asked' = {a \in asked : \A f \in DOMAIN files :
                     a.key \in {e.key : e \in Range(files[f].index)} => a \in Range(tfile[f])}
      /\ files' = files /\ tfile' = tfile /\ requested' = requested
  BY DEF Restart
<1>2. DOMAIN tfile = DOMAIN files /\ DOMAIN pending' = DOMAIN files
  BY <1>1, OpenFacts
<1>3. /\ requested \subseteq Range64 /\ asked' \subseteq requested
      /\ \A f \in DOMAIN files : tfile[f] \in Seq(requested)
  BY <1>1, <1>2 DEF DeleteInv, TombstonesOK
<1>4. \A f \in DOMAIN files : pending'[f] \in Seq(requested)
  BY <1>1
<1>5. TombstonesOK'
  BY <1>1, <1>2, <1>3, <1>4 DEF TombstonesOK
<1>6. Recoverable'
  <2>1. ASSUME NEW a \in asked', NEW f \in DOMAIN files, NEW i \in DOMAIN files[f].index, files[f].index[i].key = a.key
        PROVE  a \in Range(tfile[f])
    <3>1. files[f].index[i] \in Range(files[f].index)
      BY DEF Range
    <3>2. a.key \in {e.key : e \in Range(files[f].index)}
      BY <2>1, <3>1
    <3> QED  BY <1>1, <3>2
  <2> QED  BY <1>1, <2>1 DEF Recoverable
<1> QED  BY <1>1, <1>5, <1>6 DEF DeleteInv, Held, DelOK
(* An index holds no less when more is asked for. *)
LEMMA HeldMore ==
  ASSUME NEW d, NEW file, NEW S, NEW T, S \subseteq T, NEW gone, FileHeld(d, file, S, gone)
  PROVE  FileHeld(d, file, T, gone)
<1>1. \A k, t : ~Covered(k, t, T) => ~Covered(k, t, S)
  BY CoveredMore
<1> QED  BY <1>1, Zenon DEF FileHeld

(* FileStore.DeleteRange: a batch for each file whose time the range meets. *)
LEMMA DeleteBegins ==
  ASSUME WriteInv, DeleteInv, NEW r \in Requests, DeleteBegin(r)
  PROVE  DeleteInv'
<1>1. PICK fs : fs = {f \in DOMAIN idx : OverlapsTimeRange(idx[f], r.min, r.max)}
  OBVIOUS
<1>2. /\ idx # <<>> /\ del = Idle /\ del' = [pc |-> "add", r |-> r, failed |-> FALSE, left |-> fs, files |-> fs]
      /\ requested' = requested \cup Ranges(r)
      /\ files' = files /\ tfile' = tfile /\ pending' = pending /\ idx' = idx /\ asked' = asked /\ opens' = opens
  BY <1>1 DEF DeleteBegin, writers
<1>3. requested \subseteq requested' /\ Ranges(r) \subseteq requested' /\ Ranges(r) \subseteq Range64
  BY <1>2, RequestFacts
<1>4. TombstonesOK'
  BY <1>2, <1>3, SeqMore DEF DeleteInv, TombstonesOK
<1>5. Held'
  <2>1. DOMAIN idx = DOMAIN files /\ \A f \in DOMAIN files : FileHeld(idx[f], files[f], requested, asked)
    BY <1>2 DEF DeleteInv, Held
  <2>2. \A f \in DOMAIN files : FileHeld(idx[f], files[f], requested', asked)
    BY <1>3, <2>1, HeldMore
  <2> QED  BY <1>2, <2>1, <2>2 DEF Held
<1>6. /\ del'.pc = "add" /\ del'.r = r /\ del'.failed = FALSE /\ del'.left = fs /\ del'.files = fs
      /\ fs \ fs = {} /\ fs \subseteq fs
  BY <1>2
<1>7. FALSE \in BOOLEAN
  OBVIOUS
<1>8. AddOK'
  BY <1>1, <1>2, <1>6, <1>7, Zenon DEF AddOK
<1>9. DelOK'
  BY <1>2, <1>3, <1>6, <1>8 DEF DelOK
<1> QED  BY <1>2, <1>4, <1>5, <1>9 DEF DeleteInv, Recoverable

(* A delete that is in progress has its files open. *)
LEMMA DeletingFacts ==
  ASSUME DeleteInv, del.pc # "idle"
  PROVE  /\ idx # <<>> /\ del # Idle /\ del.r \in Requests /\ Ranges(del.r) \subseteq requested
         /\ del.pc = "add" => AddOK
         /\ del.pc = "apply" => ApplyOK
         /\ del.pc = "store" => StoringOK
<1>1. del # Idle
  BY DEF Idle
<1>2. del.r \in Requests /\ idx # <<>> /\ Ranges(del.r) \subseteq requested /\ (AddOK \/ ApplyOK \/ StoringOK)
  BY <1>1 DEF DeleteInv, DelOK
<1> QED  BY <1>1, <1>2 DEF AddOK, ApplyOK, StoringOK

(* Tombstones of one file are replaced. *)
LEMMA TombstonesSet ==
  ASSUME WriteInv, DeleteInv, idx # <<>>, NEW f \in DOMAIN files, NEW t \in Seq(requested), NEW p \in Seq(requested),
         tfile' = [tfile EXCEPT ![f] = t], pending' = [pending EXCEPT ![f] = p],
         files' = files, requested' = requested, asked' = asked, opens' = opens
  PROVE  /\ TombstonesOK' /\ tfile'[f] = t /\ \A g \in DOMAIN files : g # f => tfile'[g] = tfile[g]
<1>1. DOMAIN tfile = DOMAIN files /\ DOMAIN pending = DOMAIN files /\ opens > 0
  BY OpenFacts
<1>2. /\ DOMAIN tfile' = DOMAIN files /\ DOMAIN pending' = DOMAIN files /\ tfile'[f] = t /\ pending'[f] = p
      /\ \A g \in DOMAIN files : g # f => tfile'[g] = tfile[g] /\ pending'[g] = pending[g]
  BY <1>1
<1>3. \A g \in DOMAIN files : tfile'[g] \in Seq(requested) /\ pending'[g] \in Seq(requested)
  BY <1>1, <1>2 DEF DeleteInv, TombstonesOK
<1>4. requested \subseteq Range64 /\ asked \subseteq requested
  BY DEF DeleteInv, TombstonesOK
<1>5. TombstonesOK'
  BY <1>1, <1>2, <1>3, <1>4 DEF TombstonesOK
<1> QED  BY <1>2, <1>5

(* One file has answered. *)
LEMMA AddedOne ==
  ASSUME WriteInv, DeleteInv, del.pc = "add", NEW f \in del.left, NEW failed \in BOOLEAN,
         del' = [pc |-> "add", r |-> del.r, failed |-> failed, left |-> del.left \ {f}, files |-> del.files],
         idx' = idx, files' = files, requested' = requested, asked' = asked, TombstonesOK',
         failed \/ (~del.failed /\
            \A g \in DOMAIN files : g # f => tfile'[g] = tfile[g]),
         failed \/ \A k \in del.r.keys : ContainsKey(idx[f], k) =>
                      [key |-> k, min |-> del.r.min, max |-> del.r.max] \in Range(tfile'[f])
  PROVE  DeleteInv'
<1>1. /\ idx # <<>> /\ del.r \in Requests /\ Ranges(del.r) \subseteq requested /\ AddOK
  BY DeletingFacts
<1>2. /\ del'.pc = "add" /\ del'.r = del.r /\ del'.failed = failed /\ del'.left = del.left \ {f}
      /\ del'.files = del.files
  OBVIOUS
<1>3. /\ del.left \subseteq del.files
      /\ del.files = {g \in DOMAIN idx : OverlapsTimeRange(idx[g], del.r.min, del.r.max)}
      /\ ~del.failed => \A g \in del.files \ del.left, k \in del.r.keys :
            ContainsKey(idx[g], k) => [key |-> k, min |-> del.r.min, max |-> del.r.max] \in Range(tfile[g])
  BY <1>1 DEF AddOK
<1>4. DOMAIN idx = DOMAIN files
  BY <1>1 DEF DeleteInv, Held
<1>5. del.left \ {f} \subseteq del.files /\ del.files \subseteq DOMAIN files
  BY <1>3, <1>4
<1>6. ~failed => \A g \in del.files \ (del.left \ {f}), k \in del.r.keys :
            ContainsKey(idx[g], k) => [key |-> k, min |-> del.r.min, max |-> del.r.max] \in Range(tfile'[g])
  <2> SUFFICES ASSUME ~failed, NEW g \in del.files \ (del.left \ {f}), NEW k \in del.r.keys, ContainsKey(idx[g], k)
               PROVE  [key |-> k, min |-> del.r.min, max |-> del.r.max] \in Range(tfile'[g])
    BY Zenon
  <2>1. CASE g = f
    BY <2>1, Zenon
  <2>2. CASE g # f
    <3>1. g \in del.files \ del.left /\ g \in DOMAIN files
      BY <1>5, <2>2
    <3> QED  BY <1>3, <2>2, <3>1, Zenon
  <2> QED  BY <2>1, <2>2
<1>7. AddOK'
  BY <1>2, <1>3, <1>5, <1>6, Zenon DEF AddOK
<1>8. DelOK'
  BY <1>1, <1>2, <1>7, Zenon DEF DelOK
<1>9. Held' /\ Recoverable'
  BY <1>1 DEF DeleteInv, Held, Recoverable
<1> QED  BY <1>1, <1>8, <1>9 DEF DeleteInv

(* Tombstoner.AddRange, the tombstones of a call. *)
LEMMA NewRanges ==
  ASSUME WriteInv, DeleteInv, del.pc = "add", NEW f \in del.left
  PROVE  /\ f \in DOMAIN files /\ pending[f] \in Seq(requested) /\ tfile[f] \in Seq(requested)
         /\ NewTombstones(f, del.r) \in Seq(requested) /\ pending[f] \o NewTombstones(f, del.r) \in Seq(requested)
         /\ \A k \in del.r.keys : ContainsKey(idx[f], k) =>
               /\ [key |-> k, min |-> del.r.min, max |-> del.r.max] \in Range(NewTombstones(f, del.r))
               /\ [key |-> k, min |-> del.r.min, max |-> del.r.max] \in Range(pending[f] \o NewTombstones(f, del.r))
<1>1. /\ idx # <<>> /\ del.r \in Requests /\ Ranges(del.r) \subseteq requested /\ AddOK
  BY DeletingFacts
<1>2. f \in DOMAIN idx /\ OverlapsTimeRange(idx[f], del.r.min, del.r.max)
  BY <1>1 DEF AddOK
<1>3. DOMAIN tfile = DOMAIN files /\ DOMAIN pending = DOMAIN files /\ DOMAIN idx = DOMAIN files
  BY <1>1, OpenFacts
<1>4. pending[f] \in Seq(requested) /\ tfile[f] \in Seq(requested) /\ IndexOK(idx[f])
  BY <1>1, <1>2, <1>3 DEF DeleteInv, TombstonesOK, Held, FileHeld
<1>5. PICK new, p : new = NewTombstones(f, del.r) /\ p = pending[f]
  OBVIOUS
<1>6. /\ new \in Seq(Ranges(del.r))
      /\ \A k \in del.r.keys : ContainsKey(idx[f], k) =>
            [key |-> k, min |-> del.r.min, max |-> del.r.max] \in Range(new)
  BY <1>1, <1>2, <1>4, <1>5, NewTombstonesFacts
<1>7. new \in Seq(requested) /\ p \in Seq(requested)
  BY <1>1, <1>4, <1>5, <1>6, SeqMore
<1>8. p \o new \in Seq(requested) /\ Range(new) \subseteq Range(p \o new)
  <2>1. PICK a, b : a = Len(p) /\ b = Len(new)
    OBVIOUS
  <2>2. /\ p \o new \in Seq(requested) /\ a \in Nat /\ b \in Nat /\ DOMAIN new = 1..b
        /\ DOMAIN (p \o new) = 1..(a + b) /\ \A i \in 1..b : (p \o new)[a + i] = new[i]
    BY <1>7, <2>1
  <2>3. \A i \in 1..b : a + i \in 1..(a + b)
    BY <2>2
  <2> QED  BY <2>2, <2>3 DEF Range
<1> QED  BY <1>2, <1>3, <1>4, <1>5, <1>6, <1>7, <1>8

LEMMA DeleteAdds ==
  ASSUME WriteInv, DeleteInv, NEW f, AddRange(f)
  PROVE  DeleteInv'
<1>1. PICK new : new = NewTombstones(f, del.r)
  OBVIOUS
<1>2. /\ del.pc = "add" /\ f \in del.left
      /\ IF new = <<>> THEN tfile' = tfile /\ pending' = pending
         ELSE tfile' = [tfile EXCEPT ![f] = pending[f] \o new] /\ pending' = [pending EXCEPT ![f] = <<>>]
      /\ del' = [del EXCEPT !.left = @ \ {f}]
      /\ files' = files /\ idx' = idx /\ asked' = asked /\ requested' = requested /\ opens' = opens
  BY <1>1 DEF AddRange, writers
<1>3. AddOK /\ idx # <<>>
  BY <1>2, DeletingFacts
<1>4. /\ del' = [pc |-> "add", r |-> del.r, failed |-> del.failed, left |-> del.left \ {f}, files |-> del.files]
      /\ del.failed \in BOOLEAN
  <2>1. PICK r, x, l, fs : r = del.r /\ x = del.failed /\ l = del.left /\ fs = del.files
    OBVIOUS
  <2>2. del = [pc |-> "add", r |-> r, failed |-> x, left |-> l, files |-> fs]
    BY <1>3, <2>1 DEF AddOK
  <2>3. del' = [pc |-> "add", r |-> r, failed |-> x, left |-> l \ {f}, files |-> fs]
    BY <1>2, <2>2
  <2>4. del.failed \in BOOLEAN
    BY <1>3 DEF AddOK
  <2> QED  BY <2>1, <2>3, <2>4
<1>5. /\ f \in DOMAIN files /\ pending[f] \o new \in Seq(requested)
      /\ \A k \in del.r.keys : ContainsKey(idx[f], k) =>
               /\ [key |-> k, min |-> del.r.min, max |-> del.r.max] \in Range(new)
               /\ [key |-> k, min |-> del.r.min, max |-> del.r.max] \in Range(pending[f] \o new)
  BY <1>1, <1>2, NewRanges
<1>6. CASE new = <<>>
  <2>1. tfile' = tfile /\ pending' = pending
    BY <1>2, <1>6
  <2>2. TombstonesOK'
    BY <1>2, <2>1 DEF DeleteInv, TombstonesOK
  <2>3. Range(new) = {}
    BY <1>6 DEF Range
  <2>4. \A k \in del.r.keys : ~ContainsKey(idx[f], k)
    BY <1>5, <2>3
  <2> QED  BY <1>2, <1>4, <2>1, <2>2, <2>4, AddedOne
<1>7. CASE new # <<>>
  <2>1. tfile' = [tfile EXCEPT ![f] = pending[f] \o new] /\ pending' = [pending EXCEPT ![f] = <<>>]
    BY <1>2, <1>7
  <2>2. <<>> \in Seq(requested)
    OBVIOUS
  <2>3. TombstonesOK' /\ tfile'[f] = pending[f] \o new /\ \A g \in DOMAIN files : g # f => tfile'[g] = tfile[g]
    BY <1>2, <1>3, <1>5, <2>1, <2>2, TombstonesSet
  <2> QED  BY <1>2, <1>4, <1>5, <2>3, AddedOne
<1> QED  BY <1>6, <1>7

LEMMA DeleteAddFails ==
  ASSUME WriteInv, DeleteInv, NEW f, AddRangeFails(f)
  PROVE  DeleteInv'
<1>1. PICK new : new = NewTombstones(f, del.r)
  OBVIOUS
<1>2. PICK t, p :
      /\ del.pc = "add" /\ f \in del.left
      /\ \/ t = tfile[f] /\ p = pending[f] \o new
         \/ t = tfile[f] /\ p = <<>>
         \/ t = pending[f] \o new /\ p = <<>>
      /\ tfile' = [tfile EXCEPT ![f] = t] /\ pending' = [pending EXCEPT ![f] = p]
      /\ del' = [del EXCEPT !.left = @ \ {f}, !.failed = TRUE]
      /\ files' = files /\ idx' = idx /\ asked' = asked /\ requested' = requested /\ opens' = opens
  BY <1>1, Zenon DEF AddRangeFails, writers
<1>3. AddOK /\ idx # <<>>
  BY <1>2, DeletingFacts
<1>4. del' = [pc |-> "add", r |-> del.r, failed |-> TRUE, left |-> del.left \ {f}, files |-> del.files]
  <2>1. PICK r, x, l, fs : r = del.r /\ x = del.failed /\ l = del.left /\ fs = del.files
    OBVIOUS
  <2>2. del = [pc |-> "add", r |-> r, failed |-> x, left |-> l, files |-> fs]
    BY <1>3, <2>1 DEF AddOK
  <2>3. del' = [pc |-> "add", r |-> r, failed |-> TRUE, left |-> l \ {f}, files |-> fs]
    BY <1>2, <2>2
  <2> QED  BY <2>1, <2>3
<1>5. f \in DOMAIN files /\ tfile[f] \in Seq(requested) /\ pending[f] \o new \in Seq(requested)
  BY <1>1, <1>2, NewRanges
<1>6. t \in Seq(requested) /\ p \in Seq(requested)
  <2>1. <<>> \in Seq(requested)
    OBVIOUS
  <2> QED  BY <1>2, <1>5, <2>1, Zenon
<1>7. TombstonesOK'
  BY <1>2, <1>3, <1>5, <1>6, TombstonesSet
<1>8. TRUE \in BOOLEAN
  OBVIOUS
<1> QED  BY <1>2, <1>4, <1>7, <1>8, AddedOne
(* batchDelete.Commit: what was recorded is now to be applied. *)
LEMMA DeleteCommits ==
  ASSUME WriteInv, DeleteInv, Commit
  PROVE  DeleteInv'
<1>1. /\ del.pc = "add" /\ del.left = {}
      /\ del' = IF del.failed THEN Idle
                ELSE [pc |-> "apply", r |-> del.r, left |-> del.files,
                      todo |-> [f \in del.files |-> Batches(Recorded(f))]]
      /\ files' = files /\ tfile' = tfile /\ pending' = pending /\ idx' = idx /\ asked' = asked
      /\ requested' = requested /\ opens' = opens
  BY DEF Commit, writers
<1>2. /\ idx # <<>> /\ del.r \in Requests /\ Ranges(del.r) \subseteq requested /\ AddOK
  BY <1>1, DeletingFacts
<1>3. TombstonesOK' /\ Held' /\ Recoverable'
  BY <1>1, <1>2 DEF DeleteInv, TombstonesOK, Held, Recoverable
<1>4. CASE del.failed
  BY <1>1, <1>2, <1>3, <1>4 DEF DeleteInv, DelOK
<1>5. CASE ~del.failed
  <2>1. PICK td, fs : td = [f \in fs |-> Batches(Recorded(f))] /\ fs = del.files
    OBVIOUS
  <2>2. del' = [pc |-> "apply", r |-> del.r, left |-> fs, todo |-> td]
    BY <1>1, <1>5, <2>1
  <2>3. del'.pc = "apply" /\ del'.r = del.r /\ del'.left = fs /\ del'.todo = td
    BY <2>2
  <2>4. /\ fs = {f \in DOMAIN idx : OverlapsTimeRange(idx[f], del.r.min, del.r.max)}
        /\ \A f \in fs, k \in del.r.keys :
              ContainsKey(idx[f], k) => [key |-> k, min |-> del.r.min, max |-> del.r.max] \in Range(tfile[f])
    BY <1>1, <1>2, <1>5, <2>1 DEF AddOK
  <2>5. fs \subseteq DOMAIN idx /\ DOMAIN td = fs /\ \A f \in fs : td[f] = Batches(Recorded(f))
    BY <2>1, <2>4
  <2>6. /\ DOMAIN idx = DOMAIN files /\ DOMAIN tfile = DOMAIN files /\ DOMAIN pending = DOMAIN files
    BY <1>2, OpenFacts
  <2>7. requested \subseteq Range64
    BY DEF DeleteInv, TombstonesOK
  <2>8. ASSUME NEW f \in fs
        PROVE  /\ BatchesOK(td[f], requested)
               /\ tfile[f] # <<>> => \A a \in Range(tfile[f]) : InBatch(a, td[f])
    <3>1. tfile[f] \in Seq(requested) /\ pending[f] \in Seq(requested)
      BY <2>5, <2>6 DEF DeleteInv, TombstonesOK
    <3>2. PICK es, u, p : es = Recorded(f) /\ u = tfile[f] /\ p = pending[f]
      OBVIOUS
    <3>3. es = IF u = <<>> THEN <<>> ELSE u \o p
      BY <3>2 DEF Recorded
    <3>4. es \in Seq(requested) /\ es \in Seq(Range64)
      <4>1. u \o p \in Seq(requested) /\ <<>> \in Seq(requested)
        BY <3>1, <3>2
      <4>2. es \in Seq(requested)
        BY <3>3, <4>1
      <4> QED  BY <2>7, <4>2, SeqMore
    <3>5. BatchesOK(Batches(es), Range(es)) /\ \A m \in 1..Len(es) : InBatch(es[m], Batches(es))
      BY <3>4, BatchFacts
    <3>6. Range(es) \subseteq requested
      <4>1. DOMAIN es = 1..Len(es) /\ \A i \in 1..Len(es) : es[i] \in requested
        BY <3>4
      <4> QED  BY <4>1 DEF Range
    <3>7. BatchesOK(td[f], requested)
      BY <2>5, <3>2, <3>5, <3>6, BatchesMore
    <3>8. ASSUME u # <<>>, NEW a \in Range(u)
          PROVE  InBatch(a, td[f])
      <4>1. PICK i \in DOMAIN u : a = u[i]
        BY <3>8 DEF Range
      <4>2. es = u \o p /\ u \in Seq(requested) /\ p \in Seq(requested)
        BY <3>1, <3>2, <3>3, <3>8
      <4>3. i \in 1..Len(es) /\ es[i] = a
        BY <4>1, <4>2
      <4> QED  BY <2>5, <3>2, <3>5, <4>3
    <3> QED  BY <3>2, <3>7, <3>8
  <2>9. ASSUME NEW f \in DOMAIN idx, NEW k \in Nat, NEW t \in Int64, k \in del.r.keys, del.r.min <= t, t <= del.r.max,
               MayHold(idx[f], k, t)
        PROVE  f \in fs /\ Ahead(td[f], k, t)
    <3>1. IndexOK(idx[f])
      BY <1>2, <2>6 DEF DeleteInv, Held, FileHeld
    <3>2. Indexed(idx[f], k, t) /\ k \in Int
      BY <2>9 DEF MayHold
    <3>3. PICK d, s, lo, hi : d = idx[f] /\ s = Entries(d, k) /\ lo = s[1].min /\ hi = s[Len(s)].max
      OBVIOUS
    <3>4. /\ lo \in Int /\ hi \in Int /\ t \in Int /\ lo <= t /\ t <= hi /\ d.minTime <= lo /\ hi <= d.maxTime
      BY <3>1, <3>2, <3>3, IndexedBounds
    <3>5. d.minTime \in Int /\ d.maxTime \in Int
      BY <3>1, <3>3 DEF IndexOK
    <3>6. del.r.min \in Int /\ del.r.max \in Int
      <4>1. del.r.min \in Int64 /\ del.r.max \in Int64
        BY <1>2, RequestFacts
      <4> QED  BY <4>1, TimeAssumption DEF Int64
    <3>7. OverlapsTimeRange(d, del.r.min, del.r.max)
      BY <2>9, <3>4, <3>5, <3>6 DEF OverlapsTimeRange
    <3>8. ContainsKey(d, k)
      <4>1. PICK i \in 1..Len(d.offsets) : Section(d, i).key = k
        BY <3>2, <3>3 DEF Indexed
      <4>2. d.minKey <= k /\ k <= d.maxKey /\ d.minKey \in Int /\ d.maxKey \in Int
        BY <3>1, <3>3, <4>1 DEF IndexOK, SectionOK
      <4> QED  BY <4>2 DEF ContainsKey
    <3>9. f \in fs
      BY <2>4, <3>3, <3>7
    <3>10. PICK a : a = [key |-> k, min |-> del.r.min, max |-> del.r.max]
      OBVIOUS
    <3>11. a \in Range(tfile[f])
      BY <2>4, <2>9, <3>3, <3>8, <3>9, <3>10
    <3>12. tfile[f] # <<>>
      BY <3>11 DEF Range
    <3>13. InBatch(a, td[f])
      BY <2>8, <3>9, <3>11, <3>12
    <3>14. td[f] \in Seq(Batch)
      BY <2>8, <3>9 DEF BatchesOK
    <3>15. PICK i \in 1..Len(td[f]) : k \in td[f][i].keys /\ td[f][i].min = del.r.min /\ td[f][i].max = del.r.max
      BY <3>10, <3>13 DEF InBatch
    <3>16. i \in DOMAIN td[f]
      BY <3>14
    <3>17. Ahead(td[f], k, t)
      BY <2>9, <3>15, <3>16 DEF Ahead
    <3> QED  BY <3>9, <3>17
  <2>10. \A f \in DOMAIN td : BatchesOK(td[f], requested)
    BY <2>5, <2>8
  <2>11. ApplyOK'
    <3>1. \A f \in DOMAIN idx, k \in Nat, t \in Int64 :
             (k \in del.r.keys /\ del.r.min <= t /\ t <= del.r.max) /\ MayHold(idx[f], k, t) => f \in fs /\ Ahead(td[f], k, t)
      BY <2>9
    <3> QED  BY <1>1, <2>2, <2>3, <2>5, <2>10, <3>1, Zenon DEF ApplyOK, InDelete
  <2>12. DelOK'
    BY <1>1, <1>2, <2>3, <2>11, Zenon DEF DelOK
  <2> QED  BY <1>1, <1>2, <1>3, <2>12 DEF DeleteInv
<1> QED  BY <1>4, <1>5

(* One file has applied all. *)
LEMMA DeleteCommitted ==
  ASSUME WriteInv, DeleteInv, NEW f, Committed(f)
  PROVE  DeleteInv'
<1>1. /\ del.pc = "apply" /\ f \in del.left /\ del.todo[f] = <<>> /\ del' = [del EXCEPT !.left = @ \ {f}]
      /\ files' = files /\ tfile' = tfile /\ pending' = pending /\ idx' = idx /\ asked' = asked
      /\ requested' = requested /\ opens' = opens
  BY DEF Committed, writers
<1>2. /\ idx # <<>> /\ del.r \in Requests /\ Ranges(del.r) \subseteq requested /\ ApplyOK
  BY <1>1, DeletingFacts
<1>3. TombstonesOK' /\ Held' /\ Recoverable'
  BY <1>1, <1>2 DEF DeleteInv, TombstonesOK, Held, Recoverable
<1>4. del' = [pc |-> "apply", r |-> del.r, left |-> del.left \ {f}, todo |-> del.todo]
  <2>1. PICK r, l, td : r = del.r /\ l = del.left /\ td = del.todo
    OBVIOUS
  <2>2. del = [pc |-> "apply", r |-> r, left |-> l, todo |-> td]
    BY <1>2, <2>1 DEF ApplyOK
  <2>3. del' = [pc |-> "apply", r |-> r, left |-> l \ {f}, todo |-> td]
    BY <1>1, <2>2
  <2> QED  BY <2>1, <2>3
<1>5. del'.pc = "apply" /\ del'.r = del.r /\ del'.left = del.left \ {f} /\ del'.todo = del.todo
  BY <1>4
<1>6. /\ del.left \subseteq DOMAIN idx /\ del.left \subseteq DOMAIN del.todo
      /\ \A g \in DOMAIN del.todo : BatchesOK(del.todo[g], requested)
      /\ \A g \in DOMAIN idx, k \in Nat, t \in Int64 :
            InDelete(k, t) /\ MayHold(idx[g], k, t) => g \in del.left /\ Ahead(del.todo[g], k, t)
  BY <1>2 DEF ApplyOK
<1>7. \A k, t : ~Ahead(del.todo[f], k, t)
  <2>1. DOMAIN del.todo[f] = {}
    BY <1>1
  <2> QED  BY <2>1 DEF Ahead
<1>8. \A g \in DOMAIN idx, k \in Nat, t \in Int64 :
         InDelete(k, t) /\ MayHold(idx[g], k, t) => g \in del.left \ {f} /\ Ahead(del.todo[g], k, t)
  BY <1>6, <1>7
<1>9. \A k, t : InDelete(k, t)' <=> InDelete(k, t)
  BY <1>5 DEF InDelete
<1>10. del.left \ {f} \subseteq DOMAIN idx /\ del.left \ {f} \subseteq DOMAIN del.todo
  BY <1>6
<1>11. ApplyOK'
  BY <1>1, <1>4, <1>5, <1>6, <1>8, <1>9, <1>10, Zenon DEF ApplyOK
<1>12. DelOK'
  BY <1>1, <1>2, <1>5, <1>11, Zenon DEF DelOK
<1> QED  BY <1>1, <1>2, <1>3, <1>12 DEF DeleteInv

(* FileStore.DeleteRange returns. *)
LEMMA DeleteEnds ==
  ASSUME WriteInv, DeleteInv, DeleteEnd
  PROVE  DeleteInv'
<1>1. /\ del.pc = "apply" /\ del.left = {} /\ del' = Idle /\ asked' = asked \cup Ranges(del.r)
      /\ files' = files /\ tfile' = tfile /\ pending' = pending /\ idx' = idx
      /\ requested' = requested /\ opens' = opens
  BY DEF DeleteEnd, writers
<1>2. /\ idx # <<>> /\ del.r \in Requests /\ Ranges(del.r) \subseteq requested /\ ApplyOK
  BY <1>1, DeletingFacts
<1>3. TombstonesOK'
  BY <1>1, <1>2 DEF DeleteInv, TombstonesOK
<1>4. DOMAIN idx = DOMAIN files /\ \A f \in DOMAIN files : FileHeld(idx[f], files[f], requested, asked)
  BY <1>2 DEF DeleteInv, Held
<1>5. ASSUME NEW f \in DOMAIN files PROVE FileHeld(idx[f], files[f], requested, asked')
  <2>1. ASSUME NEW k \in Nat, NEW t \in Int64, MayHold(idx[f], k, t) PROVE ~Covered(k, t, asked')
    <3> SUFFICES ASSUME Covered(k, t, asked') PROVE FALSE
      OBVIOUS
    <3>1. PICK a \in asked' : a.key = k /\ HasTime(a, t)
      BY DEF Covered
    <3>2. ~Covered(k, t, asked)
      BY <1>4, <2>1 DEF FileHeld
    <3>3. a \in Ranges(del.r)
      BY <1>1, <3>1, <3>2 DEF Covered
    <3>4. k \in del.r.keys /\ a.min = del.r.min /\ a.max = del.r.max /\ del.r.max \in Int64
      BY <1>2, <3>1, <3>3, RequestFacts
    <3>5. InDelete(k, t)
      <4>1. t \in Int /\ del.r.max \in Int
        BY <3>4, TimeAssumption DEF Int64
      <4> QED  BY <3>1, <3>4, <4>1 DEF InDelete, HasTime
    <3>6. f \in del.left
      BY <1>2, <1>4, <2>1, <3>5 DEF ApplyOK
    <3> QED  BY <1>1, <3>6
  <2> QED  BY <1>4, <2>1, Zenon DEF FileHeld
<1>6. Held' /\ Recoverable'
  BY <1>1, <1>2, <1>4, <1>5 DEF Held, Recoverable
<1> QED  BY <1>1, <1>2, <1>3, <1>6 DEF DeleteInv, DelOK
(* One index changes, and holds less only of what was asked for. *)
LEMMA HeldLess ==
  ASSUME NEW d, NEW e, NEW file, NEW ranges, NEW gone, FileHeld(d, file, ranges, gone), IndexOK(e), e.b = d.b,
         \A k \in Nat, t \in Int64 : MayHold(e, k, t) => MayHold(d, k, t),
         \A k \in Nat, t \in Int64 : MayHold(d, k, t) /\ ~Covered(k, t, ranges) => MayHold(e, k, t)
  PROVE  FileHeld(e, file, ranges, gone)
  BY Zenon DEF FileHeld

(* Batches without the first. *)
LEMMA BatchesTail ==
  ASSUME NEW bs, NEW ranges, BatchesOK(bs, ranges), bs # <<>>
  PROVE  /\ BatchesOK(Tail(bs), ranges) /\ Head(bs) \in Batch
         /\ \A k \in Head(bs).keys : [key |-> k, min |-> Head(bs).min, max |-> Head(bs).max] \in ranges
         /\ \A k, t : Ahead(bs, k, t) =>
               Ahead(Tail(bs), k, t) \/ (k \in Head(bs).keys /\ Head(bs).min <= t /\ t <= Head(bs).max)
<1>1. PICK n, b, rest : n = Len(bs) /\ b = Head(bs) /\ rest = Tail(bs)
  OBVIOUS
<1>2. bs \in Seq(Batch) /\ \A i \in 1..n : \A k \in bs[i].keys : [key |-> k, min |-> bs[i].min, max |-> bs[i].max] \in ranges
  BY <1>1 DEF BatchesOK
<1>3. /\ n \in Nat \ {0} /\ DOMAIN bs = 1..n /\ b = bs[1] /\ b \in Batch
      /\ rest \in Seq(Batch) /\ Len(rest) = n - 1 /\ DOMAIN rest = 1..(n - 1)
      /\ \A i \in 1..(n - 1) : rest[i] = bs[i + 1]
  BY <1>1, <1>2
<1>4. /\ \A i \in 1..(n - 1) : i + 1 \in 1..n
      /\ \A i \in 1..n : i = 1 \/ (i - 1 \in 1..(n - 1) /\ (i - 1) + 1 = i)
      /\ 1 \in 1..n
  BY <1>3
<1>5. BatchesOK(rest, ranges)
  BY <1>2, <1>3, <1>4 DEF BatchesOK
<1>6. \A k \in b.keys : [key |-> k, min |-> b.min, max |-> b.max] \in ranges
  BY <1>2, <1>3, <1>4
<1>7. ASSUME NEW k, NEW t, Ahead(bs, k, t)
      PROVE  Ahead(rest, k, t) \/ (k \in b.keys /\ b.min <= t /\ t <= b.max)
  <2>1. PICK i \in 1..n : k \in bs[i].keys /\ bs[i].min <= t /\ t <= bs[i].max
    BY <1>3, <1>7 DEF Ahead
  <2>2. CASE i = 1
    BY <1>3, <2>1, <2>2
  <2>3. CASE i # 1
    <3>1. i - 1 \in DOMAIN rest /\ rest[i - 1] = bs[i]
      BY <1>3, <1>4, <2>3
    <3> QED  BY <2>1, <3>1 DEF Ahead
  <2> QED  BY <2>2, <2>3
<1> QED  BY <1>1, <1>3, <1>5, <1>6, <1>7

(* indirectIndex.DeleteRange, first part. *)
LEMMA DeleteDrops ==
  ASSUME WriteInv, DeleteInv, NEW f, DropKeys(f)
  PROVE  DeleteInv'
<1>1. PICK b, plan, d, r0, l, td :
         b = Head(del.todo[f]) /\ plan = DeletePlan(idx[f], b.keys, b.min, b.max) /\ d = idx[f]
         /\ r0 = del.r /\ l = del.left /\ td = del.todo
  OBVIOUS
<1>2. PICK e, td2 : e = DeleteKeys(d, plan.full) /\ td2 = [td EXCEPT ![f] = Tail(@)]
  OBVIOUS
<1>3. /\ del.pc = "apply" /\ f \in l /\ td[f] # <<>>
      /\ idx' = [idx EXCEPT ![f] = e]
      /\ del' = [pc |-> "store", file |-> f, new |-> plan.new, r |-> r0, left |-> l, todo |-> td2]
      /\ files' = files /\ tfile' = tfile /\ pending' = pending /\ asked' = asked
      /\ requested' = requested /\ opens' = opens
  BY <1>1, <1>2 DEF DropKeys, writers
<1>4. /\ idx # <<>> /\ r0 \in Requests /\ Ranges(r0) \subseteq requested /\ ApplyOK
  BY <1>1, <1>3, DeletingFacts
<1>5. /\ l \subseteq DOMAIN idx /\ l \subseteq DOMAIN td
      /\ \A g \in DOMAIN td : BatchesOK(td[g], requested)
      /\ \A g \in DOMAIN idx, k \in Nat, t \in Int64 :
            InDelete(k, t) /\ MayHold(idx[g], k, t) => g \in l /\ Ahead(td[g], k, t)
  BY <1>1, <1>4 DEF ApplyOK
<1>6. DOMAIN idx = DOMAIN files /\ \A g \in DOMAIN files : FileHeld(idx[g], files[g], requested, asked)
  BY <1>4 DEF DeleteInv, Held
<1>7. f \in DOMAIN idx /\ f \in DOMAIN files /\ f \in DOMAIN td /\ FileHeld(d, files[f], requested, asked) /\ IndexOK(d)
  BY <1>1, <1>3, <1>5, <1>6 DEF FileHeld
<1>8. /\ DOMAIN idx' = DOMAIN idx /\ idx'[f] = e /\ \A g \in DOMAIN idx : g # f => idx'[g] = idx[g]
  BY <1>3, <1>7
<1>9. /\ DOMAIN td2 = DOMAIN td /\ td2[f] = Tail(td[f]) /\ \A g \in DOMAIN td : g # f => td2[g] = td[g]
  BY <1>2, <1>7
<1>10. /\ BatchesOK(Tail(td[f]), requested) /\ b \in Batch
       /\ \A k \in b.keys : [key |-> k, min |-> b.min, max |-> b.max] \in requested
       /\ \A k, t : Ahead(td[f], k, t) => Ahead(Tail(td[f]), k, t) \/ (k \in b.keys /\ b.min <= t /\ t <= b.max)
  BY <1>1, <1>3, <1>5, <1>7, BatchesTail
<1>11. b.keys \in SUBSET Nat /\ b.min \in Int64 /\ b.max \in Int64
  BY <1>10, BatchFields
<1>12. PICK r : r = [min |-> b.min, max |-> b.max]
  OBVIOUS
<1>13. r \in Span64 /\ r.min = b.min /\ r.max = b.max
  BY <1>11, <1>12 DEF Span64
<1>14. DropOK(d, b.keys, r, plan.full, e)
  BY <1>1, <1>2, <1>7, <1>11, <1>12, DropEffect
<1>15. PlanOK(d, b.keys, r, plan)
  BY <1>1, <1>7, <1>11, <1>12, PlanFacts
<1>16. \A k, t : HasTime(r, t) /\ t \in Int64 <=> b.min <= t /\ t <= b.max /\ t \in Int64
  <2>1. b.min \in Int /\ b.max \in Int /\ \A t \in Int64 : t \in Int
    BY <1>11, TimeAssumption DEF Int64
  <2> QED  BY <1>13, <2>1 DEF HasTime
<1>17. /\ IndexOK(e) /\ e.b = d.b /\ \A k : TombstoneRange(e, k) = TombstoneRange(d, k)
       /\ \A k \in Nat, t \in Int64 :
            /\ MayHold(e, k, t) <=> MayHold(d, k, t) /\ k \notin plan.full
            /\ MayHold(d, k, t) /\ k \in plan.full => k \in b.keys /\ HasTime(r, t)
  BY <1>14 DEF DropOK
<1>18. FileHeld(e, files[f], requested, asked)
  <2>1. ASSUME NEW k \in Nat, NEW t \in Int64, MayHold(d, k, t), ~Covered(k, t, requested)
        PROVE  MayHold(e, k, t)
    <3> SUFFICES ASSUME k \in plan.full PROVE FALSE
      BY <1>17, <2>1
    <3>1. k \in b.keys /\ HasTime(r, t)
      BY <1>17, <2>1
    <3>2. PICK a : a = [key |-> k, min |-> b.min, max |-> b.max]
      OBVIOUS
    <3>3. a \in requested /\ a.key = k /\ HasTime(a, t)
      BY <1>10, <1>13, <3>1, <3>2 DEF HasTime
    <3> QED  BY <2>1, <3>3 DEF Covered
  <2> QED  BY <1>7, <1>17, <2>1, HeldLess
<1>19. Held'
  <2>1. \A g \in DOMAIN files : FileHeld(idx'[g], files[g], requested, asked)
    BY <1>6, <1>8, <1>18
  <2> QED  BY <1>3, <1>6, <1>8, <2>1 DEF Held
<1>20. idx' # <<>>
  BY <1>7, <1>8
<1>21. TombstonesOK' /\ Recoverable'
  BY <1>3, <1>20 DEF DeleteInv, TombstonesOK, Recoverable
<1>22. /\ del'.pc = "store" /\ del'.file = f /\ del'.new = plan.new /\ del'.r = r0 /\ del'.left = l /\ del'.todo = td2
       /\ del' = [pc |-> "store", file |-> del'.file, new |-> del'.new, r |-> del'.r, left |-> del'.left, todo |-> del'.todo]
  BY <1>3
<1>23. \A k, t : InDelete(k, t)' <=> InDelete(k, t)
  BY <1>1, <1>22 DEF InDelete
<1>24. \A k \in DOMAIN plan.new :
          /\ [key |-> k, min |-> r.min, max |-> r.max] \in requested
          /\ plan.new[k] = InsertRange(TombstoneRange(idx'[f], k), r)
  <2>1. \A k \in DOMAIN plan.new : k \in b.keys /\ plan.new[k] = InsertRange(TombstoneRange(d, k), r)
    BY <1>15 DEF PlanOK
  <2> QED  BY <1>8, <1>10, <1>13, <1>17, <2>1
<1>25. \A g \in DOMAIN td2 : BatchesOK(td2[g], requested)
  BY <1>5, <1>9, <1>10
<1>26. ASSUME NEW g \in DOMAIN idx, NEW k \in Nat, NEW t \in Int64, InDelete(k, t), MayHold(idx'[g], k, t)
       PROVE  g \in l /\ (Ahead(td2[g], k, t) \/ (g = f /\ k \in DOMAIN plan.new /\ Deleted(plan.new[k], t)))
  <2>1. CASE g # f
    <3>1. g \in l /\ Ahead(td[g], k, t)
      BY <1>5, <1>8, <1>26, <2>1
    <3> QED  BY <1>5, <1>9, <2>1, <3>1
  <2>2. CASE g = f
    <3>1. MayHold(d, k, t) /\ k \notin plan.full
      BY <1>8, <1>17, <1>26, <2>2
    <3>2. Ahead(td[f], k, t)
      BY <1>1, <1>5, <1>7, <1>26, <3>1
    <3>3. CASE Ahead(Tail(td[f]), k, t)
      BY <1>3, <1>9, <2>2, <3>3
    <3>4. CASE k \in b.keys /\ b.min <= t /\ t <= b.max
      <4>1. HasTime(r, t) /\ Indexed(d, k, t)
        BY <1>16, <3>1, <3>4 DEF MayHold
      <4>2. k \in DOMAIN plan.new /\ plan.new[k] = InsertRange(TombstoneRange(d, k), r)
        BY <1>15, <3>1, <3>4, <4>1 DEF PlanOK
      <4>3. TombstoneList(TombstoneRange(d, k))
        BY <1>7, RangeSorted DEF IndexOK
      <4>4. Deleted(plan.new[k], t)
        BY <1>13, <4>1, <4>2, <4>3, InsertDeletes
      <4> QED  BY <1>3, <2>2, <4>2, <4>4
    <3> QED  BY <1>10, <3>2, <3>3, <3>4
  <2> QED  BY <2>1, <2>2
<1>27. StoringOK'
  <2>1. \A g \in DOMAIN idx, k \in Nat, t \in Int64 :
           InDelete(k, t) /\ MayHold(idx'[g], k, t) =>
              g \in l /\ (Ahead(td2[g], k, t) \/ (g = f /\ k \in DOMAIN plan.new /\ Deleted(plan.new[k], t)))
    BY <1>26
  <2>2. l \subseteq DOMAIN idx' /\ l \subseteq DOMAIN td2
    BY <1>5, <1>8, <1>9
  <2>3. \E q \in Span64 : \A k \in DOMAIN plan.new :
          /\ [key |-> k, min |-> q.min, max |-> q.max] \in requested
          /\ plan.new[k] = InsertRange(TombstoneRange(idx'[f], k), q)
    BY <1>13, <1>24, Zenon
  <2> QED  BY <1>3, <1>8, <1>22, <1>23, <1>25, <2>1, <2>2, <2>3, ZenonT(40) DEF StoringOK
<1>28. DelOK'
  BY <1>3, <1>4, <1>20, <1>22, <1>27, Zenon DEF DelOK
<1> QED  BY <1>19, <1>20, <1>21, <1>28 DEF DeleteInv

(* indirectIndex.DeleteRange, second part. *)
LEMMA DeleteStores ==
  ASSUME WriteInv, DeleteInv, StoreRanges
  PROVE  DeleteInv'
<1>1. PICK f, new, d, r0, l, td :
         f = del.file /\ new = del.new /\ d = idx[f] /\ r0 = del.r /\ l = del.left /\ td = del.todo
  OBVIOUS
<1>2. PICK e : e = StoreTombstones(d, new)
  OBVIOUS
<1>3. /\ del.pc = "store"
      /\ idx' = [idx EXCEPT ![f] = e]
      /\ del' = [pc |-> "apply", r |-> r0, left |-> l, todo |-> td]
      /\ files' = files /\ tfile' = tfile /\ pending' = pending /\ asked' = asked
      /\ requested' = requested /\ opens' = opens
  BY <1>1, <1>2 DEF StoreRanges, writers
<1>4. /\ idx # <<>> /\ r0 \in Requests /\ Ranges(r0) \subseteq requested /\ StoringOK
  BY <1>1, <1>3, DeletingFacts
<1>5. /\ f \in l /\ l \subseteq DOMAIN idx /\ l \subseteq DOMAIN td
      /\ \A g \in DOMAIN td : BatchesOK(td[g], requested)
      /\ \A g \in DOMAIN idx, k \in Nat, t \in Int64 :
            InDelete(k, t) /\ MayHold(idx[g], k, t) =>
               g \in l /\ (Ahead(td[g], k, t) \/ (g = f /\ k \in DOMAIN new /\ Deleted(new[k], t)))
  BY <1>1, <1>4 DEF StoringOK
<1>6. PICK r \in Span64 : \A k \in DOMAIN new :
          /\ [key |-> k, min |-> r.min, max |-> r.max] \in requested
          /\ new[k] = InsertRange(TombstoneRange(d, k), r)
  BY <1>1, <1>4 DEF StoringOK
<1>7. DOMAIN idx = DOMAIN files /\ \A g \in DOMAIN files : FileHeld(idx[g], files[g], requested, asked)
  BY <1>4 DEF DeleteInv, Held
<1>8. f \in DOMAIN idx /\ f \in DOMAIN files /\ FileHeld(d, files[f], requested, asked) /\ IndexOK(d)
  BY <1>1, <1>5, <1>7 DEF FileHeld
<1>9. DOMAIN idx' = DOMAIN idx /\ idx'[f] = e /\ \A g \in DOMAIN idx : g # f => idx'[g] = idx[g]
  BY <1>3, <1>8
<1>10. KeepOK(d, DOMAIN new, r, e)
  <2>1. \A k \in DOMAIN new : new[k] = InsertRange(TombstoneRange(d, k), r)
    BY <1>6
  <2> QED  BY <1>2, <1>8, <2>1, StoreEffect
<1>11. /\ IndexOK(e) /\ e.b = d.b
       /\ \A k \in Nat, t \in Int64 : MayHold(e, k, t) <=> MayHold(d, k, t) /\ ~(k \in DOMAIN new /\ HasTime(r, t))
  BY <1>10 DEF KeepOK
<1>12. FileHeld(e, files[f], requested, asked)
  <2>1. ASSUME NEW k \in Nat, NEW t \in Int64, MayHold(d, k, t), ~Covered(k, t, requested)
        PROVE  MayHold(e, k, t)
    <3> SUFFICES ASSUME k \in DOMAIN new, HasTime(r, t) PROVE FALSE
      BY <1>11, <2>1
    <3>1. PICK a : a = [key |-> k, min |-> r.min, max |-> r.max]
      OBVIOUS
    <3>2. a \in requested /\ a.key = k /\ HasTime(a, t)
      BY <1>6, <3>1 DEF HasTime
    <3> QED  BY <2>1, <3>2 DEF Covered
  <2> QED  BY <1>8, <1>11, <2>1, HeldLess
<1>13. Held'
  <2>1. \A g \in DOMAIN files : FileHeld(idx'[g], files[g], requested, asked)
    BY <1>7, <1>9, <1>12
  <2> QED  BY <1>3, <1>7, <1>9, <2>1 DEF Held
<1>14. idx' # <<>>
  BY <1>8, <1>9
<1>15. TombstonesOK' /\ Recoverable'
  BY <1>3, <1>14 DEF DeleteInv, TombstonesOK, Recoverable
<1>16. /\ del'.pc = "apply" /\ del'.r = r0 /\ del'.left = l /\ del'.todo = td
       /\ del' = [pc |-> "apply", r |-> del'.r, left |-> del'.left, todo |-> del'.todo]
  BY <1>3
<1>17. \A k, t : InDelete(k, t)' <=> InDelete(k, t)
  BY <1>1, <1>16 DEF InDelete
<1>18. ASSUME NEW g \in DOMAIN idx, NEW k \in Nat, NEW t \in Int64, InDelete(k, t), MayHold(idx'[g], k, t)
       PROVE  g \in l /\ Ahead(td[g], k, t)
  <2>1. CASE g # f
    BY <1>5, <1>9, <1>18, <2>1
  <2>2. CASE g = f
    <3>1. MayHold(d, k, t) /\ ~(k \in DOMAIN new /\ HasTime(r, t))
      BY <1>9, <1>11, <1>18, <2>2
    <3>2. ~Deleted(TombstoneRange(d, k), t)
      BY <3>1 DEF MayHold
    <3>3. TombstoneList(TombstoneRange(d, k))
      BY <1>8, RangeSorted DEF IndexOK
    <3>4. k \in DOMAIN new => ~Deleted(new[k], t)
      <4>1. Deleted(InsertRange(TombstoneRange(d, k), r), t) <=> Deleted(TombstoneRange(d, k), t) \/ HasTime(r, t)
        BY <1>6, <3>3, InsertDeletes
      <4>2. k \in DOMAIN new => new[k] = InsertRange(TombstoneRange(d, k), r)
        BY <1>6
      <4> QED  BY <3>1, <3>2, <4>1, <4>2, Zenon
    <3>5. MayHold(idx[g], k, t)
      BY <1>1, <2>2, <3>1
    <3> QED  BY <1>5, <1>18, <3>4, <3>5
  <2> QED  BY <2>1, <2>2
<1>19. ApplyOK'
  <2>1. \A g \in DOMAIN idx, k \in Nat, t \in Int64 : InDelete(k, t) /\ MayHold(idx'[g], k, t) => g \in l /\ Ahead(td[g], k, t)
    BY <1>18
  <2>2. l \subseteq DOMAIN idx'
    BY <1>5, <1>9
  <2> QED  BY <1>3, <1>5, <1>9, <1>16, <1>17, <2>1, <2>2, Zenon DEF ApplyOK
<1>20. DelOK'
  BY <1>3, <1>4, <1>14, <1>16, <1>19, Zenon DEF DelOK
<1> QED  BY <1>13, <1>14, <1>15, <1>20 DEF DeleteInv
(* The iterator reads, and changes nothing else. *)
LEMMA DeleteReads ==
  ASSUME DeleteInv, UNCHANGED writers, UNCHANGED others
  PROVE  DeleteInv'
<1>1. /\ files' = files /\ tfile' = tfile /\ pending' = pending /\ idx' = idx /\ del' = del /\ asked' = asked
      /\ requested' = requested /\ opens' = opens
  BY DEF writers, others
<1>2. TombstonesOK' /\ Held' /\ Recoverable'
  BY <1>1 DEF DeleteInv, TombstonesOK, Held, Recoverable
<1>3. (AddOK <=> AddOK') /\ (ApplyOK <=> ApplyOK') /\ (StoringOK <=> StoringOK')
  <2>1. \A k, t : InDelete(k, t)' <=> InDelete(k, t)
    BY <1>1 DEF InDelete
  <2> QED  BY <1>1, <2>1 DEF AddOK, ApplyOK, StoringOK
<1> QED  BY <1>1, <1>2, <1>3 DEF DeleteInv, DelOK
-----------------------------------------------------------------------------
(* Sequences of sequences *)

(* Each is joined to the ones before it. *)
LEMMA JoinedFacts ==
  ASSUME NEW T, NEW ss, Len(ss) \in Nat, \A i \in 1..Len(ss) : ss[i] \in Seq(T)
  PROVE  /\ \A i \in 0..Len(ss) : Joined(ss)[i] \in Seq(T)
         /\ Joined(ss)[0] = <<>>
         /\ \A i \in 1..Len(ss) : Joined(ss)[i] = Joined(ss)[i - 1] \o ss[i]
<1> DEFINE n == Len(ss)
           X == Seq(T)
           h == [i \in 1..n |-> [x \in X |-> x \o ss[i]]]
           Def(f) == f = [i \in 0..n |-> IF i = 0 THEN <<>> ELSE f[i - 1] \o ss[i]]
           f == CHOOSE x : Def(x)
<1>0. n \in Nat /\ (\A i \in 1..n : ss[i] \in X) /\ <<>> \in X /\ \A x, y \in X : x \o y \in X
  OBVIOUS
<1>1. Joined(ss) = f
  BY DEF Joined
<1> HIDE DEF n, X
<1>2. h \in [1..n -> [X -> X]] /\ \A i \in 1..n, x \in X : h[i][x] = x \o ss[i]
  BY <1>0
<1> HIDE DEF h
<1>3. PICK g \in [0..n -> X] : g[0] = <<>> /\ \A i \in 1..n : g[i] = h[i][g[i - 1]]
  <2>1. \E g \in [0..n -> X] : Stepwise(g, n, <<>>, h)
    BY <1>0, <1>2, StepwiseFunction
  <2> QED  BY <2>1 DEF Stepwise
<1>4. \A i \in 1..n : g[i] = g[i - 1] \o ss[i]
  <2> SUFFICES ASSUME NEW i \in 1..n PROVE g[i] = g[i - 1] \o ss[i]
    OBVIOUS
  <2>1. i - 1 \in 0..n
    BY <1>0
  <2>2. g[i - 1] \in X
    BY <1>3, <2>1
  <2> QED  BY <1>2, <1>3, <2>2
<1>5. Def(g)
  <2>1. \A i \in 0..n : i = 0 \/ i \in 1..n
    BY <1>0
  <2>2. \A i \in 0..n : g[i] = IF i = 0 THEN <<>> ELSE g[i - 1] \o ss[i]
    BY <1>3, <1>4, <2>1, Zenon
  <2>3. g = [i \in 0..n |-> g[i]]
    BY <1>3
  <2> QED  BY <2>2, <2>3, Zenon
<1>6. Def(f)
  <2> HIDE DEF Def
  <2> QED  BY <1>5
<1> HIDE DEF f
<1>7. f[0] = <<>> /\ \A i \in 1..n : f[i] = f[i - 1] \o ss[i]
  <2>1. \A i \in 0..n : f[i] = (IF i = 0 THEN <<>> ELSE f[i - 1] \o ss[i])
    BY <1>6
  <2>2. 0 \in 0..n /\ \A i \in 1..n : i \in 0..n /\ i # 0
    BY <1>0
  <2> QED  BY <2>1, <2>2, Zenon
<1> DEFINE S == {i \in 0..n : f[i] \in X}
<1>8. 0 \in S
  BY <1>0, <1>7
<1>9. ASSUME NEW m \in 0..n, m \in S, m < n PROVE m + 1 \in S
  <2>1. m + 1 \in 1..n /\ (m + 1) - 1 = m /\ m + 1 \in 0..n
    BY <1>0, <1>9
  <2>2. f[m + 1] = f[m] \o ss[m + 1] /\ f[m] \in X /\ ss[m + 1] \in X
    BY <1>0, <1>7, <1>9, <2>1
  <2> QED  BY <1>0, <2>1, <2>2
<1>10. \A m \in 0..n : m \in S
  <2> HIDE DEF S
  <2> QED  BY <1>0, <1>8, <1>9, SetInduction
<1> QED  BY <1>1, <1>7, <1>10 DEF n, X

(* FlattenSeq joins all. *)
LEMMA FlattenJoined ==
  ASSUME NEW T, NEW ss \in Seq(Seq(T))
  PROVE  FlattenSeq(ss) = Joined(ss)[Len(ss)]
<1> DEFINE n == Len(ss)
           Def(f) == f = [i \in 1..n |-> IF i = 1 THEN ss[i] ELSE f[i - 1] \o ss[i]]
           f == CHOOSE x : Def(x)
<1>0. n \in Nat /\ \A i \in 1..n : ss[i] \in Seq(T)
  OBVIOUS
<1>1. PICK J : J = Joined(ss)
  OBVIOUS
<1>2. J[0] = <<>> /\ \A i \in 1..n : J[i] = J[i - 1] \o ss[i]
  BY <1>0, <1>1, JoinedFacts
<1>3. CASE n = 0
  <2>1. ss = <<>>
    BY <1>3
  <2> QED  BY <1>1, <1>2, <1>3, <2>1 DEF FlattenSeq
<1>4. CASE n # 0
  <2>1. FlattenSeq(ss) = f[n]
    BY <1>4 DEF FlattenSeq
  <2> HIDE DEF n
  <2>2. PICK g : g = [i \in 1..n |-> J[i]]
    OBVIOUS
  <2>3. \A s \in Seq(T) : <<>> \o s = s
    OBVIOUS
  <2>4. Def(g)
    <3>1. \A i \in 1..n : g[i] = J[i] /\ (i # 1 => i - 1 \in 1..n) /\ (i = 1 => i - 1 = 0)
      BY <1>0, <2>2
    <3>2. \A i \in 1..n : g[i] = IF i = 1 THEN ss[i] ELSE g[i - 1] \o ss[i]
      <4> SUFFICES ASSUME NEW i \in 1..n PROVE g[i] = IF i = 1 THEN ss[i] ELSE g[i - 1] \o ss[i]
        OBVIOUS
      <4>1. CASE i = 1
        <5>1. g[i] = <<>> \o ss[i]
          BY <1>2, <3>1, <4>1
        <5> QED  BY <1>0, <2>3, <4>1, <5>1
      <4>2. CASE i # 1
        <5>1. g[i - 1] = J[i - 1]
          BY <3>1, <4>2
        <5> QED  BY <1>2, <3>1, <4>2, <5>1
      <4> QED  BY <4>1, <4>2
    <3> QED  BY <2>2, <3>2
  <2>5. Def(f)
    <3> HIDE DEF Def
    <3> QED  BY <2>4
  <2> HIDE DEF f
  <2>6. \A i \in 1..n : f[i] = IF i = 1 THEN ss[i] ELSE f[i - 1] \o ss[i]
    BY <2>5
  <2> DEFINE S == {0} \cup {i \in 1..n : f[i] = J[i]}
  <2>7. 0 \in S
    OBVIOUS
  <2>8. ASSUME NEW m \in 0..n, m \in S, m < n PROVE m + 1 \in S
    <3>1. m + 1 \in 1..n /\ (m + 1) - 1 = m
      BY <1>0, <2>8
    <3>2. CASE m = 0
      <4>1. f[m + 1] = ss[m + 1] /\ J[m + 1] = <<>> \o ss[m + 1]
        <5>1. m + 1 = 1 /\ J[(m + 1) - 1] = <<>>
          BY <1>2, <3>1, <3>2
        <5>2. J[m + 1] = J[(m + 1) - 1] \o ss[m + 1]
          BY <1>2, <3>1
        <5>3. f[m + 1] = ss[m + 1]
          BY <2>6, <3>1, <5>1
        <5> QED  BY <5>1, <5>2, <5>3
      <4> QED  BY <1>0, <2>3, <3>1, <4>1
    <3>3. CASE m # 0
      <4>1. f[m] = J[m] /\ m + 1 # 1
        BY <2>8, <3>3
      <4>2. f[m + 1] = f[m] \o ss[m + 1] /\ J[m + 1] = J[m] \o ss[m + 1]
        BY <1>2, <2>6, <3>1, <4>1
      <4> QED  BY <3>1, <4>1, <4>2
    <3> QED  BY <3>2, <3>3
  <2>9. \A m \in 0..n : m \in S
    <3> HIDE DEF S
    <3> QED  BY <1>0, <2>7, <2>8, SetInduction
  <2>10. n \in 0..n
    BY <1>0
  <2> QED  BY <1>1, <1>4, <2>1, <2>9, <2>10 DEF n
<1> QED  BY <1>3, <1>4

(* Joining depends on the sequences joined. *)
LEMMA JoinedSame ==
  ASSUME NEW T, NEW ss, NEW tt, Len(ss) \in Nat, Len(tt) \in Nat, Len(ss) <= Len(tt),
         \A i \in 1..Len(tt) : tt[i] \in Seq(T), \A i \in 1..Len(ss) : ss[i] = tt[i]
  PROVE  \A i \in 0..Len(ss) : Joined(ss)[i] = Joined(tt)[i]
<1>1. PICK n, m, J, K : n = Len(ss) /\ m = Len(tt) /\ J = Joined(ss) /\ K = Joined(tt)
  OBVIOUS
<1>2. n \in Nat /\ m \in Nat /\ n <= m /\ \A i \in 1..n : i \in 1..m /\ ss[i] = tt[i] /\ ss[i] \in Seq(T)
  BY <1>1
<1>3. /\ J[0] = <<>> /\ \A i \in 1..n : J[i] = J[i - 1] \o ss[i]
      /\ K[0] = <<>> /\ \A i \in 1..m : K[i] = K[i - 1] \o tt[i]
  BY <1>1, <1>2, JoinedFacts
<1> DEFINE S == {i \in 0..n : J[i] = K[i]}
<1>4. 0 \in S
  BY <1>2, <1>3
<1>5. ASSUME NEW i \in 0..n, i \in S, i < n PROVE i + 1 \in S
  <2>1. i + 1 \in 1..n /\ (i + 1) - 1 = i /\ i + 1 \in 0..n
    BY <1>2, <1>5
  <2>2. J[i + 1] = J[i] \o ss[i + 1] /\ K[i + 1] = K[i] \o tt[i + 1] /\ ss[i + 1] = tt[i + 1] /\ J[i] = K[i]
    BY <1>2, <1>3, <1>5, <2>1
  <2> QED  BY <2>1, <2>2
<1>6. \A i \in 0..n : i \in S
  <2> HIDE DEF S
  <2> QED  BY <1>2, <1>4, <1>5, SetInduction
<1> QED  BY <1>1, <1>6
-----------------------------------------------------------------------------
(* The iterator *)

(* Parts of a sequence. *)
LEMMA SubFacts ==
  ASSUME NEW T, NEW s \in Seq(T), NEW j \in 1..Len(s)
  PROVE  /\ SubSeq(s, j, Len(s)) \in Seq(T) /\ SubSeq(s, j, Len(s)) # <<>> /\ SubSeq(s, 1, j) \in Seq(T)
         /\ SubSeq(s, j, Len(s))[1] = s[j]
         /\ SubSeq(s, 1, Len(s)) = s
<1> PICK n : n = Len(s)
  OBVIOUS
<1>1. n \in Nat /\ DOMAIN s = 1..n /\ j \in 1..n /\ \A i \in 1..n : s[i] \in T
  OBVIOUS
<1>2. /\ SubSeq(s, j, n) \in Seq(T) /\ Len(SubSeq(s, j, n)) = n - j + 1 /\ SubSeq(s, j, n)[1] = s[j]
      /\ SubSeq(s, 1, j) \in Seq(T)
  BY <1>1
<1>3. SubSeq(s, 1, n) \in Seq(T) /\ Len(SubSeq(s, 1, n)) = n /\ \A i \in 1..n : SubSeq(s, 1, n)[i] = s[i]
  BY <1>1
<1>4. SubSeq(s, 1, n) = s
  BY <1>1, <1>3, SeqEqual
<1>5. n - j + 1 # 0 /\ Len(<<>>) = 0
  BY <1>1
<1> QED  BY <1>2, <1>4, <1>5

LEMMA SubNext ==
  ASSUME NEW T, NEW s \in Seq(T), NEW j \in 1..Len(s)
  PROVE  /\ j = Len(s) => Tail(SubSeq(s, j, Len(s))) = <<>>
         /\ j # Len(s) => /\ j + 1 \in 1..Len(s) /\ Tail(SubSeq(s, j, Len(s))) = SubSeq(s, j + 1, Len(s))
                          /\ Append(SubSeq(s, 1, j), s[j + 1]) = SubSeq(s, 1, j + 1)
<1> PICK n : n = Len(s)
  OBVIOUS
<1>1. n \in Nat /\ DOMAIN s = 1..n /\ j \in 1..n /\ \A i \in 1..n : s[i] \in T
  OBVIOUS
<1>2. /\ SubSeq(s, j, n) \in Seq(T) /\ Len(SubSeq(s, j, n)) = n - j + 1
      /\ \A i \in 1..(n - j + 1) : SubSeq(s, j, n)[i] = s[j + i - 1]
  BY <1>1
<1>3. SubSeq(s, j, n) # <<>>
  <2>1. n - j + 1 # 0 /\ Len(<<>>) = 0
    BY <1>1
  <2> QED  BY <1>2, <2>1
<1>4. /\ Tail(SubSeq(s, j, n)) \in Seq(T) /\ Len(Tail(SubSeq(s, j, n))) = n - j
      /\ \A i \in 1..(n - j) : Tail(SubSeq(s, j, n))[i] = SubSeq(s, j, n)[i + 1]
  BY <1>1, <1>2, <1>3
<1>5. ASSUME j # n
      PROVE  /\ j + 1 \in 1..n /\ Tail(SubSeq(s, j, n)) = SubSeq(s, j + 1, n)
             /\ Append(SubSeq(s, 1, j), s[j + 1]) = SubSeq(s, 1, j + 1)
  <2>1. j + 1 \in 1..n
    BY <1>1, <1>5
  <2>2. /\ SubSeq(s, j + 1, n) \in Seq(T) /\ Len(SubSeq(s, j + 1, n)) = n - j
        /\ \A i \in 1..(n - j) : SubSeq(s, j + 1, n)[i] = s[j + i]
    BY <1>1, <2>1
  <2>3. \A i \in 1..(n - j) : Tail(SubSeq(s, j, n))[i] = s[j + i]
    <3> SUFFICES ASSUME NEW i \in 1..(n - j) PROVE Tail(SubSeq(s, j, n))[i] = s[j + i]
      OBVIOUS
    <3>1. i + 1 \in 1..(n - j + 1) /\ j + (i + 1) - 1 = j + i
      BY <1>1
    <3>2. SubSeq(s, j, n)[i + 1] = s[j + (i + 1) - 1]
      BY <1>2, <3>1
    <3> QED  BY <1>4, <3>1, <3>2
  <2>4. Tail(SubSeq(s, j, n)) = SubSeq(s, j + 1, n)
    BY <1>4, <2>2, <2>3, SeqEqual
  <2>5. /\ SubSeq(s, 1, j) \in Seq(T) /\ Len(SubSeq(s, 1, j)) = j /\ \A i \in 1..j : SubSeq(s, 1, j)[i] = s[i]
        /\ SubSeq(s, 1, j + 1) \in Seq(T) /\ Len(SubSeq(s, 1, j + 1)) = j + 1
        /\ \A i \in 1..(j + 1) : SubSeq(s, 1, j + 1)[i] = s[i]
    BY <1>1, <2>1
  <2>6. PICK p, q : p = SubSeq(s, 1, j) /\ q = SubSeq(s, 1, j + 1)
    OBVIOUS
  <2>7. /\ Append(p, s[j + 1]) \in Seq(T) /\ Len(Append(p, s[j + 1])) = j + 1 /\ Append(p, s[j + 1])[j + 1] = s[j + 1]
        /\ \A i \in 1..j : Append(p, s[j + 1])[i] = p[i]
    BY <1>1, <2>1, <2>5, <2>6, Appended
  <2>8. \A i \in 1..(j + 1) : i \in 1..j \/ i = j + 1
    BY <1>1
  <2>9. \A i \in 1..(j + 1) : Append(p, s[j + 1])[i] = q[i]
    BY <2>5, <2>6, <2>7, <2>8
  <2>10. Append(p, s[j + 1]) = q
    BY <2>5, <2>6, <2>7, <2>9, SeqEqual
  <2> QED  BY <2>1, <2>4, <2>6, <2>10
<1>6. ASSUME j = n PROVE Tail(SubSeq(s, j, n)) = <<>>
  <2>1. Len(Tail(SubSeq(s, j, n))) = 0
    BY <1>1, <1>4, <1>6
  <2> QED  BY <1>4, <2>1
<1> QED  BY <1>5, <1>6

LEMMA SubOne ==
  ASSUME NEW T, NEW s \in Seq(T), 1 \in 1..Len(s)
  PROVE  SubSeq(s, 1, 1) = <<s[1]>>
<1>1. PICK u, a : u = SubSeq(s, 1, 1) /\ a = s[1]
  OBVIOUS
<1>2. u \in Seq(T) /\ Len(u) = 1 /\ u[1] = a /\ a \in T
  BY <1>1
<1>3. u = <<a>>
  BY <1>2
<1> QED  BY <1>1, <1>3

LEMMA JoinTwo ==
  ASSUME NEW T, NEW a \in Seq(T), NEW b \in Seq(T)
  PROVE  /\ a \o b \in Seq(T) /\ Len(a \o b) = Len(a) + Len(b) /\ Len(a) \in Nat /\ Len(b) \in Nat
         /\ \A i \in 1..(Len(a) + Len(b)) : (a \o b)[i] = IF i <= Len(a) THEN a[i] ELSE b[i - Len(a)]
  OBVIOUS

LEMMA JoinLonger ==
  ASSUME NEW T, NEW a \in Seq(T), NEW b \in Seq(T), NEW c \in Seq(T)
  PROVE  /\ (a \o b) \o c = a \o (b \o c) /\ a \o b \in Seq(T)
         /\ <<>> \o a = a /\ a \o <<>> = a
<1>1. <<>> \o a = a /\ a \o <<>> = a /\ a \o b \in Seq(T)
  OBVIOUS
<1>2. PICK x, y, z, p, q, u, v : /\ x = Len(a) /\ y = Len(b) /\ z = Len(c) /\ p = a \o b /\ q = b \o c
                                /\ u = p \o c /\ v = a \o q
  OBVIOUS
<1>3. x \in Nat /\ y \in Nat /\ z \in Nat
  BY <1>2
<1>4. /\ p \in Seq(T) /\ Len(p) = x + y /\ (\A i \in 1..(x + y) : p[i] = IF i <= x THEN a[i] ELSE b[i - x])
      /\ q \in Seq(T) /\ Len(q) = y + z /\ (\A i \in 1..(y + z) : q[i] = IF i <= y THEN b[i] ELSE c[i - y])
  BY <1>2, JoinTwo
<1>5. /\ u \in Seq(T) /\ Len(u) = x + y + z /\ (\A i \in 1..(x + y + z) : u[i] = IF i <= x + y THEN p[i] ELSE c[i - (x + y)])
      /\ v \in Seq(T) /\ Len(v) = x + y + z /\ (\A i \in 1..(x + y + z) : v[i] = IF i <= x THEN a[i] ELSE q[i - x])
  <2>1. \A i \in 1..(x + (y + z)) : v[i] = IF i <= x THEN a[i] ELSE q[i - x]
    BY <1>2, <1>3, <1>4
  <2> QED  BY <1>2, <1>3, <1>4, <2>1
<1>6. ASSUME NEW i \in 1..(x + y + z) PROVE u[i] = v[i]
  <2>1. CASE i <= x
    <3>1. i <= x + y /\ i \in 1..(x + y)
      BY <1>3, <2>1
    <3> QED  BY <1>4, <1>5, <2>1, <3>1
  <2>2. CASE ~(i <= x) /\ i <= x + y
    <3>1. i \in 1..(x + y) /\ i - x \in 1..(y + z) /\ i - x <= y
      BY <1>3, <2>2
    <3> QED  BY <1>4, <1>5, <2>2, <3>1
  <2>3. CASE ~(i <= x) /\ ~(i <= x + y)
    <3>1. i - x \in 1..(y + z) /\ ~(i - x <= y) /\ (i - x) - y = i - (x + y)
      BY <1>3, <2>3
    <3> QED  BY <1>4, <1>5, <2>3, <3>1
  <2> QED  BY <2>1, <2>2, <2>3
<1>7. u = v
  BY <1>5, <1>6, SeqEqual
<1> QED  BY <1>1, <1>2, <1>7

IterBlock == [key : Nat, entry : FileEntry]

(* The offsets of an index lead to sections of its file. *)
LEMMA SectionOfFile ==
  ASSUME NEW d, IndexOK(d), NEW i \in 1..Len(d.offsets)
  PROVE  \E x \in DOMAIN d.b : Section(d, i) = d.b[x]
<1>1. Section(d, i).entries # <<>>
  BY DEF IndexOK, SectionOK
<1>2. Section(d, i) # Garbage
  BY <1>1 DEF Garbage
<1> QED  BY <1>2 DEF Section, SectionAt

(* The blocks of a section. *)
LEMMA DeliveredFacts ==
  ASSUME NEW file, FileOK(file), NEW x \in DOMAIN file.index, NEW s, s = file.index[x]
  PROVE  /\ s.entries \in Seq(FileEntry) /\ s.key \in Nat /\ Len(s.entries) \in Nat \ {0}
         /\ Delivered(s) \in Seq(IterBlock) /\ Len(Delivered(s)) = Len(s.entries)
         /\ \A j \in 1..Len(s.entries) : Delivered(s)[j] = [key |-> s.key, entry |-> s.entries[j]]
<1>1. PICK n : BlocksOK(file.blocks, n)
  BY DEF FileOK
<1>2. s.key \in Nat /\ EntriesOK(s.entries, file.blocks)
  BY DEF FileOK, SectionsOK
<1>3. s.entries \in Seq(FileEntry) /\ s.entries # <<>>
  BY <1>2 DEF EntriesOK
<1>4. PICK es, l : es = s.entries /\ l = Len(es)
  OBVIOUS
<1>5. l \in Nat \ {0} /\ DOMAIN es = 1..l /\ \A j \in 1..l : es[j] \in FileEntry
  BY <1>3, <1>4
<1>6. \A j \in 1..l : [key |-> s.key, entry |-> es[j]] \in IterBlock
  BY <1>2, <1>5 DEF IterBlock
<1>7. PICK D : D = Delivered(s)
  OBVIOUS
<1>8. D = [j \in 1..l |-> [key |-> s.key, entry |-> es[j]]]
  BY <1>4, <1>5, <1>7 DEF Delivered
<1>9. D \in [1..l -> IterBlock] /\ \A j \in 1..l : D[j] = [key |-> s.key, entry |-> es[j]]
  BY <1>6, <1>8
<1>10. \A X : \A u \in [1..l -> X] : u \in Seq(X) /\ Len(u) = l
  BY <1>5
<1>11. D \in Seq(IterBlock) /\ Len(D) = l
  BY <1>9, <1>10, Zenon
<1> QED  BY <1>2, <1>3, <1>4, <1>5, <1>7, <1>9, <1>11

(* The keys of an iterator are those of sections of the file. *)
KnownKeys(b, keys) == \A j \in 1..Len(keys) : \E x \in DOMAIN b : SectionAt(b, keys[j]) = b[x]

(* All the blocks an iterator is to deliver. *)
LEMMA DeliveredSeq ==
  ASSUME NEW file, FileOK(file), NEW b, b = file.index, NEW keys \in Seq(Int), KnownKeys(b, keys),
         NEW ss, ss = DeliveredOf(b, keys)
  PROVE  ss \in Seq(Seq(IterBlock)) /\ Len(ss) = Len(keys)
<1>1. PICK n : n = Len(keys)
  OBVIOUS
<1>2. n \in Nat /\ DOMAIN keys = 1..n
  BY <1>1
<1>3. \A j \in 1..n : Delivered(SectionAt(b, keys[j])) \in Seq(IterBlock)
  <2> SUFFICES ASSUME NEW j \in 1..n PROVE Delivered(SectionAt(b, keys[j])) \in Seq(IterBlock)
    OBVIOUS
  <2>1. PICK x \in DOMAIN b : SectionAt(b, keys[j]) = b[x]
    BY <1>1 DEF KnownKeys
  <2> QED  BY <2>1, DeliveredFacts
<1>4. ss = [i \in 1..n |-> Delivered(SectionAt(b, keys[i]))]
  BY <1>2 DEF DeliveredOf
<1>5. ss \in [1..n -> Seq(IterBlock)] /\ \A i \in 1..n : ss[i] = Delivered(SectionAt(b, keys[i]))
  BY <1>3, <1>4
<1>6. \A X : \A u \in [1..n -> X] : u \in Seq(X) /\ Len(u) = n
  BY <1>2
<1>7. ss \in Seq(Seq(IterBlock)) /\ Len(ss) = n
  BY <1>5, <1>6, Zenon
<1> QED  BY <1>1, <1>7, Zenon

LEMMA DeliveredAll ==
  ASSUME NEW file, FileOK(file), NEW b, b = file.index, NEW keys \in Seq(Int),
         KnownKeys(b, keys), NEW ss, ss = DeliveredOf(b, keys)
  PROVE  /\ ss \in Seq(Seq(IterBlock)) /\ Len(ss) = Len(keys) /\ Len(keys) \in Nat
         /\ \A i \in 1..Len(keys) : ss[i] = Delivered(SectionAt(b, keys[i]))
         /\ \A i \in 0..Len(keys) : Joined(ss)[i] \in Seq(IterBlock)
         /\ Joined(ss)[0] = <<>>
         /\ \A i \in 1..Len(keys) : Joined(ss)[i] = Joined(ss)[i - 1] \o Delivered(SectionAt(b, keys[i]))
<1>1. PICK n : n = Len(keys)
  OBVIOUS
<1>2. n \in Nat /\ DOMAIN keys = 1..n
  BY <1>1
<1>3. \A j \in 1..n : Delivered(SectionAt(b, keys[j])) \in Seq(IterBlock)
  <2> SUFFICES ASSUME NEW j \in 1..n PROVE Delivered(SectionAt(b, keys[j])) \in Seq(IterBlock)
    OBVIOUS
  <2>1. PICK x \in DOMAIN b : SectionAt(b, keys[j]) = b[x]
    BY <1>1 DEF KnownKeys
  <2> QED  BY <2>1, DeliveredFacts
<1>4. ss = [i \in 1..n |-> Delivered(SectionAt(b, keys[i]))]
  BY <1>2 DEF DeliveredOf
<1>5. ss \in [1..n -> Seq(IterBlock)] /\ \A i \in 1..n : ss[i] = Delivered(SectionAt(b, keys[i]))
  BY <1>3, <1>4
<1>6. \A X : \A u \in [1..n -> X] : u \in Seq(X) /\ Len(u) = n
  BY <1>2
<1>7. ss \in Seq(Seq(IterBlock)) /\ Len(ss) = n
  BY <1>5, <1>6, Zenon
<1>8. /\ \A i \in 0..n : Joined(ss)[i] \in Seq(IterBlock)
      /\ Joined(ss)[0] = <<>>
      /\ \A i \in 1..n : Joined(ss)[i] = Joined(ss)[i - 1] \o ss[i]
  <2>1. Len(ss) \in Nat /\ \A i \in 1..Len(ss) : ss[i] \in Seq(IterBlock)
    BY <1>2, <1>3, <1>5, <1>7
  <2>2. /\ \A i \in 0..Len(ss) : Joined(ss)[i] \in Seq(IterBlock)
        /\ Joined(ss)[0] = <<>>
        /\ \A i \in 1..Len(ss) : Joined(ss)[i] = Joined(ss)[i - 1] \o ss[i]
    <3>1. PICK T, uu : T = IterBlock /\ uu = ss
      OBVIOUS
    <3>2. Len(uu) \in Nat /\ \A i \in 1..Len(uu) : uu[i] \in Seq(T)
      BY <2>1, <3>1
    <3>3. /\ \A i \in 0..Len(uu) : Joined(uu)[i] \in Seq(T)
          /\ Joined(uu)[0] = <<>>
          /\ \A i \in 1..Len(uu) : Joined(uu)[i] = Joined(uu)[i - 1] \o uu[i]
      BY <3>2, JoinedFacts
    <3> QED  BY <3>1, <3>3
  <2> QED  BY <1>7, <2>2, Zenon
<1>9. \A i \in 1..n : Joined(ss)[i] = Joined(ss)[i - 1] \o Delivered(SectionAt(b, keys[i]))
  BY <1>5, <1>8, Zenon
<1> QED  BY <1>1, <1>2, <1>5, <1>7, <1>8, <1>9, Zenon
(* The iterator as a record. *)
It(f, i, n, k, es, err, done, keys, out) ==
    [file |-> f, i |-> i, n |-> n, key |-> k, entries |-> es, err |-> err, done |-> done, keys |-> keys, out |-> out]

(* BlockIterator.Next, in parts. *)
IterRest(it) == IF it.entries = <<>> THEN <<>> ELSE Tail(it.entries)

IterMoved(it, d) == [it EXCEPT !.key = KeyAt(d, it.i), !.entries = EntriesAt(d, it.i), !.i = @ + 1]

IterAfter(it, d) ==
    IF IterRest(it) # <<>> THEN Deliver([it EXCEPT !.entries = IterRest(it)])
    ELSE IF it.i >= it.n THEN [it EXCEPT !.entries = <<>>, !.done = TRUE]
    ELSE IF it.n # KeyCount(d) THEN [IterMoved(it, d) EXCEPT !.err = TRUE, !.done = TRUE]
    ELSE IF IterMoved(it, d).entries = <<>> THEN [IterMoved(it, d) EXCEPT !.done = TRUE]
    ELSE Deliver(IterMoved(it, d))

(* While the number of keys is the one it began with, they are the same. *)
LEMMA IterMoves ==
  ASSUME NEW file, FileOK(file), NEW d, IndexOK(d), d.b = file.index,
         NEW it, IterOK(it, d), ~it.done, NEW next, next = IterAfter(it, d)
  PROVE  IterOK(next, d) /\ next.file = it.file
<1>0. PICK rest, moved, no, yes : rest = IterRest(it) /\ moved = IterMoved(it, d) /\ no = FALSE /\ yes = TRUE
  OBVIOUS
<1>1. PICK f, i, n, k, es, keys, out :
        f = it.file /\ i = it.i /\ n = it.n /\ k = it.key /\ es = it.entries /\ keys = it.keys /\ out = it.out
  OBVIOUS
<1>2. ~it.err /\ it.err \in BOOLEAN /\ it.done \in BOOLEAN
  BY DEF IterOK
<1>3. it = It(f, i, n, k, es, no, no, keys, out)
  <2>1. it = It(it.file, it.i, it.n, it.key, it.entries, it.err, it.done, it.keys, it.out)
    BY DEF IterOK, It
  <2>2. it.err = no /\ it.done = no
    BY <1>0, <1>2, Zenon
  <2> QED  BY <1>1, <2>1, <2>2, Zenon
<1>4. /\ keys \in Seq(Int) /\ n = Len(keys) /\ n \in Nat /\ i \in 0..n
      /\ \A j \in 1..n : \E x \in DOMAIN d.b : SectionAt(d.b, keys[j]) = d.b[x]
      /\ Len(d.offsets) <= n /\ (Len(d.offsets) = n => d.offsets = keys)
  BY <1>1 DEF IterOK
<1>5. PICK ss, J : ss = DeliveredOf(d.b, keys) /\ J = Joined(ss)
  OBVIOUS
<1>6. /\ (\A m \in 0..n : J[m] \in Seq(IterBlock)) /\ J[0] = <<>>
      /\ \A m \in 1..n : J[m] = J[m - 1] \o Delivered(SectionAt(d.b, keys[m]))
  <2>1. PICK b : b = d.b
    OBVIOUS
  <2>2. b = file.index /\ ss = DeliveredOf(b, keys)
    BY <1>5, <2>1
  <2>3. keys \in Seq(Int) /\ KnownKeys(b, keys)
    BY <1>4, <2>1, Zenon DEF KnownKeys
  <2>4. /\ \A m \in 0..Len(keys) : Joined(ss)[m] \in Seq(IterBlock)
        /\ Joined(ss)[0] = <<>>
        /\ \A m \in 1..Len(keys) : Joined(ss)[m] = Joined(ss)[m - 1] \o Delivered(SectionAt(b, keys[m]))
    <3>1. PICK uu : uu = ss
      OBVIOUS
    <3>2. uu = DeliveredOf(b, keys)
      BY <2>2, <3>1
    <3>3. /\ \A m \in 0..Len(keys) : Joined(uu)[m] \in Seq(IterBlock)
          /\ Joined(uu)[0] = <<>>
          /\ \A m \in 1..Len(keys) : Joined(uu)[m] = Joined(uu)[m - 1] \o Delivered(SectionAt(b, keys[m]))
      BY <2>2, <2>3, <3>2, DeliveredAll, ZenonT(60)
    <3> QED  BY <3>1, <3>3, Zenon
  <2> QED  BY <1>4, <1>5, <2>1, <2>4, Zenon
<1>7. ASSUME NEW m \in 1..n, NEW s, s = SectionAt(d.b, keys[m])
      PROVE  /\ s.entries \in Seq(FileEntry) /\ s.key \in Nat /\ Len(s.entries) \in Nat \ {0}
             /\ Delivered(s) \in Seq(IterBlock) /\ Len(Delivered(s)) = Len(s.entries)
             /\ \A j \in 1..Len(s.entries) : Delivered(s)[j] = [key |-> s.key, entry |-> s.entries[j]]
  <2>1. PICK x \in DOMAIN d.b : s = d.b[x]
    BY <1>4, <1>7
  <2> QED  BY <2>1, DeliveredFacts
<1>8. /\ i = 0 => out = <<>> /\ es = <<>>
      /\ i # 0 => OnBlock(it, SectionAt(d.b, keys[i]), J[i - 1])
  BY <1>1, <1>5 DEF IterOK
<1>9. CASE rest # <<>>
  <2>1. es # <<>> /\ rest = Tail(es) /\ i # 0
    BY <1>0, <1>1, <1>8, <1>9 DEF IterRest
  <2>2. i \in 1..n /\ i - 1 \in 0..n
    BY <1>4, <2>1
  <2>3. PICK s : s = SectionAt(d.b, keys[i])
    OBVIOUS
  <2>4. /\ s.entries \in Seq(FileEntry) /\ s.key \in Nat /\ Len(s.entries) \in Nat \ {0}
        /\ Delivered(s) \in Seq(IterBlock) /\ Len(Delivered(s)) = Len(s.entries)
        /\ \A j \in 1..Len(s.entries) : Delivered(s)[j] = [key |-> s.key, entry |-> s.entries[j]]
    BY <1>7, <2>2, <2>3
  <2>5. PICK j \in 1..Len(s.entries) : /\ k = s.key /\ es = SubSeq(s.entries, j, Len(s.entries))
                                      /\ out = J[i - 1] \o SubSeq(Delivered(s), 1, j)
    BY <1>1, <1>8, <2>1, <2>3 DEF OnBlock
  <2>6. j # Len(s.entries)
    BY <1>9, <2>1, <2>4, <2>5, SubNext
  <2>7. j + 1 \in 1..Len(s.entries) /\ rest = SubSeq(s.entries, j + 1, Len(s.entries))
    BY <2>1, <2>4, <2>5, <2>6, SubNext
  <2>8. rest[1] = s.entries[j + 1]
    BY <2>4, <2>7, SubFacts
  <2>9. PICK D, q, x : D = Delivered(s) /\ q = SubSeq(D, 1, j) /\ x = [key |-> k, entry |-> rest[1]]
    OBVIOUS
  <2>10. x = D[j + 1] /\ x \in IterBlock /\ q \in Seq(IterBlock) /\ Append(q, x) = SubSeq(D, 1, j + 1)
    <3>1. D \in Seq(IterBlock) /\ j \in 1..Len(D) /\ j # Len(D) /\ j + 1 \in 1..Len(D)
      BY <2>4, <2>6, <2>7, <2>9
    <3>2. x = D[j + 1]
      BY <2>4, <2>5, <2>7, <2>8, <2>9
    <3>3. D[j + 1] \in IterBlock
      BY <3>1
    <3>4. q \in Seq(IterBlock) /\ Append(q, D[j + 1]) = SubSeq(D, 1, j + 1)
      BY <2>9, <3>1, SubFacts, SubNext
    <3> QED  BY <3>2, <3>3, <3>4
  <2>11. Append(out, x) = J[i - 1] \o SubSeq(D, 1, j + 1)
    <3>1. PICK a : a = J[i - 1]
      OBVIOUS
    <3>2. a \in Seq(IterBlock)
      BY <1>6, <2>2, <3>1
    <3>3. PICK T : T = IterBlock
      OBVIOUS
    <3>4. a \in Seq(T) /\ q \in Seq(T) /\ x \in T
      BY <2>10, <3>2, <3>3
    <3>5. Append(a \o q, x) = a \o Append(q, x)
      <4>1. \A v \in Seq(T) : v \o <<x>> = Append(v, x)
        BY <3>4
      <4>2. PICK one, u : one = <<x>> /\ u = a \o q
        OBVIOUS
      <4>3. one \in Seq(T) /\ u \in Seq(T)
        BY <3>4, <4>2
      <4>4. u \o one = a \o (q \o one)
        BY <3>4, <4>2, <4>3, JoinLonger
      <4> QED  BY <3>4, <4>1, <4>2, <4>3, <4>4, Zenon
    <3> QED  BY <2>5, <2>9, <2>10, <3>1, <3>5
  <2>120. PICK out2 : out2 = Append(out, x)
    OBVIOUS
  <2>12. next = It(f, i, n, k, rest, no, no, keys, out2)
    <3>1. PICK y : y = [it EXCEPT !.entries = rest]
      OBVIOUS
    <3>2. y = It(f, i, n, k, rest, no, no, keys, out)
      BY <1>3, <3>1 DEF It
    <3>3. y.key = k /\ y.entries = rest /\ y.out = out
      BY <3>2 DEF It
    <3>4. Deliver(y) = [y EXCEPT !.out = out2]
      BY <2>9, <2>120, <3>3 DEF Deliver
    <3>5. next = Deliver(y)
      BY <1>0, <1>9, <3>1, Zenon DEF IterAfter
    <3>6. next = [y EXCEPT !.out = out2]
      BY <3>4, <3>5
    <3> QED  BY <3>2, <3>6 DEF It
  <2>13. /\ next.file = f /\ next.i = i /\ next.n = n /\ next.key = k /\ next.entries = rest /\ next.err = no
         /\ next.done = no /\ next.keys = keys /\ next.out = out2
         /\ next = [file |-> next.file, i |-> next.i, n |-> next.n, key |-> next.key, entries |-> next.entries,
                    err |-> next.err, done |-> next.done, keys |-> next.keys, out |-> next.out]
    BY <2>12 DEF It
  <2>14. OnBlock(next, s, J[i - 1])
    BY <2>5, <2>7, <2>9, <2>11, <2>120, <2>13 DEF OnBlock
  <2>15. ~next.err /\ next.err \in BOOLEAN /\ ~next.done /\ next.done \in BOOLEAN
    BY <1>0, <2>13, Zenon
  <2> QED  BY <1>1, <1>4, <1>5, <2>1, <2>3, <2>13, <2>14, <2>15, Zenon DEF IterOK
<1>10. CASE rest = <<>>
  <2>1. out = J[i] /\ out \in Seq(IterBlock)
    <3>1. CASE i = 0
      <4>1. 0 \in 0..n
        BY <1>4
      <4> QED  BY <1>6, <1>8, <3>1, <4>1
    <3>2. CASE i # 0
      <4>1. i \in 1..n /\ i - 1 \in 0..n
        BY <1>4, <3>2
      <4>2. PICK s : s = SectionAt(d.b, keys[i])
        OBVIOUS
      <4>3. /\ s.entries \in Seq(FileEntry) /\ Len(s.entries) \in Nat \ {0}
            /\ Delivered(s) \in Seq(IterBlock) /\ Len(Delivered(s)) = Len(s.entries)
        BY <1>7, <4>1, <4>2
      <4>4. PICK j \in 1..Len(s.entries) : /\ es = SubSeq(s.entries, j, Len(s.entries))
                                          /\ out = J[i - 1] \o SubSeq(Delivered(s), 1, j)
        BY <1>1, <1>8, <3>2, <4>2 DEF OnBlock
      <4>5. es # <<>> /\ rest = Tail(es)
        <5>1. es # <<>>
          BY <4>3, <4>4, SubFacts
        <5> QED  BY <1>0, <1>1, <5>1 DEF IterRest
      <4>6. j = Len(s.entries)
        <5> SUFFICES ASSUME j # Len(s.entries) PROVE FALSE
          OBVIOUS
        <5>1. j + 1 \in 1..Len(s.entries) /\ rest = SubSeq(s.entries, j + 1, Len(s.entries))
          BY <4>3, <4>4, <4>5, SubNext
        <5>2. rest # <<>>
          BY <4>3, <5>1, SubFacts
        <5> QED  BY <1>10, <5>2
      <4>7. SubSeq(Delivered(s), 1, j) = Delivered(s)
        <5>1. PICK D : D = Delivered(s)
          OBVIOUS
        <5>2. D \in Seq(IterBlock) /\ 1 \in 1..Len(D) /\ j = Len(D)
          BY <4>3, <4>6, <5>1
        <5>3. SubSeq(D, 1, Len(D)) = D
          BY <5>2
        <5> QED  BY <5>1, <5>2, <5>3
      <4>8. J[i] = J[i - 1] \o Delivered(s)
        BY <1>6, <4>1, <4>2
      <4>9. out = J[i]
        BY <4>4, <4>7, <4>8, Zenon
      <4>10. J[i] \in Seq(IterBlock)
        BY <1>4, <1>6
      <4> QED  BY <4>9, <4>10, Zenon
    <3> QED  BY <3>1, <3>2
  <2>2. CASE i >= n
    <3>1. i = n
      BY <1>4, <2>2
    <3>2. next = It(f, i, n, k, <<>>, no, yes, keys, out)
      <4>1. next = [it EXCEPT !.entries = <<>>, !.done = TRUE]
        BY <1>0, <1>1, <1>10, <2>2, Zenon DEF IterAfter
      <4>2. PICK y, e : y = [it EXCEPT !.entries = e] /\ e = <<>>
        OBVIOUS
      <4>3. y = It(f, i, n, k, e, no, no, keys, out)
        BY <1>3, <4>2 DEF It
      <4>4. next = [y EXCEPT !.done = yes]
        BY <1>0, <4>1, <4>2, Zenon
      <4> QED  BY <4>2, <4>3, <4>4 DEF It
    <3>3. /\ next.file = f /\ next.i = i /\ next.n = n /\ next.err = no
          /\ next.done = yes /\ next.keys = keys /\ next.out = out
          /\ next = [file |-> next.file, i |-> next.i, n |-> next.n, key |-> next.key, entries |-> next.entries,
                     err |-> next.err, done |-> next.done, keys |-> next.keys, out |-> next.out]
      BY <3>2 DEF It
    <3>4. ~next.err /\ next.err \in BOOLEAN /\ next.done /\ next.done \in BOOLEAN
      BY <1>0, <3>3, Zenon
    <3> QED  BY <1>1, <1>4, <1>5, <2>1, <3>1, <3>3, <3>4, Zenon DEF IterOK
  <2>3. CASE ~(i >= n)
    <3>1. i + 1 \in 1..n /\ i + 1 \in 0..n /\ i + 1 # 0 /\ (i + 1) - 1 = i /\ i >= 0
      BY <1>4, <2>3
    <3>2. PICK k2, es2 : k2 = KeyAt(d, i) /\ es2 = EntriesAt(d, i)
      OBVIOUS
    <3>3. moved = It(f, i + 1, n, k2, es2, no, no, keys, out)
      <4>1. moved = [it EXCEPT !.key = k2, !.entries = es2, !.i = @ + 1]
        BY <1>0, <1>1, <3>2, Zenon DEF IterMoved
      <4>2. PICK x1 : x1 = [it EXCEPT !.key = k2]
        OBVIOUS
      <4>3. PICK x2 : x2 = [x1 EXCEPT !.entries = es2]
        OBVIOUS
      <4>4. PICK j : j = i + 1
        OBVIOUS
      <4>5. x1 = It(f, i, n, k2, es, no, no, keys, out)
        BY <1>3, <4>2 DEF It
      <4>6. x2 = It(f, i, n, k2, es2, no, no, keys, out)
        BY <4>3, <4>5 DEF It
      <4>7. moved = [x2 EXCEPT !.i = j]
        BY <1>1, <4>1, <4>2, <4>3, <4>4, Zenon
      <4>8. moved = It(f, j, n, k2, es2, no, no, keys, out)
        BY <4>6, <4>7 DEF It
      <4> QED  BY <4>4, <4>8
    <3>4. CASE n # KeyCount(d)
      <4>1. next = [moved EXCEPT !.err = TRUE, !.done = TRUE]
        BY <1>0, <1>1, <1>10, <2>3, <3>4, Zenon DEF IterAfter
      <4>2. next = It(f, i + 1, n, k2, es2, yes, yes, keys, out)
        <5>1. PICK y, j : y = [moved EXCEPT !.err = yes] /\ j = i + 1
          OBVIOUS
        <5>2. y = It(f, j, n, k2, es2, yes, no, keys, out)
          BY <3>3, <5>1 DEF It
        <5>3. next = [y EXCEPT !.done = yes]
          BY <1>0, <4>1, <5>1, Zenon
        <5>4. next = It(f, j, n, k2, es2, yes, yes, keys, out)
          BY <5>2, <5>3 DEF It
        <5> QED  BY <5>1, <5>4
      <4>3. /\ next.file = f /\ next.i = i + 1 /\ next.n = n /\ next.err = yes
            /\ next.done = yes /\ next.keys = keys /\ next.out = out
            /\ next = [file |-> next.file, i |-> next.i, n |-> next.n, key |-> next.key, entries |-> next.entries,
                       err |-> next.err, done |-> next.done, keys |-> next.keys, out |-> next.out]
        BY <4>2 DEF It
      <4>4. next.err /\ next.err \in BOOLEAN /\ next.done /\ next.done \in BOOLEAN
        BY <1>0, <4>3, Zenon
      <4> QED  BY <1>1, <1>4, <1>5, <3>1, <4>3, <4>4, ZenonT(40) DEF IterOK
    <3>5. CASE n = KeyCount(d)
      <4>1. d.offsets = keys /\ Len(d.offsets) = n
        BY <1>4, <3>5 DEF KeyCount
      <4>2. PICK s : s = SectionAt(d.b, keys[i + 1])
        OBVIOUS
      <4>3. k2 = s.key /\ es2 = s.entries
        <5>1. InRange(d, i)
          BY <1>4, <2>3, <3>1, <3>5 DEF InRange
        <5> QED  BY <3>2, <4>1, <4>2, <5>1 DEF KeyAt, EntriesAt
      <4>4. /\ s.entries \in Seq(FileEntry) /\ s.key \in Nat /\ Len(s.entries) \in Nat \ {0}
            /\ Delivered(s) \in Seq(IterBlock) /\ Len(Delivered(s)) = Len(s.entries)
            /\ \A j \in 1..Len(s.entries) : Delivered(s)[j] = [key |-> s.key, entry |-> s.entries[j]]
        BY <1>7, <3>1, <4>2
      <4>5. /\ moved.entries = es2 /\ moved.key = k2 /\ moved.out = out
        BY <3>3 DEF It
      <4>6. es2 # <<>> /\ 1 \in 1..Len(s.entries) /\ SubSeq(s.entries, 1, Len(s.entries)) = s.entries
        <5>1. 1 \in 1..Len(s.entries)
          BY <4>4
        <5> QED  BY <4>3, <4>4, <5>1, SubFacts
      <4>7. next = Deliver(moved)
        BY <1>0, <1>1, <1>10, <2>3, <3>5, <4>5, <4>6, Zenon DEF IterAfter
      <4>8. PICK D, x : D = Delivered(s) /\ x = [key |-> k2, entry |-> es2[1]]
        OBVIOUS
      <4>9. x = D[1] /\ SubSeq(D, 1, 1) = <<x>>
        <5>1. x = D[1] /\ D \in Seq(IterBlock) /\ 1 \in 1..Len(D)
          BY <4>3, <4>4, <4>6, <4>8
        <5>2. PICK T : T = IterBlock
          OBVIOUS
        <5>3. D \in Seq(T) /\ 1 \in 1..Len(D)
          BY <5>1, <5>2
        <5>4. SubSeq(D, 1, 1) = <<D[1]>>
          BY <5>3, SubOne, Zenon
        <5> QED  BY <5>1, <5>4
      <4>100. PICK out2 : out2 = Append(out, x)
        OBVIOUS
      <4>10. next = It(f, i + 1, n, k2, es2, no, no, keys, out2)
        <5>1. Deliver(moved) = [moved EXCEPT !.out = out2]
          BY <4>5, <4>8, <4>100 DEF Deliver
        <5>2. next = [moved EXCEPT !.out = out2]
          BY <4>7, <5>1
        <5> QED  BY <3>3, <5>2 DEF It
      <4>11. /\ next.file = f /\ next.i = i + 1 /\ next.n = n /\ next.key = k2 /\ next.entries = es2 /\ next.err = no
             /\ next.done = no /\ next.keys = keys /\ next.out = out2
             /\ next = [file |-> next.file, i |-> next.i, n |-> next.n, key |-> next.key, entries |-> next.entries,
                        err |-> next.err, done |-> next.done, keys |-> next.keys, out |-> next.out]
        BY <4>10 DEF It
      <4>12. Append(out, x) = J[i] \o SubSeq(D, 1, 1)
        <5>1. x \in IterBlock
          BY <4>4, <4>6, <4>8, <4>9
        <5>2. Append(out, x) = out \o <<x>>
          BY <2>1, <5>1
        <5> QED  BY <2>1, <4>9, <5>2
      <4>13. OnBlock(next, s, J[i])
        BY <4>3, <4>6, <4>8, <4>11, <4>100, <4>12 DEF OnBlock
      <4>14. ~next.err /\ next.err \in BOOLEAN /\ ~next.done /\ next.done \in BOOLEAN
        BY <1>0, <4>11, Zenon
      <4>15. J[(i + 1) - 1] = J[i]
        BY <3>1
      <4>16. next.i # 0 /\ next.i \in 0..next.n /\ next.keys = keys
             /\ OnBlock(next, SectionAt(d.b, next.keys[next.i]), Joined(DeliveredOf(d.b, next.keys))[next.i - 1])
        BY <1>5, <3>1, <4>2, <4>11, <4>13, <4>15, Zenon
      <4> QED  BY <1>1, <1>4, <4>11, <4>14, <4>16, Zenon DEF IterOK
    <3> QED  BY <3>4, <3>5
  <2> QED  BY <2>2, <2>3
<1> QED  BY <1>9, <1>10
-----------------------------------------------------------------------------
(* An iterator while deletes go on *)

(* The index lists the same keys, or fewer. *)
LEMMA IterShrinks ==
  ASSUME NEW it, NEW d, NEW e, IterOK(it, d), e.b = d.b, Len(d.offsets) \in Nat, Len(e.offsets) \in Nat,
         Len(e.offsets) <= Len(d.offsets), Len(e.offsets) = Len(d.offsets) => e.offsets = d.offsets
  PROVE  IterOK(it, e)
<1>1. PICK n, a, b : n = it.n /\ a = Len(d.offsets) /\ b = Len(e.offsets)
  OBVIOUS
<1>2. n \in Nat /\ a <= n /\ (a = n => d.offsets = it.keys)
  BY <1>1 DEF IterOK
<1>3. b <= n /\ (b = n => e.offsets = it.keys)
  <2>1. a \in Nat /\ b \in Nat /\ b <= a /\ (b = a => e.offsets = d.offsets)
    BY <1>1
  <2>2. b <= n /\ (b = n => b = a /\ a = n)
    BY <1>2, <2>1
  <2> QED  BY <1>2, <2>1, <2>2
<1> QED  BY <1>1, <1>3, Zenon DEF IterOK

(* One index changes. *)
LEMMA IterChanges ==
  ASSUME IterInv, NEW f \in DOMAIN idx, NEW d, NEW e, d = idx[f], idx' = [idx EXCEPT ![f] = e],
         iter' = iter, files' = files, e.b = d.b, Len(d.offsets) \in Nat, Len(e.offsets) \in Nat,
         Len(e.offsets) <= Len(d.offsets), Len(e.offsets) = Len(d.offsets) => e.offsets = d.offsets,
         DOMAIN idx = DOMAIN files
  PROVE  IterInv'
<1> SUFFICES ASSUME iter # NoIter PROVE IterInv'
  BY DEF IterInv, NoIter
<1>1. PICK g : g = iter.file
  OBVIOUS
<1>2. g \in DOMAIN files /\ IterOK(iter, idx[g])
  BY <1>1 DEF IterInv
<1>3. DOMAIN idx' = DOMAIN idx /\ idx'[f] = e /\ \A x \in DOMAIN idx : x # f => idx'[x] = idx[x]
  OBVIOUS
<1>4. idx' # <<>>
  BY <1>3
<1>5. IterOK(iter, idx'[g])
  <2>1. CASE g = f
    <3>1. IterOK(iter, d)
      BY <1>2, <2>1
    <3>2. IterOK(iter, e)
      BY <3>1, IterShrinks
    <3> QED  BY <1>3, <2>1, <3>2
  <2>2. CASE g # f
    BY <1>2, <1>3, <2>2
  <2> QED  BY <2>1, <2>2
<1>6. iter'.file = g
  BY <1>1
<1> QED  BY <1>2, <1>4, <1>5, <1>6 DEF IterInv

LEMMA IterDrops ==
  ASSUME WriteInv, DeleteInv, IterInv, NEW f, DropKeys(f)
  PROVE  IterInv'
<1>1. PICK b, plan, d : b = Head(del.todo[f]) /\ plan = DeletePlan(idx[f], b.keys, b.min, b.max) /\ d = idx[f]
  OBVIOUS
<1>2. PICK e : e = DeleteKeys(d, plan.full)
  OBVIOUS
<1>3. /\ del.pc = "apply" /\ f \in del.left /\ del.todo[f] # <<>>
      /\ idx' = [idx EXCEPT ![f] = e] /\ iter' = iter /\ files' = files
  BY <1>1, <1>2 DEF DropKeys, writers
<1>4. idx # <<>> /\ ApplyOK
  BY <1>3, DeletingFacts
<1>5. DOMAIN idx = DOMAIN files /\ \A g \in DOMAIN files : FileHeld(idx[g], files[g], requested, asked)
  BY <1>4 DEF DeleteInv, Held
<1>6. f \in DOMAIN idx /\ f \in DOMAIN files /\ BatchesOK(del.todo[f], requested)
  BY <1>3, <1>4, <1>5 DEF ApplyOK
<1>7. IndexOK(d)
  BY <1>1, <1>5, <1>6 DEF FileHeld
<1>8. b \in Batch
  BY <1>1, <1>3, <1>6, BatchesTail
<1>9. b.keys \in SUBSET Nat /\ b.min \in Int64 /\ b.max \in Int64
  BY <1>8, BatchFields
<1>10. PICK r : r = [min |-> b.min, max |-> b.max]
  OBVIOUS
<1>11. PlanOK(d, b.keys, r, plan)
  BY <1>1, <1>7, <1>9, <1>10, PlanFacts
<1>12. plan.full \in SUBSET Nat
  BY <1>9, <1>11 DEF PlanOK
<1>13. PICK fl : fl = plan.full
  OBVIOUS
<1>14. /\ e.b = d.b /\ Len(e.offsets) <= Len(d.offsets) /\ (Len(e.offsets) = Len(d.offsets) => e = d) /\ IndexOK(e)
  BY <1>2, <1>7, <1>12, <1>13, DeleteKeysOK
<1>15. Len(d.offsets) \in Nat /\ Len(e.offsets) \in Nat
  <2>1. \A x : IndexOK(x) => Len(x.offsets) \in Nat
    BY DEF IndexOK
  <2> QED  BY <1>7, <1>14, <2>1, Zenon
<1> QED  BY <1>1, <1>3, <1>5, <1>6, <1>14, <1>15, IterChanges

LEMMA IterStores ==
  ASSUME WriteInv, DeleteInv, IterInv, StoreRanges
  PROVE  IterInv'
<1>1. PICK f, new, d : f = del.file /\ new = del.new /\ d = idx[f]
  OBVIOUS
<1>2. PICK e : e = StoreTombstones(d, new)
  OBVIOUS
<1>3. /\ del.pc = "store" /\ idx' = [idx EXCEPT ![f] = e] /\ iter' = iter /\ files' = files
  BY <1>1, <1>2 DEF StoreRanges, writers
<1>4. idx # <<>> /\ StoringOK
  BY <1>3, DeletingFacts
<1>5. DOMAIN idx = DOMAIN files /\ \A g \in DOMAIN files : FileHeld(idx[g], files[g], requested, asked)
  BY <1>4 DEF DeleteInv, Held
<1>6. f \in DOMAIN idx /\ f \in DOMAIN files
  BY <1>1, <1>4, <1>5 DEF StoringOK
<1>7. IndexOK(d)
  BY <1>1, <1>5, <1>6 DEF FileHeld
<1>8. PICK r \in Span64 : \A k \in DOMAIN new : new[k] = InsertRange(TombstoneRange(d, k), r)
  BY <1>1, <1>4 DEF StoringOK
<1>9. \A k \in DOMAIN new : TombstoneList(new[k])
  <2>1. \A k : TombstoneList(TombstoneRange(d, k))
    BY <1>7, RangeSorted DEF IndexOK
  <2> QED  BY <1>8, <2>1, InsertSorted
<1>10. IndexOK(e) /\ e.b = d.b /\ e.offsets = d.offsets
  BY <1>2, <1>7, <1>9, StoreOK
<1>11. Len(d.offsets) \in Nat
  BY <1>7 DEF IndexOK
<1>12. Len(e.offsets) \in Nat /\ Len(e.offsets) <= Len(d.offsets)
  BY <1>10, <1>11
<1> QED  BY <1>1, <1>3, <1>5, <1>6, <1>10, <1>11, <1>12, IterChanges

(* The iterator itself. *)
LEMMA IterBegins ==
  ASSUME WriteInv, DeleteInv, NEW f \in DOMAIN files, NewBlockIterator(f)
  PROVE  IterInv'
<1>1. PICK d, it, n, no : d = idx[f] /\ it = iter' /\ n = KeyCount(d) /\ no = FALSE
  OBVIOUS
<1>2. /\ idx # <<>> /\ idx' = idx /\ files' = files
      /\ it = [file |-> f, i |-> 0, n |-> n, key |-> NoKey, entries |-> <<>>,
               err |-> no, done |-> no, keys |-> d.offsets, out |-> <<>>]
  BY <1>1 DEF NewBlockIterator, writers, others
<1>3. IndexOK(d)
  BY <1>1, <1>2 DEF DeleteInv, Held, FileHeld
<1>4. n = Len(d.offsets) /\ n \in Nat /\ d.offsets \in Seq(Int)
  BY <1>1, <1>3 DEF IndexOK, KeyCount
<1>5. \A j \in 1..n : \E x \in DOMAIN d.b : SectionAt(d.b, d.offsets[j]) = d.b[x]
  BY <1>3, <1>4, SectionOfFile DEF Section
<1>6. /\ it.file = f /\ it.i = 0 /\ it.n = n /\ it.entries = <<>> /\ it.err = no /\ it.done = no
      /\ it.keys = d.offsets /\ it.out = <<>>
      /\ it = [file |-> it.file, i |-> it.i, n |-> it.n, key |-> it.key, entries |-> it.entries,
               err |-> it.err, done |-> it.done, keys |-> it.keys, out |-> it.out]
  BY <1>2
<1>7. ~it.err /\ it.err \in BOOLEAN /\ ~it.done /\ it.done \in BOOLEAN
  BY <1>1, <1>6, Zenon
<1>8. it.i \in 0..n /\ Len(d.offsets) <= n
  BY <1>4, <1>6
<1>9. IterOK(it, d)
  BY <1>4, <1>5, <1>6, <1>7, <1>8, Zenon DEF IterOK
<1> QED  BY <1>1, <1>2, <1>6, <1>9, Zenon DEF IterInv

LEMMA IterSteps ==
  ASSUME WriteInv, DeleteInv, IterInv, IterNext
  PROVE  IterInv'
<1>1. PICK f, d, it : f = iter.file /\ d = idx[f] /\ it = iter
  OBVIOUS
<1>2. /\ iter # NoIter /\ ~it.done /\ idx' = idx /\ files' = files /\ iter' = IterAfter(it, d)
  BY <1>1 DEF IterNext, IterAfter, IterRest, IterMoved, writers, others
<1>3. idx # <<>> /\ f \in DOMAIN files /\ IterOK(it, d)
  BY <1>1, <1>2 DEF IterInv
<1>4. FileOK(files[f])
  BY <1>3 DEF WriteInv
<1>5. IndexOK(d) /\ d.b = files[f].index
  BY <1>1, <1>3 DEF DeleteInv, Held, FileHeld
<1>6. PICK next, file : next = IterAfter(it, d) /\ file = files[f]
  OBVIOUS
<1>7. IterOK(next, d) /\ next.file = it.file
  BY <1>2, <1>3, <1>4, <1>5, <1>6, IterMoves
<1> QED  BY <1>1, <1>2, <1>3, <1>6, <1>7, Zenon DEF IterInv
(* Nothing an iterator sees changes. *)
LEMMA IterStays ==
  ASSUME IterInv, iter' = iter, idx' = idx, files' = files
  PROVE  IterInv'
  BY DEF IterInv, NoIter
-----------------------------------------------------------------------------
(* All together *)

Inv == WriteInv /\ DeleteInv /\ IterInv

LEMMA InvInit ==
  ASSUME Init
  PROVE  Inv
<1>1. WriteInv
  BY WriteInit
<1>2. DeleteInv
  BY DeleteInit
<1>3. IterInv
  BY DEF Init, IterInv
<1> QED  BY <1>1, <1>2, <1>3 DEF Inv

(* While the files are written nobody reads. *)
LEMMA InvWriting ==
  ASSUME Inv, WriteNext \/ EndFull \/ EndLast
  PROVE  Inv'
<1>1. WriteInv /\ DeleteInv /\ IterInv
  BY DEF Inv
<1>2. WriteInv'
  BY <1>1, WriteNextOK, EndFullOK, EndLastOK
<1>3. DeleteInv'
  BY <1>1, DeleteWrites
<1>4. iter' = iter
  BY DEF WriteNext, EndFull, EndLast, readers
<1>5. opens \in Nat /\ ~(opens > 0)
  <2>1. opens \in Nat /\ (opens > 0 => todo = <<>> /\ ~full)
    BY <1>1 DEF WriteInv
  <2>2. CASE WriteNext \/ EndFull
    BY <2>1, <2>2 DEF WriteNext, EndFull
  <2>3. CASE EndLast
    <3>1. opens = 0
      BY <2>3 DEF EndLast
    <3> QED  BY <2>1, <3>1
  <2> QED  BY <2>2, <2>3
<1>6. opens = 0
  BY <1>5
<1>7. iter = NoIter
  BY <1>1, <1>6 DEF WriteInv
<1>8. IterInv'
  BY <1>4, <1>7 DEF IterInv, NoIter
<1> QED  BY <1>2, <1>3, <1>8 DEF Inv

(* Opening and closing. *)
LEMMA InvOpening ==
  ASSUME Inv, Open \/ Restart
  PROVE  Inv'
<1>1. WriteInv /\ DeleteInv /\ IterInv
  BY DEF Inv
<1>2. CASE Open
  <2>1. UNCHANGED writers /\ opens > 0 /\ opens' = opens /\ iter' = iter /\ idx = <<>>
    BY <1>2 DEF Open, writers
  <2>2. opens \in Nat
    BY <1>1 DEF WriteInv
  <2>3. opens' \in Nat /\ opens' > 0
    BY <2>1, <2>2
  <2>4. WriteInv'
    BY <1>1, <2>1, <2>3, WriteOthers
  <2>5. DeleteInv'
    BY <1>1, <1>2, DeleteOpen
  <2>6. IterInv'
    BY <1>1, <2>1 DEF IterInv, NoIter
  <2> QED  BY <2>4, <2>5, <2>6 DEF Inv
<1>3. CASE Restart
  <2>1. UNCHANGED writers /\ opens' = opens + 1 /\ iter' = NoIter /\ idx # <<>>
    BY <1>3 DEF Restart, writers
  <2>2. opens \in Nat /\ opens > 0
    BY <1>1, <2>1, OpenFacts
  <2>3. opens' \in Nat /\ opens' > 0
    BY <2>1, <2>2
  <2>4. WriteInv'
    BY <1>1, <2>1, <2>2, <2>3, WriteOthers
  <2>5. DeleteInv'
    BY <1>1, <1>3, DeleteRestart
  <2>6. IterInv'
    BY <2>1 DEF IterInv, NoIter
  <2> QED  BY <2>4, <2>5, <2>6 DEF Inv
<1> QED  BY <1>2, <1>3

(* The files are open while a delete or an iterator is at work. *)
LEMMA InvOpen ==
  ASSUME WriteInv, DeleteInv, idx # <<>>, UNCHANGED writers, opens' = opens
  PROVE  WriteInv'
<1>1. opens \in Nat /\ opens > 0
  BY OpenFacts
<1>2. opens' \in Nat /\ opens' > 0
  BY <1>1
<1> QED  BY <1>1, <1>2, WriteOthers

(* The steps of a delete: those that leave the indexes, and those that change one. *)
Recording ==
    \/ \E r \in Requests : DeleteBegin(r)
    \/ \E f \in DOMAIN files : AddRange(f) \/ AddRangeFails(f) \/ Committed(f)
    \/ Commit \/ DeleteEnd

Applying == (\E f \in DOMAIN files : DropKeys(f)) \/ StoreRanges

LEMMA DeleteStep ==
  ASSUME WriteInv, DeleteInv, UNCHANGED writers, opens' = opens, idx # <<>> \/ del.pc \in {"add", "apply", "store"}
  PROVE  WriteInv' /\ files' = files
<1>1. del.pc \in {"add", "apply", "store"} => del # Idle
  BY DEF Idle
<1>2. idx # <<>>
  BY <1>1 DEF DeleteInv
<1> QED  BY <1>2, InvOpen DEF writers

LEMMA InvRecording ==
  ASSUME Inv, Recording
  PROVE  Inv'
<1>1. WriteInv /\ DeleteInv /\ IterInv
  BY DEF Inv
<1>2. /\ UNCHANGED writers /\ opens' = opens /\ iter' = iter /\ idx' = idx
      /\ idx # <<>> \/ del.pc \in {"add", "apply", "store"}
  <2>1. ASSUME NEW r \in Requests, DeleteBegin(r)
        PROVE  UNCHANGED writers /\ opens' = opens /\ iter' = iter /\ idx' = idx /\ idx # <<>>
    BY <2>1 DEF DeleteBegin
  <2>2. ASSUME NEW f \in DOMAIN files, AddRange(f) \/ AddRangeFails(f) \/ Committed(f)
        PROVE  UNCHANGED writers /\ opens' = opens /\ iter' = iter /\ idx' = idx /\ del.pc \in {"add", "apply", "store"}
    BY <2>2 DEF AddRange, AddRangeFails, Committed
  <2>3. ASSUME Commit \/ DeleteEnd
        PROVE  UNCHANGED writers /\ opens' = opens /\ iter' = iter /\ idx' = idx /\ del.pc \in {"add", "apply", "store"}
    BY <2>3 DEF Commit, DeleteEnd
  <2> QED  BY <2>1, <2>2, <2>3, Zenon DEF Recording
<1>3. WriteInv' /\ files' = files
  BY <1>1, <1>2, DeleteStep
<1>4. DeleteInv'
  <2>1. CASE \E r \in Requests : DeleteBegin(r)
    BY <1>1, <2>1, DeleteBegins
  <2>2. ASSUME NEW f \in DOMAIN files, AddRange(f) PROVE DeleteInv'
    BY <1>1, <2>2, DeleteAdds
  <2>3. ASSUME NEW f \in DOMAIN files, AddRangeFails(f) PROVE DeleteInv'
    BY <1>1, <2>3, DeleteAddFails
  <2>4. ASSUME NEW f \in DOMAIN files, Committed(f) PROVE DeleteInv'
    BY <1>1, <2>4, DeleteCommitted
  <2>5. CASE Commit
    BY <1>1, <2>5, DeleteCommits
  <2>6. CASE DeleteEnd
    BY <1>1, <2>6, DeleteEnds
  <2> QED  BY <2>1, <2>2, <2>3, <2>4, <2>5, <2>6 DEF Recording
<1>5. IterInv'
  BY <1>1, <1>2, <1>3, IterStays
<1> QED  BY <1>3, <1>4, <1>5 DEF Inv

LEMMA InvApplying ==
  ASSUME Inv, Applying
  PROVE  Inv'
<1>1. WriteInv /\ DeleteInv /\ IterInv
  BY DEF Inv
<1>2. CASE \E f \in DOMAIN files : DropKeys(f)
  <2>1. PICK f \in DOMAIN files : DropKeys(f)
    BY <1>2
  <2>2. UNCHANGED writers /\ opens' = opens /\ del.pc \in {"add", "apply", "store"}
    BY <2>1 DEF DropKeys
  <2>3. WriteInv'
    BY <1>1, <2>2, DeleteStep
  <2> QED  BY <1>1, <2>1, <2>3, DeleteDrops, IterDrops DEF Inv
<1>3. CASE StoreRanges
  <2>1. UNCHANGED writers /\ opens' = opens /\ del.pc \in {"add", "apply", "store"}
    BY <1>3 DEF StoreRanges
  <2>2. WriteInv'
    BY <1>1, <2>1, DeleteStep
  <2> QED  BY <1>1, <1>3, <2>2, DeleteStores, IterStores DEF Inv
<1> QED  BY <1>2, <1>3 DEF Applying

LEMMA InvReading ==
  ASSUME Inv, (\E f \in DOMAIN files : NewBlockIterator(f)) \/ IterNext \/ IterEnd
  PROVE  Inv'
<1>1. WriteInv /\ DeleteInv /\ IterInv
  BY DEF Inv
<1>2. UNCHANGED writers /\ UNCHANGED others /\ (idx # <<>> \/ iter # NoIter)
  BY DEF NewBlockIterator, IterNext, IterEnd
<1>3. idx # <<>> /\ opens' = opens
  BY <1>1, <1>2 DEF IterInv, others
<1>4. WriteInv'
  BY <1>1, <1>2, <1>3, InvOpen
<1>5. DeleteInv'
  BY <1>1, <1>2, DeleteReads
<1>6. IterInv'
  <2>1. CASE \E f \in DOMAIN files : NewBlockIterator(f)
    BY <1>1, <2>1, IterBegins
  <2>2. CASE IterNext
    BY <1>1, <2>2, IterSteps
  <2>3. CASE IterEnd
    BY <2>3 DEF IterEnd, IterInv, NoIter
  <2> QED  BY <2>1, <2>2, <2>3
<1> QED  BY <1>4, <1>5, <1>6 DEF Inv

LEMMA InvSame ==
  ASSUME Inv, UNCHANGED vars
  PROVE  Inv'
<1>1. WriteInv /\ DeleteInv /\ IterInv
  BY DEF Inv
<1>2. UNCHANGED writers /\ UNCHANGED others /\ iter' = iter /\ idx' = idx /\ files' = files /\ opens' = opens
      /\ tfile' = tfile /\ pending' = pending /\ asked' = asked /\ del' = del
  BY DEF vars, writers, others
<1>3. WriteInv'
  <2>1. input' = input /\ todo' = todo /\ w' = w /\ full' = full
    BY <1>2 DEF writers
  <2>2. TodoOK' <=> TodoOK
    BY <2>1 DEF TodoOK
  <2> QED  BY <1>1, <1>2, <2>1, <2>2 DEF WriteInv
<1>4. DeleteInv'
  BY <1>1, <1>2, DeleteReads
<1>5. IterInv'
  BY <1>1, <1>2, IterStays
<1> QED  BY <1>3, <1>4, <1>5 DEF Inv

(* What the files, their indexes, the tombstones and the iterator are at any time. *)
THEOREM FileInvariant == Spec => []Inv
<1>1. Init => Inv
  BY InvInit
<1>2. Inv /\ [Next]_vars => Inv'
  <2> SUFFICES ASSUME Inv, [Next]_vars PROVE Inv'
    OBVIOUS
  <2>1. CASE Next
    <3>1. (WriteNext \/ EndFull \/ EndLast) \/ (Open \/ Restart) \/ Recording \/ Applying
          \/ ((\E f \in DOMAIN files : NewBlockIterator(f)) \/ IterNext \/ IterEnd)
      BY <2>1, Zenon DEF Next, Recording, Applying
    <3> QED  BY <3>1, InvWriting, InvOpening, InvRecording, InvApplying, InvReading
  <2>2. CASE UNCHANGED vars
    BY <2>2, InvSame
  <2> QED  BY <2>1, <2>2
<1> QED  BY <1>1, <1>2, PTL DEF Spec
(* The variables have their types, and a key never has more entries than an index can count:
   SSTFile's TypeOK. *)
THEOREM FileTypes == Spec => []TypeOK
<1>1. Inv => TypeOK
  <2> SUFFICES ASSUME Inv PROVE TypeOK
    OBVIOUS
  <2>1. WriteInv /\ TombstonesOK /\ Held /\ DelOK /\ IterInv
    BY DEF Inv, DeleteInv
  <2>2. input \in Inputs /\ full \in BOOLEAN /\ Len(w.entries) <= MaxIndexEntries
    BY <2>1 DEF WriteInv, TodoOK
  <2>3. DOMAIN tfile = DOMAIN pending
    <3>1. opens \in Nat /\ (opens = 0 => tfile = <<>> /\ pending = <<>>)
      BY <2>1 DEF WriteInv
    <3>2. opens > 0 => DOMAIN tfile = DOMAIN pending
      BY <2>1 DEF TombstonesOK
    <3>3. opens = 0 \/ opens > 0
      BY <3>1
    <3> QED  BY <3>1, <3>2, <3>3
  <2>4. requested \subseteq Tombstone /\ asked \subseteq requested
    <3>1. Range64 \subseteq Tombstone
      BY TimeAssumption DEF Range64, Tombstone, Int64
    <3> QED  BY <2>1, <3>1 DEF TombstonesOK
  <2>5. \A s : s \in Seq(requested) => Range(s) \subseteq requested
    BY DEF Range
  <2>6. \A f \in DOMAIN tfile : Range(tfile[f]) \cup Range(pending[f]) \subseteq Tombstone
    <3>1. /\ \A f \in DOMAIN tfile : tfile[f] \in Seq(requested)
          /\ \A f \in DOMAIN pending : pending[f] \in Seq(requested)
      BY <2>1 DEF TombstonesOK
    <3> QED  BY <2>3, <2>4, <2>5, <3>1
  <2>7. idx # <<>> => DOMAIN idx = DOMAIN files
    BY <2>1 DEF Held
  <2>8. del.pc \in {"idle", "add", "apply", "store"}
    BY <2>1 DEF DelOK, AddOK, ApplyOK, StoringOK, Idle
  <2>9. iter.file \in 0..Len(files)
    <3>1. Len(files) \in Nat /\ DOMAIN files = 1..Len(files)
      BY <2>1 DEF WriteInv
    <3>2. iter.file = 0 \/ iter.file \in DOMAIN files
      BY <2>1 DEF IterInv, NoIter
    <3> QED  BY <3>1, <3>2
  <2> QED  BY <2>2, <2>3, <2>4, <2>6, <2>7, <2>8, <2>9 DEF TypeOK
<1> QED  BY <1>1, FileInvariant, PTL

(* An iterator that ends without an error has delivered every block of every key that its
   index listed when it began, in order, whatever deletes did meanwhile: BlockIterator.Next
   compares only the number of keys, and that is enough. *)
THEOREM IterationDeliversAll == Spec => []IterationWhole
<1>1. Inv => IterationWhole
  <2> SUFFICES ASSUME Inv, iter # NoIter, iter.done, ~iter.err
               PROVE  iter.out = FlattenSeq(DeliveredOf(idx[iter.file].b, iter.keys))
    BY DEF IterationWhole, DeliveredOf, Delivered
  <2>1. WriteInv /\ DeleteInv /\ IterInv
    BY DEF Inv
  <2>2. PICK f, d, keys, file : f = iter.file /\ d = idx[f] /\ keys = iter.keys /\ file = files[f]
    OBVIOUS
  <2>3. idx # <<>> /\ f \in DOMAIN files /\ IterOK(iter, d)
    BY <2>1, <2>2 DEF IterInv
  <2>4. FileOK(file)
    BY <2>1, <2>2, <2>3 DEF WriteInv
  <2>5. PICK b : b = d.b
    OBVIOUS
  <2>6. b = file.index
    BY <2>1, <2>2, <2>3, <2>5 DEF DeleteInv, Held, FileHeld
  <2>7. /\ keys \in Seq(Int) /\ iter.n = Len(keys) /\ KnownKeys(b, keys)
        /\ iter.out = Joined(DeliveredOf(b, keys))[iter.n]
    BY <2>2, <2>3, <2>5, Zenon DEF IterOK, KnownKeys
  <2>8. PICK ss : ss = DeliveredOf(b, keys)
    OBVIOUS
  <2>9. ss \in Seq(Seq(IterBlock)) /\ Len(ss) = Len(keys)
    <3>1. keys \in Seq(Int) /\ KnownKeys(b, keys)
      BY <2>7
    <3> QED  BY <2>4, <2>6, <2>8, <3>1, DeliveredSeq
  <2>10. PICK T : T = IterBlock
    OBVIOUS
  <2>11. FlattenSeq(ss) = Joined(ss)[Len(ss)]
    <3>1. ss \in Seq(Seq(T))
      BY <2>9, <2>10
    <3> QED  BY <3>1, FlattenJoined
  <2> QED  BY <2>2, <2>5, <2>7, <2>8, <2>9, <2>11, Zenon
<1> QED  BY <1>1, FileInvariant, PTL
=============================================================================
