--------------------------- MODULE ValueLog_proofs ---------------------------
(***************************************************************************)
(* Proofs about ValueLog, for any number of writers, files, blocks, calls  *)
(* that fail, crashes and closings: the inductive invariant VInv, one lemma *)
(* per action, and what follows from it.                                   *)
(***************************************************************************)
EXTENDS ValueLog, Least

(* A writer that has a place, and one whose block is not yet being copied to it. *)
Holds(w) == wpc[w] \in {"length", "truncate", "rollback"}
Takes(w) == Holds(w) \/ wpc[w] = "store"

(* A place that a block has taken: its pointer was returned, or a writer has the place. *)
Claim(b, f, n) ==
    \/ ptr[b] = <<f, n>>
    \/ \E w \in Writers : Takes(w) /\ wblock[w] = b /\ wfile[w] = f /\ wend[w] = n

(* The same, and the copy has been started. *)
Placed(b, f, n) ==
    \/ ptr[b] = <<f, n>>
    \/ \E w \in Writers : wpc[w] = "store" /\ wblock[w] = b /\ wfile[w] = f /\ wend[w] = n

(* A file in which a place may still be taken. *)
InUse(f) == up /\ (f = maxFid \/ \E w \in Writers : wpc[w] # "idle" /\ wfile[w] = f)

(* The copies to be made in f, and the blocks it still waits for. *)
Copies(f) == {c \in copying : c[1] = f}
Due(f) == Cardinality(Copies(f)) + Cardinality(Holding(f))

(* The file that is the last one, or will be when the manager is opened. *)
IsTop(f) == f \in files /\ \A g \in files : g <= f

(* Where the manager and its writers can be; the end of a process leaves none of them. *)
ControlInv ==
    /\ files # {}
    /\ up => IsTop(maxFid)
    /\ ~up => /\ maxFid = 0 /\ copying = {} /\ \A f \in Fid : pos[f] = 0
              /\ \A w \in Writers : wpc[w] = "idle"
              /\ \A b \in Block : flushing[b].pc = "off"
    /\ \A w \in Writers : wpc[w] = "create" => maxFid < MaxFid
    /\ \A w, x \in Writers : wpc[w] = "create" /\ wpc[x] = "create" => w = x
    /\ \A w \in Writers : wpc[w] # "idle" => wfile[w] <= maxFid
    /\ \A w \in Writers : Takes(w) => wend[w] \in Place
    /\ \A f \in Fid : f > maxFid => pos[f] = 0

(* pos counts at least the places that may be given back. *)
CountInv == \A f \in Fid : Cardinality(Holding(f)) <= pos[f]

(* A block is in the hands of one writer until its pointer is returned; a copy is of a
   block that has a place. *)
BlockInv ==
    /\ \A b \in Block : ptr[b] # NoPtr => b <= written
    /\ \A w \in Writers : wpc[w] # "idle" =>
         wblock[w] \in 1..written /\ ptr[wblock[w]] = NoPtr
    /\ \A w, x \in Writers : wpc[w] # "idle" /\ wpc[x] # "idle" /\ wblock[w] = wblock[x]
         => w = x
    /\ \A c \in copying : Placed(c[3], c[1], c[2])

(* Nothing lies beyond the end of a file or after the last file. *)
Reached(f) == \E g \in files : f <= g
MappedInv ==
    /\ \A f \in Fid, n \in Place : at[f][n] # Empty => n <= length[f] /\ Reached(f)
    /\ \A b \in Block, f \in Fid, n \in Place : Claim(b, f, n) => Reached(f)

(* No two blocks have one place, a taken place holds its block or nothing, the places that
   pos has not reached and those not yet copied to are free. *)
PlaceInv ==
    /\ \A b \in Block, f \in Fid, n \in Place : Claim(b, f, n) =>
         /\ InUse(f) => n <= pos[f]
         /\ at[f][n] \in {b, Empty}
         /\ \A c \in Block : Claim(c, f, n) => c = b
    /\ \A f \in Fid, n \in Place :
         /\ at[f][n] # Torn
         /\ InUse(f) /\ n > pos[f] => at[f][n] = Empty
    /\ \A w \in Writers : Holds(w) => at[wfile[w]][wend[w]] = Empty

(* What restoreValueFile will find: the last file is full up to some place k, free beyond
   it, and every place taken in it is one of the first k. *)
EndsAt(f, k) ==
    /\ k <= length[f]
    /\ \A n \in Place : at[f][n] # Empty <=> n <= k
    /\ \A b \in Block, n \in Place : Claim(b, f, n) => n <= k
DownInv == ~up => \A f \in Fid : IsTop(f) => \E k \in Place \cup {0} : EndsAt(f, k)

(* In a file that was never cut, the places beyond its end are held by writers that will
   make it longer or give them back; size and what is due reach every place; and a block
   whose copy was started has its place inside the file, and is there or its copy is to be
   made. *)
FileInv(f) ==
    /\ \A n \in Place : length[f] < n /\ n <= pos[f] => \E w \in Holding(f) : wend[w] = n
    /\ up => pos[f] <= size[f] + Due(f)
    /\ \A b \in Block, n \in Place : Placed(b, f, n) =>
         /\ n <= length[f]
         /\ at[f][n] = b \/ <<f, n, b>> \in copying
         /\ up => n <= size[f] + Due(f)
SizeInv == \A f \in files : f \notin cut => FileInv(f)

VInv ==
    /\ TypeOK /\ ControlInv /\ CountInv /\ BlockInv /\ MappedInv
    /\ ~lossy => PlaceInv /\ DownInv /\ SizeInv

USE DEF fileVars, managerVars, writerVars, clientVars

(***************************************************************************)
(* Types.                                                                  *)
(***************************************************************************)

(* The numbers the constants give. *)
LEMMA Numbers ==
    /\ Place \cup {0} \subseteq Nat /\ Fid \subseteq Nat /\ Block \subseteq Nat
    /\ 1 \in Fid /\ 2 * MaxSize \in Place /\ 0 \notin Place
    /\ Empty \notin Block /\ Torn \notin Block /\ Empty # Torn
  BY ValueLogAssumption DEF Place, Fid, Block, Empty, Torn

(* restoreValueFile stops somewhere: at the end of the file, before the first header of
   zeros or after the first wrong checksum. *)
LEMMA RestoredFacts ==
  ASSUME TypeOK, NEW f \in Fid
  PROVE  /\ Restored(f) \in Place \cup {0}
         /\ \A m \in 1..Restored(f) : m <= length[f] /\ at[f][m] # Empty
         /\ \/ Restored(f) > 0 /\ at[f][Restored(f)] = Torn
            \/ Restored(f) = length[f]
            \/ Restored(f) < length[f] /\ at[f][Restored(f) + 1] = Empty
<1> DEFINE Stops(n) == \/ n > 0 /\ at[f][n] = Torn
                       \/ n = length[f]
                       \/ n < length[f] /\ at[f][n + 1] = Empty
           S == {n \in Place \cup {0} : n <= length[f] /\ Stops(n)}
           P(n) == /\ \A m \in 1..n : m <= length[f] /\ at[f][m] # Empty
                   /\ \A m \in 1..n : at[f][m] = Torn => m = n
                   /\ Stops(n)
<1>1. length[f] \in Place \cup {0} /\ length[f] \in Nat
  BY Numbers DEF TypeOK
<1>2. S \in SUBSET Nat /\ length[f] \in S
  BY <1>1, Numbers
<1>3. PICK n \in S : \A k \in S : n <= k
  <2> HIDE DEF S
  <2> QED  BY <1>2, NatLeast
<1>4. n \in Place \cup {0} /\ n \in Nat /\ n <= length[f] /\ Stops(n)
  BY <1>2, <1>3
<1>5. \A m \in 1..n : /\ m <= length[f] /\ m \in Place /\ m - 1 \in Place \cup {0}
                      /\ m - 1 < length[f]
  BY <1>1, <1>4, ValueLogAssumption DEF Place
<1>6. \A m \in 1..n : at[f][m] # Empty
  <2> SUFFICES ASSUME NEW m \in 1..n, at[f][m] = Empty PROVE FALSE
    OBVIOUS
  <2>1. Stops(m - 1)
    BY <1>5, <1>4
  <2>2. m - 1 \in S
    BY <2>1, <1>5, <1>1
  <2> QED  BY <2>2, <1>3, <1>4
<1>7. \A m \in 1..n : at[f][m] = Torn => m = n
  <2> SUFFICES ASSUME NEW m \in 1..n, at[f][m] = Torn PROVE m = n
    OBVIOUS
  <2>1. m \in S
    BY <1>5, <1>4
  <2> QED  BY <2>1, <1>3, <1>4
<1>8. P(n)
  BY <1>4, <1>5, <1>6, <1>7
<1>9. Restored(f) = CHOOSE k \in Place \cup {0} : P(k)
  BY DEF Restored
<1> HIDE DEF P
<1>10. Restored(f) \in Place \cup {0} /\ P(Restored(f))
  BY <1>4, <1>8, <1>9
<1> QED  BY <1>10 DEF P

(* The last of the files. *)
LEMMA TopExists ==
  ASSUME TypeOK, files # {}
  PROVE  LET t == CHOOSE f \in files : \A g \in files : g <= f
         IN  IsTop(t) /\ t \in Fid
<1>1. files \in SUBSET Nat /\ \A f \in files : f <= MaxFid
  BY Numbers DEF TypeOK, Fid
<1>2. \E f \in files : \A g \in files : g <= f
  BY <1>1, NatGreatest, ValueLogAssumption
<1> QED  BY <1>2 DEF IsTop, TypeOK

(* There is one. *)
LEMMA TopUnique ==
  ASSUME TypeOK, NEW f, NEW g, IsTop(f), IsTop(g)
  PROVE  f = g
<1>1. f \in Nat /\ g \in Nat /\ f <= g /\ g <= f
  BY Numbers DEF IsTop, TypeOK
<1> QED  BY <1>1

(* What is left of a file's contents when it is cut. *)
LEMMA TruncateType ==
  ASSUME TypeOK, NEW f \in Fid, NEW to \in Place \cup {0}, Truncate(f, to)
  PROVE  /\ length' \in [Fid -> Place \cup {0}] /\ size' \in [Fid -> Nat]
         /\ at' \in [Fid -> [Place -> Block \cup {Empty, Torn}]]
         /\ length'[f] = to
         /\ \A n \in Place : at'[f][n] = IF n <= to THEN at[f][n] ELSE Empty
         /\ size'[f] = IF length[f] = to THEN size[f] ELSE to
         /\ \A g \in Fid : g # f => /\ length'[g] = length[g] /\ size'[g] = size[g]
                                    /\ at'[g] = at[g]
<1>1. to \in Nat
  BY Numbers
<1>2. /\ length' = [length EXCEPT ![f] = to]
      /\ size' = [size EXCEPT ![f] = IF length[f] = to THEN size[f] ELSE to]
      /\ at' = [at EXCEPT ![f] = [n \in Place |-> IF n <= to THEN at[f][n] ELSE Empty]]
  BY DEF Truncate
<1>3. [n \in Place |-> IF n <= to THEN at[f][n] ELSE Empty]
        \in [Place -> Block \cup {Empty, Torn}]
  BY DEF TypeOK
<1> QED  BY <1>1, <1>2, <1>3 DEF TypeOK

(* The writers that hold a place are finitely many. *)
LEMMA HoldingFinite ==
  ASSUME NEW f
  PROVE  IsFiniteSet(Holding(f)) /\ Cardinality(Holding(f)) \in Nat
<1>1. Holding(f) \subseteq Writers
  BY DEF Holding
<1> QED  BY <1>1, FS_Subset, FS_CardinalityType, ValueLogAssumption

(* What has failed is counted. *)
LEMMA BudgetType ==
  ASSUME TypeOK
  PROVE  /\ budget.fail > 0 => [budget EXCEPT !.fail = budget.fail - 1]
                                 \in [stop : 0..MaxStops, fail : 0..MaxFailures]
         /\ budget.stop > 0 => [budget EXCEPT !.stop = budget.stop - 1]
                                 \in [stop : 0..MaxStops, fail : 0..MaxFailures]
<1>1. /\ budget \in [stop : 0..MaxStops, fail : 0..MaxFailures]
      /\ budget.stop \in 0..MaxStops /\ budget.fail \in 0..MaxFailures
  BY DEF TypeOK
<1>2. /\ budget.fail > 0 => budget.fail - 1 \in 0..MaxFailures
      /\ budget.stop > 0 => budget.stop - 1 \in 0..MaxStops
  BY <1>1, ValueLogAssumption
<1> QED  BY <1>1, <1>2

(* The records of the flushes. *)
FlushType == [pc : {"off", "sync", "truncate"}, file : Fid, to : Place \cup {0}]

(* TypeOK is kept: every place stays in the mapping. *)
LEMMA TypeNext == TypeOK /\ ControlInv /\ CountInv /\ BlockInv /\ [Next]_vars => TypeOK'
<1> SUFFICES ASSUME TypeOK, ControlInv, CountInv, BlockInv, [Next]_vars PROVE TypeOK'
  OBVIOUS
<1> USE Numbers, ValueLogAssumption
<1>1. ASSUME NEW w \in Writers, WriteBlock(w) PROVE TypeOK'
  <2>1. written + 1 \in Block /\ written + 1 \in 0..MaxBlocks /\ maxFid \in Fid
    BY <1>1 DEF WriteBlock, TypeOK, Block, ControlInv, IsTop
  <2> QED  BY <1>1, <2>1 DEF WriteBlock, TypeOK, Goto, WriterPC
<1>2. ASSUME NEW w \in Writers, ValidateWriteSize(w) PROVE TypeOK'
  BY <1>2 DEF ValidateWriteSize, TypeOK, Goto, WriterPC
<1>3. ASSUME NEW w \in Writers, Flush(w) PROVE TypeOK'
  <2>1. up /\ maxFid \in Fid
    BY <1>3 DEF Flush, ControlInv, IsTop, TypeOK
  <2>2. CASE writeOffset <= MaxSize /\ entries <= MaxEntries
    BY <1>3, <2>1, <2>2 DEF Flush, TypeOK, Goto, WriterPC
  <2>3. CASE ~(writeOffset <= MaxSize /\ entries <= MaxEntries)
    <3>1. wblock[w] \in Block
      BY <1>3 DEF Flush, BlockInv, TypeOK, Block
    <3>2. flushing' \in [Block -> FlushType]
      <4> DEFINE r == [pc |-> "sync", file |-> wfile[w], to |-> 0]
      <4>1. r \in FlushType
        BY DEF TypeOK, FlushType
      <4>2. flushing' = [flushing EXCEPT ![wblock[w]] = r]
        BY <1>3, <2>3 DEF Flush
      <4> HIDE DEF r
      <4> QED  BY <3>1, <4>1, <4>2 DEF TypeOK, FlushType
    <3> QED  BY <1>3, <2>1, <2>3, <3>1, <3>2 DEF Flush, TypeOK, Goto, WriterPC, FlushType
  <2> QED  BY <2>2, <2>3
<1>4. ASSUME NEW w \in Writers, CreateValueFile(w) PROVE TypeOK'
  <2>1. maxFid + 1 \in Fid
    BY <1>4 DEF CreateValueFile, ControlInv, Fid, TypeOK
  <2> QED  BY <1>4, <2>1 DEF CreateValueFile, TypeOK, Goto, WriterPC
<1>5. ASSUME NEW w \in Writers, TakePlace(w) PROVE TypeOK'
  BY <1>5 DEF TakePlace, TypeOK, Goto, WriterPC
<1>6. ASSUME NEW w \in Writers, StartCopy(w), Takes(w)
      PROVE  copying' \subseteq Fid \X Place \X Block /\ wpc' \in [Writers -> WriterPC]
  <2>1. wfile[w] \in Fid /\ wend[w] \in Place /\ wblock[w] \in Block
    BY <1>6 DEF TypeOK, ControlInv, BlockInv, Block, Takes, Holds
  <2> QED  BY <1>6, <2>1 DEF StartCopy, TypeOK, Goto, WriterPC
<1>7. ASSUME NEW w \in Writers, CheckLength(w) PROVE TypeOK'
  <2>1. copying' \subseteq Fid \X Place \X Block /\ wpc' \in [Writers -> WriterPC]
    <3>1. CASE StartCopy(w)
      BY <1>6, <1>7, <3>1 DEF CheckLength, Takes, Holds
    <3>2. CASE Goto(w, "truncate") /\ UNCHANGED copying
      BY <3>2 DEF Goto, TypeOK, WriterPC
    <3> QED  BY <1>7, <3>1, <3>2 DEF CheckLength
  <2> QED  BY <1>7, <2>1 DEF CheckLength, TypeOK
<1>17. ASSUME NEW w \in Writers, Grow(w) PROVE TypeOK'
  <2>1. wpc[w] = "truncate" /\ Truncate(wfile[w], wend[w]) /\ Cut(wfile[w], wend[w]) /\ StartCopy(w)
    BY <1>17 DEF Grow
  <2>2. wfile[w] \in Fid /\ wend[w] \in Place
    BY <2>1 DEF TypeOK, ControlInv, Takes, Holds
  <2>3. /\ length' \in [Fid -> Place \cup {0}] /\ size' \in [Fid -> Nat]
        /\ at' \in [Fid -> [Place -> Block \cup {Empty, Torn}]]
    BY <2>1, <2>2, TruncateType
  <2>4. copying' \subseteq Fid \X Place \X Block /\ wpc' \in [Writers -> WriterPC]
    BY <1>6, <2>1 DEF Takes, Holds
  <2>5. cut' \subseteq Fid
    BY <2>1, <2>2 DEF Cut, TypeOK
  <2> QED  BY <1>17, <2>3, <2>4, <2>5 DEF Grow, TypeOK
<1>18. ASSUME NEW f \in Fid, NEW to \in Place \cup {0}, SetSize(f, to)
       PROVE  cut' \subseteq Fid /\ size' \in [Fid -> Nat]
  BY <1>18 DEF SetSize, Cut, TypeOK
<1>19. ASSUME NEW w \in Writers, GrowFails(w) PROVE TypeOK'
  <2>1. wfile[w] \in Fid /\ wend[w] \in Place /\ SetSize(wfile[w], wend[w])
    BY <1>19 DEF GrowFails, TypeOK, ControlInv, Takes, Holds
  <2>2. cut' \subseteq Fid /\ size' \in [Fid -> Nat]
    BY <1>18, <2>1
  <2>3. budget' \in [stop : 0..MaxStops, fail : 0..MaxFailures]
    <3>1. budget' = budget \/ (budget.fail > 0 /\ budget' = [budget EXCEPT !.fail = budget.fail - 1])
      BY <1>19 DEF GrowFails
    <3> QED  BY <3>1, BudgetType DEF TypeOK
  <2>4. wpc' \in [Writers -> WriterPC]
    BY <1>19 DEF GrowFails, Goto, TypeOK, WriterPC
  <2> QED  BY <1>19, <2>1, <2>2, <2>3, <2>4 DEF GrowFails, SetSize, TypeOK
<1>20. ASSUME NEW w \in Writers, Return(w)
       PROVE  /\ wpc' \in [Writers -> WriterPC] /\ wfile' \in [Writers -> Fid]
              /\ wend' \in [Writers -> Place \cup {0}] /\ wblock' \in [Writers -> Block \cup {0}]
  BY <1>20 DEF Return, Goto, TypeOK, WriterPC
<1>21. ASSUME NEW w \in Writers, RollBack(w) PROVE TypeOK'
  <2>1. wfile[w] \in Fid /\ wpc[w] = "rollback" /\ w \in Holding(wfile[w])
    BY <1>21 DEF RollBack, TypeOK, Holding
  <2>2. pos[wfile[w]] - 1 \in Place \cup {0}
    <3>1. pos[wfile[w]] \in Place \cup {0} /\ Cardinality(Holding(wfile[w])) <= pos[wfile[w]]
      BY <2>1 DEF TypeOK, CountInv
    <3>2. Cardinality(Holding(wfile[w])) # 0 /\ Cardinality(Holding(wfile[w])) \in Nat
      BY <2>1, HoldingFinite, FS_EmptySet
    <3> QED  BY <3>1, <3>2 DEF Place
  <2> QED  BY <1>20, <1>21, <2>1, <2>2 DEF RollBack, TypeOK
<1>22. ASSUME NEW w \in Writers, CreateFails(w) PROVE TypeOK'
  <2>1. budget' \in [stop : 0..MaxStops, fail : 0..MaxFailures]
    BY <1>22, BudgetType DEF CreateFails
  <2> QED  BY <1>20, <1>22, <2>1 DEF CreateFails, TypeOK
<1>23. ASSUME NEW w \in Writers, StoreOffset(w) PROVE TypeOK'
  <2>1. wblock[w] \in Block /\ wfile[w] \in Fid /\ wend[w] \in Place
    BY <1>23 DEF StoreOffset, TypeOK, BlockInv, Block, ControlInv, Takes
  <2> QED  BY <1>20, <1>23, <2>1 DEF StoreOffset, TypeOK
<1>8. ASSUME NEW f \in Fid, NEW n \in Place, NEW b \in Block, Copy(f, n, b) PROVE TypeOK'
  BY <1>8 DEF Copy, TypeOK
<1>9. ASSUME NEW g \in Block, FlushSync(g) PROVE TypeOK'
  <2> DEFINE r == [flushing[g] EXCEPT !.pc = "truncate", !.to = writeOffset]
  <2>1. r \in FlushType
    <3>1. flushing[g] \in FlushType /\ writeOffset \in Place \cup {0}
      BY DEF TypeOK, FlushType
    <3> QED  BY <3>1 DEF FlushType
  <2>2. flushing' = [flushing EXCEPT ![g] = r]
    BY <1>9 DEF FlushSync
  <2> HIDE DEF r
  <2>3. flushing' \in [Block -> FlushType]
    BY <2>1, <2>2 DEF TypeOK, FlushType
  <2> QED  BY <1>9, <2>3 DEF FlushSync, TypeOK, FlushType
<1>10. ASSUME NEW g \in Block, FlushTruncate(g) PROVE TypeOK'
  <2>1. flushing[g].file \in Fid /\ flushing[g].to \in Place \cup {0}
    BY DEF TypeOK
  <2>2. Truncate(flushing[g].file, flushing[g].to) /\ Cut(flushing[g].file, flushing[g].to)
    BY <1>10 DEF FlushTruncate
  <2>3. /\ length' \in [Fid -> Place \cup {0}] /\ size' \in [Fid -> Nat]
        /\ at' \in [Fid -> [Place -> Block \cup {Empty, Torn}]]
    BY <2>1, <2>2, TruncateType
  <2>4. cut' \subseteq Fid
    BY <2>1, <2>2 DEF Cut, TypeOK
  <2> QED  BY <1>10, <2>1, <2>3, <2>4 DEF FlushTruncate, TypeOK, NoFlush
<1>24. ASSUME NEW g \in Block, FlushFails(g) PROVE TypeOK'
  <2>1. flushing[g].file \in Fid /\ flushing[g].to \in Place \cup {0}
    BY DEF TypeOK
  <2>2. UNCHANGED <<fileVars, cut>> \/ SetSize(flushing[g].file, flushing[g].to)
    BY <1>24 DEF FlushFails
  <2>3. cut' \subseteq Fid /\ size' \in [Fid -> Nat] /\ UNCHANGED <<files, length, at, pos>>
    <3>1. CASE UNCHANGED <<fileVars, cut>>
      BY <3>1 DEF TypeOK
    <3>2. CASE SetSize(flushing[g].file, flushing[g].to)
      BY <1>18, <2>1, <3>2 DEF SetSize
    <3> QED  BY <2>2, <3>1, <3>2
  <2>4. budget' \in [stop : 0..MaxStops, fail : 0..MaxFailures]
    BY <1>24, BudgetType DEF FlushFails
  <2> QED  BY <1>24, <2>3, <2>4 DEF FlushFails, TypeOK, NoFlush
<1>11. ASSUME Stop,
              length' \in [Fid -> Place \cup {0}],
              at' \in [Fid -> [Place -> Block \cup {Empty, Torn}]],
              budget' \in [stop : 0..MaxStops, fail : 0..MaxFailures]
       PROVE  TypeOK'
  BY <1>11 DEF Stop, TypeOK, NoFlush, WriterPC
<1>12. CASE Crash
  <2>1. budget' \in [stop : 0..MaxStops, fail : 0..MaxFailures]
    BY <1>12, BudgetType DEF Crash
  <2>2. at' \in [Fid -> [Place -> Block \cup {Empty, Torn}]]
    BY <1>12 DEF Crash, TypeOK
  <2> QED  BY <1>11, <1>12, <2>1, <2>2 DEF Crash, TypeOK
<1>13. CASE Panic
  BY <1>11, <1>13 DEF Panic, TypeOK
<1>14. CASE Close
  <2>1. budget' \in [stop : 0..MaxStops, fail : 0..MaxFailures]
    BY <1>14, BudgetType DEF Close
  <2>2. [n \in Place |-> IF n <= writeOffset THEN at[maxFid][n] ELSE Empty]
          \in [Place -> Block \cup {Empty, Torn}]
    BY <1>14 DEF Close, TypeOK, ControlInv, IsTop
  <2>3. /\ at' \in [Fid -> [Place -> Block \cup {Empty, Torn}]]
        /\ length' \in [Fid -> Place \cup {0}]
    BY <1>14, <2>2 DEF Close, TypeOK
  <2> QED  BY <1>11, <1>14, <2>1, <2>3 DEF Close
<1>15. CASE Open
  <2>1. maxFid' \in Fid
    BY <1>15, TopExists DEF Open, ControlInv
  <2>2. Restored(maxFid') \in Place \cup {0}
    BY <2>1, RestoredFacts
  <2> QED  BY <1>15, <2>1, <2>2 DEF Open, TypeOK
<1>16. CASE UNCHANGED vars
  BY <1>16 DEF vars, TypeOK
<1> QED
  BY <1>1, <1>2, <1>3, <1>4, <1>5, <1>7, <1>8, <1>9, <1>10, <1>12, <1>13, <1>14, <1>15,
     <1>16, <1>17, <1>19, <1>21, <1>22, <1>23, <1>24 DEF Next

(***************************************************************************)
(* Places: who has which one.                                              *)
(***************************************************************************)

(* A step that takes no place, starts no copy and gives nothing back. *)
SamePlaces ==
    /\ \A b \in Block, f \in Fid, n \in Place :
         (Claim(b, f, n)' <=> Claim(b, f, n)) /\ (Placed(b, f, n)' <=> Placed(b, f, n))
    /\ \A f \in Fid : Holding(f)' = Holding(f)

(* A step of writer w alone. *)
StepOf(w) ==
    \A x \in Writers : x # w =>
      wpc'[x] = wpc[x] /\ wblock'[x] = wblock[x] /\ wfile'[x] = wfile[x] /\ wend'[x] = wend[x]

(* The functions of the writers change at w. *)
LEMMA StepFacts ==
  ASSUME TypeOK, NEW w \in Writers
  PROVE  /\ \A pc : Goto(w, pc) => wpc'[w] = pc /\ \A x \in Writers : x # w => wpc'[x] = wpc[x]
         /\ \A pc : Goto(w, pc) /\ UNCHANGED <<wblock, wfile, wend>> => StepOf(w)
         /\ Return(w) => StepOf(w) /\ wpc'[w] = "idle"
<1>1. \A pc : Goto(w, pc) => wpc'[w] = pc /\ \A x \in Writers : x # w => wpc'[x] = wpc[x]
  BY DEF Goto, TypeOK
<1>2. Return(w) => \A x \in Writers : x # w =>
         wblock'[x] = wblock[x] /\ wfile'[x] = wfile[x] /\ wend'[x] = wend[x]
  BY DEF Return, TypeOK
<1> QED  BY <1>1, <1>2 DEF Return, StepOf

LEMMA QuietWriter ==
  ASSUME NEW w \in Writers, StepOf(w), ptr' = ptr,
         Holds(w)' <=> Holds(w), wpc'[w] = "store" <=> wpc[w] = "store",
         Takes(w) => wblock'[w] = wblock[w] /\ wfile'[w] = wfile[w] /\ wend'[w] = wend[w]
  PROVE  SamePlaces
<1>1. \A x \in Writers : (Holds(x)' <=> Holds(x)) /\ (wpc'[x] = "store" <=> wpc[x] = "store")
  BY DEF StepOf, Holds
<1>2. \A x \in Writers : Takes(x) =>
         wblock'[x] = wblock[x] /\ wfile'[x] = wfile[x] /\ wend'[x] = wend[x]
  BY DEF StepOf
<1>3. \A x \in Writers : Takes(x)' <=> Takes(x)
  BY <1>1 DEF Takes
<1>4. \A f : Holding(f)' = Holding(f)
  BY <1>1, <1>2 DEF Holding, Holds, Takes
<1>5. \A b \in Block, f \in Fid, n \in Place : Claim(b, f, n)' <=> Claim(b, f, n)
  BY <1>2, <1>3 DEF Claim
<1>6. \A b \in Block, f \in Fid, n \in Place : Placed(b, f, n)' <=> Placed(b, f, n)
  BY <1>1, <1>2 DEF Placed, Takes
<1> QED  BY <1>4, <1>5, <1>6 DEF SamePlaces

(* A step that leaves the writers and the pointers alone. *)
LEMMA SameWriters ==
  ASSUME UNCHANGED <<writerVars, ptr>>
  PROVE  SamePlaces
  BY DEF SamePlaces, Claim, Placed, Holding, Takes, Holds

(* A writer's block is its own, and has no pointer yet. *)
LEMMA OneWriter ==
  ASSUME TypeOK, BlockInv, NEW w \in Writers, wpc[w] # "idle"
  PROVE  /\ wblock[w] \in Block /\ wfile[w] \in Fid /\ ptr[wblock[w]] = NoPtr
         /\ \A f \in Fid : \A n : ptr[wblock[w]] # <<f, n>>
         /\ \A x \in Writers : wpc[x] # "idle" /\ wblock[x] = wblock[w] => x = w
<1>1. wblock[w] \in Block /\ wfile[w] \in Fid /\ ptr[wblock[w]] = NoPtr
  BY DEF BlockInv, TypeOK, Block
<1>2. \A f \in Fid : \A n : NoPtr # <<f, n>>
  BY Numbers DEF NoPtr, Fid
<1>3. \A x \in Writers : wpc[x] # "idle" /\ wblock[x] = wblock[w] => x = w
  BY DEF BlockInv
<1> QED  BY <1>1, <1>2, <1>3

(* The manager returns the pointer: the block keeps its place. *)
LEMMA StorePlaces ==
  ASSUME TypeOK, BlockInv, NEW w \in Writers, StoreOffset(w)
  PROVE  SamePlaces
<1>1. wpc[w] = "store" /\ Takes(w) /\ ~Holds(w) /\ Return(w)
  BY DEF StoreOffset, Takes, Holds
<1>2. /\ wblock[w] \in Block /\ \A f \in Fid : \A n : ptr[wblock[w]] # <<f, n>>
      /\ \A x \in Writers : wpc[x] # "idle" /\ wblock[x] = wblock[w] => x = w
  BY <1>1, OneWriter
<1>3. StepOf(w) /\ wpc'[w] = "idle" /\ ~Takes(w)' /\ ~Holds(w)'
  BY <1>1, StepFacts DEF Takes, Holds
<1>4. /\ ptr'[wblock[w]] = <<wfile[w], wend[w]>>
      /\ \A b \in Block : b # wblock[w] => ptr'[b] = ptr[b]
  BY <1>2 DEF StoreOffset, TypeOK
<1>5. \A x \in Writers : x # w =>
         (Takes(x)' <=> Takes(x)) /\ (Holds(x)' <=> Holds(x)) /\ (Takes(x) => wpc[x] # "idle")
  BY <1>3 DEF StepOf, Takes, Holds
<1>6. \A f : Holding(f)' = Holding(f)
  BY <1>1, <1>3 DEF Holding, Holds, StepOf
<1>7. ASSUME NEW b \in Block, NEW f \in Fid, NEW n \in Place
      PROVE  (Claim(b, f, n)' <=> Claim(b, f, n)) /\ (Placed(b, f, n)' <=> Placed(b, f, n))
  <2>1. CASE b = wblock[w]
    <3>1. \A x \in Writers : Takes(x)' => wblock'[x] # b
      BY <1>2, <1>3, <1>5, <2>1 DEF StepOf
    <3>2. \A x \in Writers : wpc'[x] = "store" => Takes(x)'
      BY DEF Takes
    <3>3. /\ Claim(b, f, n)' <=> <<f, n>> = <<wfile[w], wend[w]>>
          /\ Placed(b, f, n)' <=> <<f, n>> = <<wfile[w], wend[w]>>
      BY <1>4, <2>1, <3>1, <3>2 DEF Claim, Placed
    <3>4. \A x \in Writers : Takes(x) /\ wblock[x] = b => x = w
      BY <1>2, <2>1 DEF Takes, Holds
    <3>5. /\ Claim(b, f, n) <=> <<f, n>> = <<wfile[w], wend[w]>>
          /\ Placed(b, f, n) <=> <<f, n>> = <<wfile[w], wend[w]>>
      BY <1>1, <1>2, <2>1, <3>4 DEF Claim, Placed, Takes
    <3> QED  BY <3>3, <3>5
  <2>2. CASE b # wblock[w]
    <3>1. ptr'[b] = ptr[b]
      BY <1>4, <2>2
    <3>2. \A x \in Writers : wblock[x] = b => x # w
      BY <2>2
    <3>3. \A x \in Writers : (Takes(x)' \/ wpc'[x] = "store") => x # w
      BY <1>3
    <3>4. \A x \in Writers : x # w => (wpc'[x] = "store" <=> wpc[x] = "store")
      BY <1>3 DEF StepOf
    <3>5. Claim(b, f, n)' <=> Claim(b, f, n)
      BY <1>3, <1>5, <3>1, <3>2, <3>3 DEF Claim, StepOf
    <3>6. Placed(b, f, n)' <=> Placed(b, f, n)
      BY <1>3, <3>1, <3>2, <3>3, <3>4 DEF Placed, StepOf
    <3> QED  BY <3>5, <3>6
  <2> QED  BY <2>1, <2>2
<1> QED  BY <1>6, <1>7 DEF SamePlaces

(* A copy stays one of a block that has its place. *)
LEMMA CopiesPlaced ==
  ASSUME TypeOK, BlockInv, copying' \subseteq copying,
         \A b \in Block, f \in Fid, n \in Place : Placed(b, f, n) => Placed(b, f, n)'
  PROVE  \A c \in copying' : Placed(c[3], c[1], c[2])'
<1> SUFFICES ASSUME NEW c \in copying' PROVE Placed(c[3], c[1], c[2])'
  OBVIOUS
<1>1. c \in Fid \X Place \X Block
  BY DEF TypeOK
<1>2. c[1] \in Fid /\ c[2] \in Place /\ c[3] \in Block
  BY <1>1
<1>3. Placed(c[3], c[1], c[2])
  BY DEF BlockInv
<1> QED  BY <1>2, <1>3

(* Where a copy was started, a place is taken. *)
LEMMA PlacedClaim ==
  \A b, f, n : Placed(b, f, n) => Claim(b, f, n)
  BY DEF Placed, Claim, Takes

(* A place is taken: pos is advanced in one atomic step. *)
LEMMA TakeChanges ==
  ASSUME TypeOK, NEW w \in Writers, TakePlace(w)
  PROVE  /\ \A b \in Block, f \in Fid, n \in Place :
              /\ Claim(b, f, n)' <=>
                   Claim(b, f, n) \/ (b = wblock[w] /\ f = wfile[w] /\ n = pos[f] + 1)
              /\ Placed(b, f, n)' <=> Placed(b, f, n)
         /\ \A f \in Fid : Holding(f)' = IF f = wfile[w] THEN Holding(f) \cup {w} ELSE Holding(f)
         /\ w \notin Holding(wfile[w]) /\ wend'[w] = pos[wfile[w]] + 1
<1>1. /\ wpc[w] = "write" /\ wpc'[w] = "length" /\ StepOf(w)
      /\ wend'[w] = pos[wfile[w]] + 1 /\ UNCHANGED <<wblock, wfile, ptr>>
  BY DEF TakePlace, Goto, TypeOK, StepOf
<1>2. Takes(w)' /\ ~Takes(w) /\ \A x \in Writers : x # w => (Takes(x)' <=> Takes(x))
  BY <1>1 DEF Takes, Holds, StepOf
<1>3. \A b, f, n : Claim(b, f, n)' <=>
         Claim(b, f, n) \/ (b = wblock[w] /\ f = wfile[w] /\ n = pos[wfile[w]] + 1)
  BY <1>1, <1>2 DEF Claim, StepOf
<1>4. \A b, f, n : Placed(b, f, n)' <=> Placed(b, f, n)
  BY <1>1 DEF Placed, StepOf
<1>5. \A f : Holding(f)' = IF f = wfile[w] THEN Holding(f) \cup {w} ELSE Holding(f)
  BY <1>1 DEF Holding, StepOf
<1>6. w \notin Holding(wfile[w])
  BY <1>1 DEF Holding
<1> QED  BY <1>1, <1>3, <1>4, <1>5, <1>6

(* A copy is started. *)
LEMMA StartChanges ==
  ASSUME TypeOK, NEW w \in Writers, StartCopy(w), Holds(w), UNCHANGED <<wblock, wfile, wend, ptr>>
  PROVE  /\ \A b \in Block, f \in Fid, n \in Place :
              /\ Claim(b, f, n)' <=> Claim(b, f, n)
              /\ Placed(b, f, n)' <=>
                   Placed(b, f, n) \/ (b = wblock[w] /\ f = wfile[w] /\ n = wend[w])
         /\ \A f \in Fid : Holding(f)' = Holding(f) \ {w}
         /\ w \in Holding(wfile[w]) /\ \A f \in Fid : f # wfile[w] => w \notin Holding(f)
         /\ Claim(wblock[w], wfile[w], wend[w])
<1>1. wpc[w] # "store" /\ wpc'[w] = "store" /\ StepOf(w)
  BY DEF StartCopy, Goto, TypeOK, StepOf, Holds
<1>2. \A x \in Writers : Takes(x)' <=> Takes(x)
  BY <1>1 DEF Takes, Holds, StepOf
<1>3. \A b, f, n : Claim(b, f, n)' <=> Claim(b, f, n)
  BY <1>1, <1>2 DEF Claim
<1>4. \A b, f, n : Placed(b, f, n)' <=>
         Placed(b, f, n) \/ (b = wblock[w] /\ f = wfile[w] /\ n = wend[w])
  BY <1>1 DEF Placed, StepOf
<1>5. \A f : Holding(f)' = Holding(f) \ {w}
  BY <1>1 DEF Holding, StepOf
<1>6. w \in Holding(wfile[w]) /\ \A f \in Fid : f # wfile[w] => w \notin Holding(f)
  BY DEF Holding, Holds
<1>7. Claim(wblock[w], wfile[w], wend[w])
  BY DEF Claim, Takes
<1> QED  BY <1>3, <1>4, <1>5, <1>6, <1>7

(* A place is given back. *)
LEMMA BackChanges ==
  ASSUME TypeOK, BlockInv, NEW w \in Writers, RollBack(w)
  PROVE  /\ \A b \in Block, f \in Fid, n \in Place :
              /\ Claim(b, f, n)' <=> Claim(b, f, n) /\ b # wblock[w]
              /\ Placed(b, f, n)' <=> Placed(b, f, n)
         /\ \A f \in Fid : Holding(f)' = Holding(f) \ {w}
         /\ w \in Holding(wfile[w]) /\ \A f \in Fid : f # wfile[w] => w \notin Holding(f)
         /\ Claim(wblock[w], wfile[w], wend[w])
<1>1. wpc[w] = "rollback" /\ wpc'[w] = "idle" /\ StepOf(w) /\ ptr' = ptr
  BY StepFacts DEF RollBack
<1>2. /\ ~Takes(w)' /\ Takes(w) /\ Holds(w)
      /\ \A x \in Writers : x # w => (Takes(x)' <=> Takes(x))
  BY <1>1 DEF Takes, Holds, StepOf
<1>3. /\ \A f \in Fid : \A n : ptr[wblock[w]] # <<f, n>>
      /\ \A x \in Writers : wpc[x] # "idle" /\ wblock[x] = wblock[w] => x = w
  BY <1>1, OneWriter
<1>4. \A x \in Writers : Takes(x) => wpc[x] # "idle"
  BY DEF Takes, Holds
<1>5. \A b \in Block, f \in Fid, n \in Place :
         Claim(b, f, n)' <=> Claim(b, f, n) /\ b # wblock[w]
  BY <1>1, <1>2, <1>3, <1>4 DEF Claim, StepOf
<1>6. \A b, f, n : Placed(b, f, n)' <=> Placed(b, f, n)
  BY <1>1 DEF Placed, StepOf
<1>7. \A f : Holding(f)' = Holding(f) \ {w}
  BY <1>1 DEF Holding, StepOf
<1>8. w \in Holding(wfile[w]) /\ \A f \in Fid : f # wfile[w] => w \notin Holding(f)
  BY <1>1 DEF Holding
<1>9. Claim(wblock[w], wfile[w], wend[w])
  BY <1>2 DEF Claim
<1> QED  BY <1>5, <1>6, <1>7, <1>8, <1>9

(* The end of the process leaves the pointers. *)
LEMMA StopChanges ==
  ASSUME Stop
  PROVE  /\ \A b \in Block, f \in Fid, n \in Place :
              (Claim(b, f, n)' <=> ptr[b] = <<f, n>>) /\ (Placed(b, f, n)' <=> ptr[b] = <<f, n>>)
         /\ \A f \in Fid : Holding(f)' = {}
<1>1. (\A x \in Writers : wpc'[x] = "idle") /\ ptr' = ptr
  BY DEF Stop
<1> QED  BY <1>1 DEF Claim, Placed, Holding, Takes, Holds
(***************************************************************************)
(* What holds whatever was lost.                                           *)
(***************************************************************************)
BasicInv == TypeOK /\ ControlInv /\ CountInv /\ BlockInv /\ MappedInv
BasicKept == ControlInv' /\ CountInv' /\ BlockInv' /\ MappedInv'

(* A writer between two changes of the places. *)
LEMMA QuietBasic ==
  ASSUME BasicInv, TypeOK', SamePlaces, NEW w \in Writers, StepOf(w), wpc[w] # "idle",
         UNCHANGED <<files, length, at, pos, maxFid, copying, written, up, ptr>>,
         wpc'[w] # "idle" => wblock'[w] = wblock[w] /\ wfile'[w] <= maxFid,
         wpc'[w] = "create" => maxFid < MaxFid /\ \A x \in Writers : wpc[x] # "create",
         Takes(w)' => wend'[w] \in Place
  PROVE  BasicKept
<1> USE DEF BasicInv
<1>1. up
  BY DEF ControlInv
<1>2. \A x \in Writers : x # w =>
         /\ wpc'[x] = wpc[x] /\ wblock'[x] = wblock[x] /\ wfile'[x] = wfile[x]
         /\ wend'[x] = wend[x] /\ (Takes(x)' <=> Takes(x))
  BY DEF StepOf, Takes, Holds
<1>3. ControlInv'
  <2>1. \A x \in Writers : wpc'[x] = "create" => maxFid' < MaxFid
    BY <1>2 DEF ControlInv
  <2>2. \A x, y \in Writers : wpc'[x] = "create" /\ wpc'[y] = "create" => x = y
    BY <1>2 DEF ControlInv
  <2>3. \A x \in Writers : wpc'[x] # "idle" => wfile'[x] <= maxFid'
    BY <1>2 DEF ControlInv
  <2>4. \A x \in Writers : Takes(x)' => wend'[x] \in Place
    BY <1>2 DEF ControlInv
  <2> QED  BY <1>1, <2>1, <2>2, <2>3, <2>4 DEF ControlInv, IsTop
<1>4. CountInv'
  BY DEF CountInv, SamePlaces
<1>5. BlockInv'
  <2>1. \A c \in copying' : Placed(c[3], c[1], c[2])'
    BY CopiesPlaced DEF SamePlaces
  <2>2. \A x \in Writers : wpc'[x] # "idle" => wpc[x] # "idle" /\ wblock'[x] = wblock[x]
    BY <1>2
  <2> QED  BY <2>1, <2>2 DEF BlockInv
<1>6. MappedInv'
  BY DEF MappedInv, Reached, SamePlaces
<1> QED  BY <1>3, <1>4, <1>5, <1>6 DEF BasicKept

(* The steps of a writer that neither take a place nor give one back. *)
LEMMA QuietSteps ==
  ASSUME BasicInv, NEW w \in Writers,
         \/ ValidateWriteSize(w) \/ Flush(w) \/ CreateFails(w) \/ GrowFails(w)
         \/ CheckLength(w) /\ wend[w] >= length[wfile[w]]
  PROVE  /\ StepOf(w) /\ wpc[w] # "idle" /\ SamePlaces
         /\ UNCHANGED <<files, length, at, pos, maxFid, copying, written, up, ptr, lossy>>
         /\ wpc'[w] # "idle" => wblock'[w] = wblock[w] /\ wfile'[w] \in {wfile[w], maxFid}
         /\ wpc'[w] = "create" => maxFid < MaxFid /\ \A x \in Writers : wpc[x] # "create"
         /\ Takes(w)' => Takes(w) /\ wend'[w] = wend[w]
         /\ ~GrowFails(w) => UNCHANGED <<size, cut>>
<1> USE DEF BasicInv
<1>1. CASE ValidateWriteSize(w)
  <2>1. /\ wpc[w] = "check" /\ wpc'[w] \in {"flush", "write"} /\ StepOf(w)
        /\ UNCHANGED <<fileVars, managerVars, wfile, wend, wblock, copying, clientVars>>
    BY <1>1, StepFacts DEF ValidateWriteSize
  <2>2. SamePlaces
    BY <2>1, QuietWriter DEF Takes, Holds
  <2> QED  BY <2>1, <2>2 DEF Takes, Holds
<1>2. CASE Flush(w)
  <2>1. /\ wpc[w] = "flush" /\ wpc'[w] \in {"create", "write"}
        /\ \A x \in Writers : x # w => wpc'[x] = wpc[x]
        /\ wfile' = wfile \/ wfile' = [wfile EXCEPT ![w] = maxFid]
        /\ UNCHANGED <<fileVars, managerVars, wend, wblock, copying, clientVars>>
    BY <1>2, StepFacts DEF Flush
  <2>2. StepOf(w) /\ wfile'[w] \in {wfile[w], maxFid}
    BY <2>1 DEF StepOf, TypeOK
  <2>3. SamePlaces
    BY <2>1, <2>2, QuietWriter DEF Takes, Holds
  <2>4. wpc'[w] = "create" => maxFid < MaxFid /\ \A x \in Writers : wpc[x] # "create"
    <3>1. CASE writeOffset <= MaxSize /\ entries <= MaxEntries
      <4>1. Goto(w, "write")
        BY <1>2, <3>1 DEF Flush
      <4> QED  BY <4>1, StepFacts
    <3>2. CASE ~(writeOffset <= MaxSize /\ entries <= MaxEntries)
      BY <1>2, <3>2 DEF Flush
    <3> QED  BY <3>1, <3>2
  <2> QED  BY <2>1, <2>2, <2>3, <2>4 DEF Takes, Holds
<1>3. CASE CreateFails(w)
  <2>1. /\ wpc[w] = "create" /\ wpc'[w] = "idle" /\ StepOf(w)
        /\ UNCHANGED <<fileVars, managerVars, copying, clientVars>>
    BY <1>3, StepFacts DEF CreateFails
  <2>2. SamePlaces
    BY <2>1, QuietWriter DEF Takes, Holds
  <2> QED  BY <2>1, <2>2 DEF Takes, Holds
<1>4. CASE GrowFails(w)
  <2>1. /\ wpc[w] = "truncate" /\ wpc'[w] = "rollback" /\ StepOf(w)
        /\ UNCHANGED <<files, length, at, pos, managerVars, wfile, wend, wblock, copying,
                       up, written, ptr, lossy>>
    BY <1>4, StepFacts DEF GrowFails, SetSize
  <2>2. SamePlaces
    BY <2>1, QuietWriter DEF Takes, Holds
  <2> QED  BY <1>4, <2>1, <2>2 DEF Takes, Holds
<1>5. CASE CheckLength(w) /\ wend[w] >= length[wfile[w]]
  <2>1. /\ wpc[w] = "length" /\ wpc'[w] = "truncate" /\ StepOf(w)
        /\ UNCHANGED <<fileVars, managerVars, wfile, wend, wblock, copying, clientVars>>
    BY <1>5, StepFacts DEF CheckLength
  <2>2. SamePlaces
    BY <2>1, QuietWriter DEF Takes, Holds
  <2> QED  BY <2>1, <2>2 DEF Takes, Holds
<1> QED  BY <1>1, <1>2, <1>3, <1>4, <1>5

LEMMA QuietStepsBasic ==
  ASSUME BasicInv, TypeOK', NEW w \in Writers,
         \/ ValidateWriteSize(w) \/ Flush(w) \/ CreateFails(w) \/ GrowFails(w)
         \/ CheckLength(w) /\ wend[w] >= length[wfile[w]]
  PROVE  BasicKept
<1>1. /\ StepOf(w) /\ wpc[w] # "idle" /\ SamePlaces
      /\ UNCHANGED <<files, length, at, pos, maxFid, copying, written, up, ptr>>
      /\ wpc'[w] # "idle" => wblock'[w] = wblock[w] /\ wfile'[w] \in {wfile[w], maxFid}
      /\ wpc'[w] = "create" => maxFid < MaxFid /\ \A x \in Writers : wpc[x] # "create"
      /\ Takes(w)' => Takes(w) /\ wend'[w] = wend[w]
  BY QuietSteps
<1>2. wfile[w] <= maxFid /\ maxFid <= maxFid
  BY <1>1, Numbers DEF BasicInv, ControlInv, TypeOK
<1>3. Takes(w)' => wend'[w] \in Place
  BY <1>1 DEF BasicInv, ControlInv
<1> QED  BY <1>1, <1>2, <1>3, QuietBasic
(* A block is given to a writer. *)
LEMMA WriteBlockBasic ==
  ASSUME BasicInv, TypeOK', NEW w \in Writers, WriteBlock(w)
  PROVE  BasicKept /\ SamePlaces
<1> USE Numbers, ValueLogAssumption DEF BasicInv
<1>1. /\ wpc[w] = "idle" /\ wpc' = [wpc EXCEPT ![w] = "check"] /\ up /\ up' = up
      /\ written' = written + 1 /\ wblock' = [wblock EXCEPT ![w] = written + 1]
      /\ wfile' = [wfile EXCEPT ![w] = maxFid]
      /\ UNCHANGED <<files, length, at, pos, maxFid, wend, copying, ptr>>
  BY DEF WriteBlock, Goto
<1>2. /\ wpc'[w] = "check" /\ wblock'[w] = written + 1 /\ wfile'[w] = maxFid /\ StepOf(w)
  BY <1>1 DEF TypeOK, StepOf
<1>3. SamePlaces
  BY <1>1, <1>2, QuietWriter DEF Takes, Holds
<1>4. \A x \in Writers : x # w => (Takes(x)' <=> Takes(x))
  BY <1>2 DEF StepOf, Takes, Holds
<1>5. ControlInv'
  <2>1. ~Takes(w)' /\ maxFid <= maxFid
    BY <1>2 DEF Takes, Holds, TypeOK
  <2>2. \A x \in Writers : wpc'[x] # "idle" => wfile'[x] <= maxFid'
    BY <1>1, <1>2, <2>1 DEF ControlInv, StepOf
  <2>3. \A x \in Writers : Takes(x)' => wend'[x] \in Place
    BY <1>1, <1>4, <2>1 DEF ControlInv
  <2>4. \A x \in Writers : wpc'[x] = "create" => wpc[x] = "create"
    BY <1>2 DEF StepOf
  <2> QED  BY <1>1, <2>2, <2>3, <2>4 DEF ControlInv, IsTop
<1>6. CountInv'
  BY <1>1, <1>3 DEF CountInv, SamePlaces
<1>7. BlockInv'
  <2>1. \A b \in Block : ptr'[b] # NoPtr => b <= written'
    BY <1>1 DEF BlockInv, TypeOK, Block
  <2>2. written + 1 \in Block /\ ptr[written + 1] = NoPtr
    BY DEF WriteBlock, BlockInv, TypeOK, Block
  <2>3. written \in Nat /\ written + 1 \in 1..written' /\ \A k \in 1..written : k \in 1..written'
    BY <1>1 DEF TypeOK
  <2>4. \A x \in Writers : wpc'[x] # "idle" =>
           wblock'[x] \in 1..written' /\ ptr'[wblock'[x]] = NoPtr
    BY <1>1, <1>2, <2>2, <2>3 DEF BlockInv, StepOf
  <2>5. \A x \in Writers : x # w /\ wpc'[x] # "idle" => wblock'[x] # written + 1
    <3>1. \A x \in Writers : x # w /\ wpc'[x] # "idle" => wblock'[x] \in 1..written
      BY <1>2 DEF BlockInv, StepOf
    <3> QED  BY <2>3, <3>1
  <2>6. \A x, y \in Writers : wpc'[x] # "idle" /\ wpc'[y] # "idle"
           /\ wblock'[x] = wblock'[y] => x = y
    BY <1>2, <2>5 DEF BlockInv, StepOf
  <2>7. \A c \in copying' : Placed(c[3], c[1], c[2])'
    BY <1>1, <1>3, CopiesPlaced DEF SamePlaces
  <2> QED  BY <2>1, <2>4, <2>6, <2>7 DEF BlockInv
<1>8. MappedInv'
  BY <1>1, <1>3 DEF MappedInv, Reached, SamePlaces
<1> QED  BY <1>3, <1>5, <1>6, <1>7, <1>8 DEF BasicKept

(* The pointer is returned. *)
LEMMA StoreBasic ==
  ASSUME BasicInv, TypeOK', NEW w \in Writers, StoreOffset(w)
  PROVE  BasicKept
<1> USE Numbers, ValueLogAssumption DEF BasicInv
<1>1. /\ wpc[w] = "store" /\ ptr' = [ptr EXCEPT ![wblock[w]] = <<wfile[w], wend[w]>>]
      /\ wpc'[w] = "idle" /\ StepOf(w)
      /\ UNCHANGED <<files, length, at, pos, maxFid, copying, written, up>>
  BY StepFacts DEF StoreOffset
<1>2. SamePlaces
  BY StorePlaces
<1>3. ControlInv'
  <2>1. up
    BY <1>1 DEF ControlInv
  <2>2. \A x \in Writers : wpc'[x] # "idle" => wfile'[x] <= maxFid' /\ wpc'[x] = wpc[x]
    BY <1>1 DEF ControlInv, StepOf
  <2>3. \A x \in Writers : Takes(x)' => wend'[x] \in Place
    BY <1>1 DEF ControlInv, StepOf, Takes, Holds
  <2> QED  BY <1>1, <2>1, <2>2, <2>3 DEF ControlInv, IsTop
<1>4. CountInv'
  BY <1>1, <1>2 DEF CountInv, SamePlaces
<1>5. BlockInv'
  <2>1. wblock[w] \in 1..written /\ wblock[w] \in Block
    BY <1>1 DEF BlockInv, TypeOK, Block
  <2>2. \A x \in Writers : wpc'[x] # "idle" =>
           wpc[x] # "idle" /\ wblock[x] # wblock[w] /\ wblock'[x] = wblock[x]
    BY <1>1 DEF BlockInv, StepOf
  <2>3. \A b \in Block : b # wblock[w] => ptr'[b] = ptr[b]
    BY <1>1 DEF TypeOK
  <2>4. \A b \in Block : ptr'[b] # NoPtr => b <= written'
    BY <1>1, <2>1, <2>3 DEF BlockInv
  <2>5. \A c \in copying' : Placed(c[3], c[1], c[2])'
    BY <1>1, <1>2, CopiesPlaced DEF SamePlaces
  <2>6. \A x \in Writers : wpc[x] # "idle" => wblock[x] \in Block
    BY DEF BlockInv, TypeOK, Block
  <2>7. \A x \in Writers : wpc'[x] # "idle" =>
           wblock'[x] \in 1..written' /\ ptr'[wblock'[x]] = NoPtr
    BY <1>1, <2>2, <2>3, <2>6 DEF BlockInv
  <2> QED  BY <1>1, <2>2, <2>4, <2>5, <2>7 DEF BlockInv
<1>6. MappedInv'
  BY <1>1, <1>2 DEF MappedInv, Reached, SamePlaces
<1> QED  BY <1>3, <1>4, <1>5, <1>6 DEF BasicKept

(* A file is created. *)
LEMMA CreateChanges ==
  ASSUME BasicInv, NEW w \in Writers, CreateValueFile(w)
  PROVE  /\ SamePlaces /\ StepOf(w) /\ wpc[w] = "create" /\ wpc'[w] = "write" /\ up /\ up' = up
         /\ maxFid + 1 \in Fid /\ maxFid + 1 \notin files /\ ~Reached(maxFid + 1)
         /\ files' = files \cup {maxFid + 1} /\ maxFid' = maxFid + 1 /\ wfile'[w] = maxFid + 1
         /\ \A f \in Fid : length'[f] = IF f = maxFid + 1 THEN 2 * MaxSize ELSE length[f]
         /\ UNCHANGED <<at, pos, size, wend, wblock, copying, ptr, written, cut>>
<1> USE Numbers, ValueLogAssumption DEF BasicInv
<1>1. /\ wpc[w] = "create" /\ maxFid < MaxFid /\ up
      /\ length' = [length EXCEPT ![maxFid + 1] = 2 * MaxSize]
      /\ wfile' = [wfile EXCEPT ![w] = maxFid + 1]
      /\ files' = files \cup {maxFid + 1} /\ maxFid' = maxFid + 1
      /\ UNCHANGED <<at, pos, size, wend, wblock, copying, ptr, written, up, cut>>
  BY DEF CreateValueFile, ControlInv
<1>2. wpc'[w] = "write" /\ StepOf(w) /\ wfile'[w] = maxFid + 1
  BY <1>1 DEF CreateValueFile, Goto, TypeOK, StepOf
<1>3. SamePlaces
  BY <1>1, <1>2, QuietWriter DEF Takes, Holds
<1>4. maxFid + 1 \in Fid /\ maxFid + 1 \notin files /\ ~Reached(maxFid + 1)
  BY <1>1 DEF TypeOK, ControlInv, IsTop, Fid, Reached
<1>5. \A f \in Fid : length'[f] = IF f = maxFid + 1 THEN 2 * MaxSize ELSE length[f]
  BY <1>1 DEF TypeOK
<1> QED  BY <1>1, <1>2, <1>3, <1>4, <1>5

LEMMA CreateBasic ==
  ASSUME BasicInv, TypeOK', NEW w \in Writers, CreateValueFile(w)
  PROVE  BasicKept
<1> USE Numbers, ValueLogAssumption DEF BasicInv
<1>1. /\ SamePlaces /\ StepOf(w) /\ wpc[w] = "create" /\ wpc'[w] = "write" /\ up /\ up' = up
      /\ maxFid + 1 \in Fid /\ maxFid + 1 \notin files /\ ~Reached(maxFid + 1)
      /\ files' = files \cup {maxFid + 1} /\ maxFid' = maxFid + 1 /\ wfile'[w] = maxFid + 1
      /\ \A f \in Fid : length'[f] = IF f = maxFid + 1 THEN 2 * MaxSize ELSE length[f]
      /\ UNCHANGED <<at, pos, wend, wblock, copying, ptr, written>>
  BY CreateChanges
<1>2. maxFid \in Nat /\ files \subseteq Nat /\ \A f \in files : f <= maxFid
  BY <1>1 DEF ControlInv, TypeOK, IsTop
<1>3. ControlInv'
  <2>1. IsTop(maxFid)' /\ files' # {}
    BY <1>1, <1>2 DEF IsTop
  <2>2. \A x \in Writers : wpc'[x] # "create"
    BY <1>1 DEF ControlInv, StepOf
  <2>3. \A x \in Writers : wpc'[x] # "idle" => wfile'[x] <= maxFid'
    <3>1. \A x \in Writers : x # w /\ wpc'[x] # "idle" =>
             wfile'[x] <= maxFid /\ wfile'[x] = wfile[x] /\ wfile[x] \in Nat
      BY <1>1 DEF ControlInv, StepOf, TypeOK
    <3> QED  BY <1>1, <1>2, <3>1
  <2>4. \A f \in Fid : f > maxFid' => pos'[f] = 0
    <3>1. \A f \in Fid : f > maxFid' => f > maxFid
      BY <1>1, <1>2
    <3> QED  BY <1>1, <3>1 DEF ControlInv
  <2>5. \A x \in Writers : Takes(x)' => wend'[x] \in Place
    BY <1>1 DEF ControlInv, StepOf, Takes, Holds
  <2> QED  BY <1>1, <2>1, <2>2, <2>3, <2>4, <2>5 DEF ControlInv
<1>4. CountInv'
  BY <1>1 DEF CountInv, SamePlaces
<1>5. BlockInv'
  <2>1. \A c \in copying' : Placed(c[3], c[1], c[2])'
    BY <1>1, CopiesPlaced DEF SamePlaces
  <2>2. \A x \in Writers : wpc'[x] # "idle" => wpc[x] # "idle"
    BY <1>1 DEF StepOf
  <2> QED  BY <1>1, <2>1, <2>2 DEF BlockInv
<1>6. MappedInv'
  <2>1. \A f \in Fid : Reached(f) => Reached(f)' /\ f # maxFid + 1
    BY <1>1 DEF Reached
  <2> QED  BY <1>1, <2>1 DEF MappedInv, SamePlaces
<1> QED  BY <1>3, <1>4, <1>5, <1>6 DEF BasicKept
(* Cutting a file, or making it longer, leaves nothing beyond its end. *)
LEMMA TruncateMapped ==
  ASSUME TypeOK, MappedInv, NEW f \in Fid, NEW to \in Place \cup {0}, Truncate(f, to)
  PROVE  \A g \in Fid, n \in Place : at'[g][n] # Empty => at[g][n] # Empty /\ n <= length'[g]
<1> SUFFICES ASSUME NEW g \in Fid, NEW n \in Place, at'[g][n] # Empty
             PROVE  at[g][n] # Empty /\ n <= length'[g]
  OBVIOUS
<1>1. CASE g = f
  <2>1. at'[f][n] = (IF n <= to THEN at[f][n] ELSE Empty) /\ length'[f] = to
    BY TruncateType
  <2> QED  BY <1>1, <2>1
<1>2. CASE g # f
  <2>1. at'[g] = at[g] /\ length'[g] = length[g]
    BY <1>2, TruncateType
  <2> QED  BY <2>1 DEF MappedInv
<1> QED  BY <1>1, <1>2

(* A place is taken. *)
LEMMA TakeBasic ==
  ASSUME BasicInv, TypeOK', NEW w \in Writers, TakePlace(w)
  PROVE  BasicKept
<1> USE Numbers, ValueLogAssumption DEF BasicInv
<1>0. PICK f \in Fid, p \in Place : f = wfile[w] /\ p = pos[f] + 1
  BY DEF TakePlace, TypeOK
<1>1. /\ wpc[w] = "write" /\ pos' = [pos EXCEPT ![f] = p] /\ wend' = [wend EXCEPT ![w] = p]
      /\ wpc' = [wpc EXCEPT ![w] = "length"]
      /\ UNCHANGED <<files, length, at, maxFid, wfile, wblock, copying, written, ptr, up>>
  BY <1>0 DEF TakePlace, Goto
<1>2. /\ wpc'[w] = "length" /\ StepOf(w) /\ wend'[w] = p
      /\ \A g \in Fid : pos'[g] = IF g = f THEN p ELSE pos[g]
  BY <1>1 DEF TypeOK, StepOf
<1>3. /\ \A b \in Block, g \in Fid, n \in Place :
           /\ Claim(b, g, n)' <=> Claim(b, g, n) \/ (b = wblock[w] /\ g = f /\ n = pos[g] + 1)
           /\ Placed(b, g, n)' <=> Placed(b, g, n)
      /\ \A g \in Fid : Holding(g)' = IF g = f THEN Holding(g) \cup {w} ELSE Holding(g)
      /\ w \notin Holding(f)
  BY <1>0, TakeChanges
<1>4. f \in Nat /\ maxFid \in Nat /\ up /\ f <= maxFid /\ pos[f] \in Nat
  BY <1>0, <1>1 DEF TypeOK, ControlInv
<1>5. \A x \in Writers : (wpc'[x] # "idle" => wpc[x] # "idle")
                         /\ (wpc'[x] = "create" => wpc[x] = "create")
  BY <1>1, <1>2 DEF StepOf
<1>6. ControlInv'
  <2>1. \A g \in Fid : g > maxFid' => pos'[g] = 0
    <3>1. \A g \in Fid : g > maxFid' => g # f /\ g > maxFid
      BY <1>1, <1>4
    <3> QED  BY <1>2, <3>1 DEF ControlInv
  <2>2. \A x \in Writers : Takes(x)' => wend'[x] \in Place
    BY <1>1, <1>2 DEF ControlInv, StepOf, Takes, Holds
  <2> QED  BY <1>1, <1>4, <1>5, <2>1, <2>2 DEF ControlInv, IsTop
<1>7. CountInv'
  <2>1. Cardinality(Holding(f)) <= pos[f] /\ Cardinality(Holding(f)) \in Nat
    BY HoldingFinite DEF CountInv
  <2>2. Cardinality(Holding(f) \cup {w}) = Cardinality(Holding(f)) + 1
    BY <1>3, HoldingFinite, FS_AddElement
  <2>3. Cardinality(Holding(f)') <= pos'[f]
    <3>1. Cardinality(Holding(f)') = Cardinality(Holding(f)) + 1
      BY <1>3, <2>2
    <3>2. pos'[f] = pos[f] + 1
      BY <1>0, <1>2
    <3> QED  BY <1>4, <2>1, <3>1, <3>2
  <2>4. \A g \in Fid : g # f => Holding(g)' = Holding(g) /\ pos'[g] = pos[g]
    BY <1>2, <1>3
  <2> QED  BY <2>3, <2>4 DEF CountInv
<1>8. BlockInv'
  <2>1. \A c \in copying' : Placed(c[3], c[1], c[2])'
    BY <1>1, <1>3, CopiesPlaced
  <2> QED  BY <1>1, <1>5, <2>1 DEF BlockInv
<1>9. MappedInv'
  <2>1. Reached(f) /\ \A g : Reached(g)' <=> Reached(g)
    BY <1>1, <1>4 DEF Reached, ControlInv, IsTop
  <2> QED  BY <1>1, <1>3, <2>1 DEF MappedInv
<1> QED  BY <1>6, <1>7, <1>8, <1>9 DEF BasicKept

(* A copy is started. *)
LEMMA StartBasic ==
  ASSUME BasicInv, TypeOK', NEW w \in Writers, StartCopy(w), Holds(w),
         UNCHANGED <<files, pos, maxFid, wfile, wend, wblock, written, ptr, up>>,
         \A g \in Fid, n \in Place : at'[g][n] # Empty => n <= length'[g] /\ Reached(g)
  PROVE  BasicKept
<1> USE Numbers, ValueLogAssumption DEF BasicInv
<1>0. PICK f \in Fid, p \in Place, a \in Block : f = wfile[w] /\ p = wend[w] /\ a = wblock[w]
  <2>1. wpc[w] # "idle"
    BY DEF Holds
  <2> QED  BY <2>1, OneWriter DEF ControlInv, Takes
<1>1. wpc[w] # "idle" /\ wpc'[w] = "store" /\ StepOf(w) /\ copying' = copying \cup {<<f, p, a>>}
  BY <1>0 DEF StartCopy, Goto, TypeOK, StepOf, Holds
<1>2. /\ \A b \in Block, g \in Fid, n \in Place :
           /\ Claim(b, g, n)' <=> Claim(b, g, n)
           /\ Placed(b, g, n)' <=> Placed(b, g, n) \/ (b = a /\ g = f /\ n = p)
      /\ \A g \in Fid : Holding(g)' = Holding(g) \ {w}
      /\ w \in Holding(f)
  BY <1>0, StartChanges
<1>3. \A x \in Writers : (wpc'[x] # "idle" => wpc[x] # "idle")
                         /\ (wpc'[x] = "create" => wpc[x] = "create")
  BY <1>1 DEF StepOf
<1>4. ControlInv'
  <2>1. \A x \in Writers : Takes(x)' => wend'[x] \in Place
    BY <1>1 DEF ControlInv, StepOf, Takes, Holds
  <2>2. up
    BY <1>1 DEF ControlInv
  <2> QED  BY <1>3, <2>1, <2>2 DEF ControlInv, IsTop
<1>5. CountInv'
  <2> SUFFICES ASSUME NEW g \in Fid PROVE Cardinality(Holding(g)') <= pos'[g]
    BY DEF CountInv
  <2>1. Holding(g)' \subseteq Holding(g)
    BY <1>2
  <2>2. Cardinality(Holding(g)') <= Cardinality(Holding(g)) /\ Cardinality(Holding(g)') \in Nat
    BY <2>1, HoldingFinite, FS_Subset, FS_CardinalityType
  <2>3. Cardinality(Holding(g)) <= pos[g] /\ Cardinality(Holding(g)) \in Nat /\ pos[g] \in Nat
    BY HoldingFinite DEF CountInv, TypeOK
  <2> QED  BY <2>2, <2>3
<1>6. BlockInv'
  <2>1. \A c \in copying' : Placed(c[3], c[1], c[2])'
    <3> SUFFICES ASSUME NEW c \in copying' PROVE Placed(c[3], c[1], c[2])'
      OBVIOUS
    <3>1. CASE c \in copying
      <4>1. c \in Fid \X Place \X Block
        BY <3>1 DEF TypeOK
      <4>2. c[1] \in Fid /\ c[2] \in Place /\ c[3] \in Block
        BY <4>1
      <4> QED  BY <1>2, <3>1, <4>2 DEF BlockInv
    <3>2. CASE c = <<f, p, a>>
      BY <1>2, <3>2
    <3> QED  BY <1>1, <3>1, <3>2
  <2> QED  BY <1>3, <2>1 DEF BlockInv
<1>7. MappedInv'
  BY <1>2 DEF MappedInv, Reached
<1> QED  BY <1>4, <1>5, <1>6, <1>7 DEF BasicKept

(* At once, or in a file made longer first. *)
LEMMA StartStepsBasic ==
  ASSUME BasicInv, TypeOK', NEW w \in Writers,
         Grow(w) \/ (CheckLength(w) /\ ~(wend[w] >= length[wfile[w]]))
  PROVE  BasicKept
<1> USE DEF BasicInv
<1>1. CASE Grow(w)
  <2>1. /\ wpc[w] = "truncate" /\ Truncate(wfile[w], wend[w]) /\ StartCopy(w)
        /\ UNCHANGED <<files, pos, maxFid, wfile, wend, wblock, written, ptr, up>>
    BY <1>1 DEF Grow
  <2>2. wfile[w] \in Fid /\ wend[w] \in Place
    BY <2>1 DEF TypeOK, ControlInv, Takes, Holds
  <2>3. \A g \in Fid, n \in Place : at'[g][n] # Empty => n <= length'[g] /\ Reached(g)
    BY <2>1, <2>2, TruncateMapped DEF MappedInv
  <2> QED  BY <2>1, <2>3, StartBasic DEF Holds
<1>2. CASE CheckLength(w) /\ ~(wend[w] >= length[wfile[w]])
  <2>1. /\ wpc[w] = "length" /\ StartCopy(w)
        /\ UNCHANGED <<files, length, at, pos, maxFid, wfile, wend, wblock, written, ptr, up>>
    BY <1>2 DEF CheckLength
  <2> QED  BY <2>1, StartBasic DEF Holds, MappedInv
<1> QED  BY <1>1, <1>2

(* A place is given back. *)
LEMMA BackBasic ==
  ASSUME BasicInv, TypeOK', NEW w \in Writers, RollBack(w)
  PROVE  BasicKept
<1> USE Numbers, ValueLogAssumption DEF BasicInv
<1>0. PICK f \in Fid : f = wfile[w]
  BY DEF TypeOK
<1>1. /\ wpc[w] = "rollback" /\ wpc'[w] = "idle" /\ StepOf(w)
      /\ \A g \in Fid : pos'[g] = IF g = f THEN pos[g] - 1 ELSE pos[g]
      /\ UNCHANGED <<files, length, at, maxFid, copying, written, ptr, up>>
  BY <1>0, StepFacts DEF RollBack, TypeOK
<1>2. /\ \A b \in Block, g \in Fid, n \in Place :
           /\ Claim(b, g, n)' => Claim(b, g, n)
           /\ Placed(b, g, n)' <=> Placed(b, g, n)
      /\ \A g \in Fid : Holding(g)' = Holding(g) \ {w}
      /\ w \in Holding(f) /\ \A g \in Fid : g # f => w \notin Holding(g)
  BY <1>0, BackChanges
<1>3. \A x \in Writers : wpc'[x] # "idle" => wpc[x] = wpc'[x] /\ wfile'[x] = wfile[x]
                                             /\ wblock'[x] = wblock[x]
  BY <1>1 DEF StepOf
<1>4. f <= maxFid /\ f \in Nat /\ maxFid \in Nat /\ up
  BY <1>0, <1>1 DEF ControlInv, TypeOK
<1>5. ControlInv'
  <2>1. \A x \in Writers : Takes(x)' => wend'[x] \in Place
    BY <1>1 DEF ControlInv, StepOf, Takes, Holds
  <2>2. \A g \in Fid : g > maxFid => g # f
    BY <1>4
  <2>3. \A g \in Fid : g > maxFid' => pos'[g] = 0
    BY <1>1, <2>2 DEF ControlInv
  <2>4. \A x \in Writers : wpc'[x] # "idle" => wfile'[x] <= maxFid'
    BY <1>1, <1>3 DEF ControlInv
  <2>5. /\ \A x \in Writers : wpc'[x] = "create" => maxFid' < MaxFid
        /\ \A x, y \in Writers : wpc'[x] = "create" /\ wpc'[y] = "create" => x = y
    BY <1>1, <1>3 DEF ControlInv
  <2> QED  BY <1>1, <1>4, <2>1, <2>3, <2>4, <2>5 DEF ControlInv, IsTop
<1>6. CountInv'
  <2>1. Cardinality(Holding(f)) <= pos[f] /\ Cardinality(Holding(f)) \in Nat /\ pos[f] \in Nat
    BY HoldingFinite DEF CountInv, TypeOK
  <2>2. Cardinality(Holding(f) \ {w}) = Cardinality(Holding(f)) - 1
    BY ZenonT(40), <1>2, HoldingFinite, FS_RemoveElement
  <2>3. Cardinality(Holding(f)') <= pos'[f]
    <3>1. Cardinality(Holding(f)') = Cardinality(Holding(f)) - 1
      BY <1>2, <2>2
    <3>2. pos'[f] = pos[f] - 1
      BY <1>1
    <3> QED  BY <2>1, <3>1, <3>2
  <2>4. ASSUME NEW g \in Fid, g # f PROVE Holding(g)' = Holding(g) /\ pos'[g] = pos[g]
    <3>1. Holding(g)' = Holding(g) \ {w} /\ w \notin Holding(g)
      BY <1>2, <2>4
    <3>2. Holding(g) \ {w} = Holding(g)
      BY <3>1
    <3> QED  BY <1>1, <2>4, <3>1, <3>2
  <2> QED  BY <2>3, <2>4 DEF CountInv
<1>7. BlockInv'
  <2>1. \A c \in copying' : Placed(c[3], c[1], c[2])'
    BY <1>1, <1>2, CopiesPlaced
  <2> QED  BY <1>1, <1>3, <2>1 DEF BlockInv
<1>8. MappedInv'
  BY <1>1, <1>2 DEF MappedInv, Reached
<1> QED  BY <1>5, <1>6, <1>7, <1>8 DEF BasicKept
(* The goroutines behind. *)
LEMMA BehindBasic ==
  ASSUME BasicInv, TypeOK',
         \/ \E f \in Fid, n \in Place, b \in Block : Copy(f, n, b)
         \/ \E g \in Block : FlushSync(g) \/ FlushTruncate(g) \/ FlushFails(g)
  PROVE  BasicKept
<1> USE Numbers, ValueLogAssumption DEF BasicInv
<1>1. /\ up /\ copying' \subseteq copying
      /\ UNCHANGED <<files, pos, maxFid, wpc, wfile, wend, wblock, up, written, ptr>>
  <2>1. ASSUME NEW f \in Fid, NEW n \in Place, NEW b \in Block, Copy(f, n, b)
        PROVE  /\ up /\ copying' \subseteq copying
               /\ UNCHANGED <<files, pos, maxFid, wpc, wfile, wend, wblock, up, written, ptr>>
    BY <2>1 DEF Copy, ControlInv
  <2>2. ASSUME NEW g \in Block, FlushSync(g) \/ FlushTruncate(g)
        PROVE  /\ up /\ copying' \subseteq copying
               /\ UNCHANGED <<files, pos, maxFid, wpc, wfile, wend, wblock, up, written, ptr>>
    <3>1. /\ flushing[g].pc \in {"sync", "truncate"} /\ copying' = copying
          /\ UNCHANGED <<files, pos, maxFid, wpc, wfile, wend, wblock, up, written, ptr>>
      BY <2>2, Zenon DEF FlushSync, FlushTruncate
    <3> QED  BY <3>1 DEF ControlInv
  <2>3. ASSUME NEW g \in Block, FlushFails(g)
        PROVE  /\ up /\ copying' \subseteq copying
               /\ UNCHANGED <<files, pos, maxFid, wpc, wfile, wend, wblock, up, written, ptr>>
    BY <2>3 DEF FlushFails, SetSize, ControlInv
  <2> QED  BY <2>1, <2>2, <2>3
<1>2. SamePlaces
  BY <1>1, SameWriters
<1>3. ControlInv'
  <2>1. \A x \in Writers : Takes(x)' <=> Takes(x)
    BY <1>1 DEF Takes, Holds
  <2> QED  BY <1>1, <2>1 DEF ControlInv, IsTop
<1>4. BlockInv'
  <2>1. \A c \in copying' : Placed(c[3], c[1], c[2])'
    BY <1>1, <1>2, CopiesPlaced DEF SamePlaces
  <2> QED  BY <1>1, <2>1 DEF BlockInv
<1>5. \A g \in Fid, n \in Place : at'[g][n] # Empty => n <= length'[g] /\ Reached(g)
  <2>1. ASSUME NEW f \in Fid, NEW k \in Place, NEW b \in Block, Copy(f, k, b)
        PROVE  \A g \in Fid, n \in Place : at'[g][n] # Empty => n <= length'[g] /\ Reached(g)
    <3>1. <<f, k, b>> \in copying /\ length' = length
          /\ at' = [at EXCEPT ![f][k] = IF k <= length[f] THEN b ELSE at[f][k]]
      BY <2>1 DEF Copy
    <3>2. Claim(b, f, k)
      BY <3>1, PlacedClaim DEF BlockInv
    <3>3. Reached(f)
      BY <3>2 DEF MappedInv
    <3>4. \A g \in Fid, n \in Place : at'[g][n] =
            IF g = f /\ n = k /\ k <= length[f] THEN b ELSE at[g][n]
      BY <3>1 DEF TypeOK
    <3> QED  BY <3>1, <3>3, <3>4 DEF MappedInv
  <2>2. ASSUME NEW h \in Block, FlushSync(h) \/ FlushFails(h)
        PROVE  \A g \in Fid, n \in Place : at'[g][n] # Empty => n <= length'[g] /\ Reached(g)
    <3>1. UNCHANGED <<length, at>>
      BY <2>2, Zenon DEF FlushSync, FlushFails, SetSize
    <3> QED  BY <3>1 DEF MappedInv
  <2>3. ASSUME NEW h \in Block, FlushTruncate(h)
        PROVE  \A g \in Fid, n \in Place : at'[g][n] # Empty => n <= length'[g] /\ Reached(g)
    <3>1. flushing[h].file \in Fid /\ flushing[h].to \in Place \cup {0}
      BY DEF TypeOK
    <3>2. Truncate(flushing[h].file, flushing[h].to)
      BY <2>3 DEF FlushTruncate
    <3> QED  BY <3>1, <3>2, TruncateMapped DEF MappedInv
  <2> QED  BY <2>1, <2>2, <2>3
<1>6. MappedInv'
  BY <1>1, <1>2, <1>5 DEF MappedInv, Reached, SamePlaces
<1>7. CountInv'
  BY <1>1, <1>2 DEF CountInv, SamePlaces
<1> QED  BY <1>3, <1>4, <1>6, <1>7 DEF BasicKept

(* The end of the process. *)
LEMMA StopBasic ==
  ASSUME BasicInv, TypeOK', Stop,
         \A f \in Fid, n \in Place : at'[f][n] # Empty => n <= length'[f] /\ Reached(f)
  PROVE  BasicKept
<1> USE DEF BasicInv
<1>1. /\ up' = FALSE /\ maxFid' = 0 /\ copying' = {}
      /\ (\A f \in Fid : pos'[f] = 0) /\ (\A w \in Writers : wpc'[w] = "idle")
      /\ \A b \in Block : flushing'[b].pc = "off"
      /\ UNCHANGED <<files, written, ptr>>
  BY DEF Stop, NoFlush
<1>2. ControlInv' /\ CountInv'
  <2>1. \A f \in Fid : Cardinality(Holding(f)') = 0
    BY StopChanges, FS_EmptySet
  <2>2. CountInv'
    BY <1>1, <2>1 DEF CountInv
  <2>3. \A w \in Writers : ~Takes(w)'
    BY <1>1 DEF Takes, Holds
  <2> QED  BY <1>1, <2>2, <2>3 DEF ControlInv
<1>3. BlockInv'
  BY <1>1 DEF BlockInv
<1>4. \A b \in Block, f \in Fid, n \in Place : Claim(b, f, n)' => Claim(b, f, n)
  BY StopChanges DEF Claim
<1>5. MappedInv'
  BY <1>1, <1>4 DEF MappedInv, Reached
<1> QED  BY <1>2, <1>3, <1>5 DEF BasicKept

(* A crash, a panic and Close. *)
LEMMA EndBasic ==
  ASSUME BasicInv, TypeOK', Crash \/ Panic \/ Close
  PROVE  BasicKept
<1> USE Numbers, ValueLogAssumption DEF BasicInv
<1>1. \A f \in Fid, n \in Place : at'[f][n] # Empty => n <= length'[f] /\ Reached(f)
  <2>1. CASE Crash
    <3>1. PICK torn \in SUBSET {c \in copying : c[2] <= length[c[1]]} :
            at' = [f \in Fid |-> [n \in Place |->
                     IF \E c \in torn : c[1] = f /\ c[2] = n THEN Torn ELSE at[f][n]]]
      BY <2>1 DEF Crash
    <3>2. ASSUME NEW f \in Fid, NEW n \in Place, at'[f][n] # Empty
          PROVE  n <= length'[f] /\ Reached(f)
      <4>1. CASE \E c \in torn : c[1] = f /\ c[2] = n
        <5>1. PICK c \in torn : c[1] = f /\ c[2] = n
          BY <4>1
        <5>2. c \in Fid \X Place \X Block /\ c[2] <= length[c[1]] /\ Claim(c[3], c[1], c[2])
          BY PlacedClaim DEF TypeOK, BlockInv
        <5>3. c[3] \in Block
          BY <5>2
        <5>4. Reached(f)
          BY <5>1, <5>2, <5>3 DEF MappedInv
        <5> QED  BY <2>1, <5>1, <5>2, <5>4 DEF Crash
      <4>2. CASE ~ \E c \in torn : c[1] = f /\ c[2] = n
        <5>1. at'[f][n] = at[f][n]
          BY <3>1, <4>2
        <5> QED  BY <2>1, <3>2, <5>1 DEF Crash, MappedInv
      <4> QED  BY <4>1, <4>2
    <3> QED  BY <3>2
  <2>2. CASE Panic
    BY <2>2 DEF Panic, MappedInv
  <2>3. CASE Close
    <3>1. maxFid \in Fid /\ writeOffset \in Nat
      BY <2>3 DEF Close, TypeOK, ControlInv, IsTop
    <3>2. \A f \in Fid, n \in Place : at'[f][n] =
            IF f = maxFid /\ ~(n <= writeOffset) THEN Empty ELSE at[f][n]
      BY <2>3, <3>1 DEF Close, TypeOK
    <3>3. \A f \in Fid : length'[f] = IF f = maxFid THEN writeOffset ELSE length[f]
      BY <2>3, <3>1 DEF Close, TypeOK
    <3> QED  BY <3>2, <3>3 DEF MappedInv
  <2> QED  BY <2>1, <2>2, <2>3
<1> QED  BY <1>1, StopBasic DEF Crash, Panic, Close

(* What NewVFileManager finds. *)
LEMMA OpenFacts ==
  ASSUME TypeOK, ControlInv, Open
  PROVE  /\ IsTop(maxFid') /\ maxFid' \in Fid /\ IsTop(maxFid)'
         /\ files' \subseteq files /\ \A f \in Fid : Reached(f)' <=> Reached(f)
         /\ up' /\ ~up /\ UNCHANGED <<at, writerVars, copying, written, ptr, cut, lossy>>
         /\ \A f \in Fid : f # maxFid' => pos'[f] = 0 /\ length'[f] = length[f]
         /\ pos'[maxFid'] = Restored(maxFid')
         /\ length'[maxFid'] = IF length[maxFid'] = 0 THEN 2 * MaxSize ELSE length[maxFid']
         /\ \A f \in files : size'[f] = length[f]
<1>1. IsTop(maxFid') /\ maxFid' \in Fid
  BY TopExists DEF Open, ControlInv
<1>2. files' = {f \in files : length[f] > 0 \/ f = maxFid'}
  BY DEF Open
<1>3. maxFid' \in files' /\ files' \subseteq files
  BY <1>1, <1>2 DEF IsTop
<1>4. IsTop(maxFid)'
  BY <1>1, <1>3 DEF IsTop
<1>5. \A f \in Fid : Reached(f)' <=> Reached(f)
  <2> SUFFICES ASSUME NEW f \in Fid PROVE Reached(f)' <=> Reached(f)
    OBVIOUS
  <2>1. Reached(f)' => Reached(f)
    BY <1>3 DEF Reached
  <2>2. f \in Nat /\ files \subseteq Nat
    BY Numbers DEF TypeOK
  <2>3. ASSUME NEW g \in files, f <= g PROVE f <= maxFid'
    <3>1. g <= maxFid' /\ g \in Nat /\ maxFid' \in Nat
      BY <1>1, <2>2, Numbers DEF IsTop
    <3> QED  BY <2>2, <2>3, <3>1
  <2> QED  BY <1>3, <2>1, <2>3 DEF Reached
<1>6. \A f \in Fid : f # maxFid' => pos'[f] = 0 /\ length'[f] = length[f]
  BY <1>1 DEF Open, ControlInv, TypeOK
<1>7. /\ pos'[maxFid'] = Restored(maxFid')
      /\ length'[maxFid'] = IF length[maxFid'] = 0 THEN 2 * MaxSize ELSE length[maxFid']
  BY <1>1 DEF Open, TypeOK
<1>8. \A f \in files : size'[f] = length[f]
  BY DEF Open, TypeOK
<1> QED  BY <1>1, <1>3, <1>4, <1>5, <1>6, <1>7, <1>8 DEF Open

(* The next process. *)
LEMMA OpenBasic ==
  ASSUME BasicInv, TypeOK', Open
  PROVE  BasicKept
<1> USE Numbers, ValueLogAssumption DEF BasicInv
<1>1. /\ IsTop(maxFid') /\ maxFid' \in Fid /\ IsTop(maxFid)'
      /\ files' \subseteq files /\ (\A f \in Fid : Reached(f)' <=> Reached(f))
      /\ up' /\ ~up /\ UNCHANGED <<at, writerVars, copying, written, ptr>>
      /\ \A f \in Fid : f # maxFid' => pos'[f] = 0 /\ length'[f] = length[f]
      /\ length'[maxFid'] = IF length[maxFid'] = 0 THEN 2 * MaxSize ELSE length[maxFid']
  BY OpenFacts
<1>2. SamePlaces
  BY <1>1, SameWriters
<1>3. ControlInv'
  <2>1. files' # {}
    BY <1>1 DEF IsTop
  <2>2. \A w \in Writers : wpc'[w] = "idle"
    BY <1>1 DEF ControlInv
  <2>3. \A f \in Fid : f > maxFid' => pos'[f] = 0
    BY <1>1
  <2>4. \A w \in Writers : ~Takes(w)'
    BY <2>2 DEF Takes, Holds
  <2> QED  BY <1>1, <2>1, <2>2, <2>3, <2>4 DEF ControlInv
<1>6. CountInv'
  <2>1. \A f \in Fid : Holding(f)' = {}
    BY <1>1 DEF ControlInv, Holding
  <2>2. \A f \in Fid : Cardinality(Holding(f)') = 0 /\ pos'[f] \in Nat
    BY <2>1, FS_EmptySet DEF TypeOK
  <2> QED  BY <2>2 DEF CountInv
<1>4. BlockInv'
  BY <1>1 DEF BlockInv, ControlInv
<1>5. MappedInv'
  <2>1. \A f \in Fid : length'[f] >= length[f] /\ length[f] \in Nat
    BY <1>1 DEF TypeOK
  <2>2. ASSUME NEW f \in Fid, NEW n \in Place, at'[f][n] # Empty
        PROVE  n <= length'[f] /\ Reached(f)'
    <3>1. at[f][n] # Empty
      BY <1>1, <2>2
    <3>2. n <= length[f] /\ Reached(f)
      BY <3>1 DEF MappedInv
    <3>3. n \in Nat /\ length[f] \in Nat /\ length'[f] \in Nat /\ length'[f] >= length[f]
      BY <2>1 DEF TypeOK
    <3> QED  BY <1>1, <3>2, <3>3
  <2>3. ASSUME NEW b \in Block, NEW f \in Fid, NEW n \in Place, Claim(b, f, n)'
        PROVE  Reached(f)'
    <3>1. Claim(b, f, n)
      BY <1>2, <2>3 DEF SamePlaces
    <3> QED  BY <1>1, <3>1 DEF MappedInv
  <2> QED  BY <2>2, <2>3 DEF MappedInv
<1> QED  BY <1>3, <1>4, <1>5, <1>6 DEF BasicKept
(***************************************************************************)
(* What holds as long as nothing was lost.                                 *)
(***************************************************************************)
SafeInv == PlaceInv /\ DownInv /\ SizeInv

(* The copies of a file are finitely many. *)
LEMMA CopiesFinite ==
  ASSUME TypeOK, NEW f
  PROVE  /\ IsFiniteSet(copying) /\ IsFiniteSet(Copies(f)) /\ Cardinality(Copies(f)) \in Nat
         /\ Due(f) \in Nat
<1>1. IsFiniteSet(Fid) /\ IsFiniteSet(Place) /\ IsFiniteSet(Block)
  BY FS_Interval, ValueLogAssumption DEF Fid, Place, Block
<1>2. IsFiniteSet((Fid \X Place) \X Block)
  BY <1>1, FS_Product
<1> DEFINE T == (Fid \X Place) \X Block
           S == Fid \X Place \X Block
           h == [c \in S |-> <<<<c[1], c[2]>>, c[3]>>]
<1>3. h \in Injection(S, T)
  <2>1. h \in [S -> T]
    OBVIOUS
  <2>2. ASSUME NEW c \in S, NEW d \in S, h[c] = h[d] PROVE c = d
    <3>1. c = <<c[1], c[2], c[3]>> /\ d = <<d[1], d[2], d[3]>>
      OBVIOUS
    <3>2. c[1] = d[1] /\ c[2] = d[2] /\ c[3] = d[3]
      BY <2>2
    <3> QED  BY <3>1, <3>2
  <2> QED  BY <2>1, <2>2 DEF Injection, IsInjective
<1>4. IsFiniteSet(S)
  <2> HIDE DEF S, T, h
  <2> QED  BY <1>2, <1>3, FS_Injection DEF T
<1>5. IsFiniteSet(copying)
  BY <1>4, FS_Subset DEF TypeOK
<1>6. IsFiniteSet(Copies(f)) /\ Cardinality(Copies(f)) \in Nat
  BY <1>5, FS_Subset, FS_CardinalityType DEF Copies
<1>7. Due(f) \in Nat
  BY <1>6, HoldingFinite DEF Due
<1> QED  BY <1>5, <1>6, <1>7

(* Places beyond the end of a file are no more than the writers that hold them. *)
LEMMA HeldCount ==
  ASSUME NEW S, S \subseteq Writers, NEW p \in Nat, NEW q \in Place \cup {0},
         \A n \in Place : p < n /\ n <= q => \E x \in S : wend[x] = n
  PROVE  q <= p + Cardinality(S)
<1>1. IsFiniteSet(S) /\ Cardinality(S) \in Nat /\ q \in Nat
  BY FS_Subset, FS_CardinalityType, ValueLogAssumption, Numbers
<1>2. CASE q <= p
  BY <1>1, <1>2
<1>3. CASE ~(q <= p)
  <2> DEFINE I == (p + 1)..q
             h == [n \in I |-> CHOOSE x \in S : wend[x] = n]
  <2>1. \A n \in I : n \in Place /\ p < n /\ n <= q
    BY <1>1, ValueLogAssumption DEF Place
  <2>2. \A n \in I : h[n] \in S /\ wend[h[n]] = n
    BY <2>1
  <2>3. h \in Injection(I, S)
    <3>1. h \in [I -> S]
      BY <2>2
    <3>2. \A m, n \in I : h[m] = h[n] => m = n
      BY <2>2
    <3> QED  BY <3>1, <3>2 DEF Injection, IsInjective
  <2>4. IsFiniteSet(I) /\ Cardinality(I) = q - p
    <3>1. p + 1 \in Int /\ q \in Int
      BY <1>1
    <3>2. /\ IsFiniteSet((p + 1)..q)
          /\ Cardinality((p + 1)..q) = IF p + 1 > q THEN 0 ELSE q - (p + 1) + 1
      BY <3>1, FS_Interval
    <3> HIDE DEF h
    <3> QED  BY <1>1, <1>3, <3>2
  <2>5. Cardinality(I) <= Cardinality(S)
    <3> HIDE DEF I, h
    <3> QED  BY <1>1, <2>3, FS_Injection
  <2> QED  BY <1>1, <2>4, <2>5
<1> QED  BY <1>2, <1>3

(* The places of the writers that hold one stay theirs. *)
HeldSame == \A x \in Writers : Holds(x)' =>
    Holds(x) /\ wfile'[x] = wfile[x] /\ wend'[x] = wend[x]

(* A place being held is the holder's, and no copy to it was started. *)
LEMMA HolderFacts ==
  ASSUME BasicInv, PlaceInv, NEW w \in Writers, Holds(w)
  PROVE  /\ wfile[w] \in Fid /\ wend[w] \in Place /\ wblock[w] \in Block
         /\ Claim(wblock[w], wfile[w], wend[w]) /\ InUse(wfile[w]) /\ up
         /\ wend[w] <= pos[wfile[w]]
         /\ \A b \in Block : ~Placed(b, wfile[w], wend[w])
<1> USE DEF BasicInv
<1>1. wpc[w] # "idle" /\ Takes(w) /\ wpc[w] # "store"
  BY DEF Holds, Takes
<1>2. /\ wblock[w] \in Block /\ wfile[w] \in Fid /\ wend[w] \in Place
      /\ (\A f \in Fid : \A n : ptr[wblock[w]] # <<f, n>>)
      /\ \A x \in Writers : wpc[x] # "idle" /\ wblock[x] = wblock[w] => x = w
  BY <1>1, OneWriter DEF ControlInv
<1>3. Claim(wblock[w], wfile[w], wend[w])
  BY <1>1 DEF Claim
<1>4. up /\ InUse(wfile[w])
  BY <1>1 DEF ControlInv, InUse
<1>5. ASSUME NEW b \in Block, Placed(b, wfile[w], wend[w]) PROVE FALSE
  <2>1. Claim(b, wfile[w], wend[w])
    BY <1>5, PlacedClaim
  <2>2. b = wblock[w]
    BY <1>2, <1>3, <2>1 DEF PlaceInv
  <2> QED  BY <1>1, <1>2, <1>5, <2>2 DEF Placed
<1> QED  BY <1>2, <1>3, <1>4, <1>5 DEF PlaceInv

(* What making a file longer or shorter, or failing to, does to it. *)
Resized(f) ==
    /\ \A g \in Fid : g # f => length'[g] = length[g] /\ size'[g] = size[g] /\ at'[g] = at[g]
    /\ \A n \in Place : at'[f][n] \in {at[f][n], Empty}
    /\ cut \subseteq cut'
    /\ f \notin cut' =>
         /\ length[f] <= length'[f]
         /\ size'[f] = size[f] \/ size'[f] >= length'[f]
         /\ \A n \in Place : n <= length[f] => at'[f][n] = at[f][n]

LEMMA ResizeFacts ==
  ASSUME TypeOK, NEW f \in Fid, NEW to \in Place \cup {0}, Cut(f, to),
         Truncate(f, to) \/ SetSize(f, to)
  PROVE  Resized(f)
<1> USE Numbers
<1>1. to \in Nat /\ length[f] \in Nat /\ size[f] \in Nat
  BY DEF TypeOK
<1>2. cut \subseteq cut' /\ (f \notin cut' => length[f] <= to)
  BY <1>1 DEF Cut
<1>3. CASE Truncate(f, to)
  <2>1. /\ length'[f] = to
        /\ \A n \in Place : at'[f][n] = IF n <= to THEN at[f][n] ELSE Empty
        /\ size'[f] = IF length[f] = to THEN size[f] ELSE to
        /\ \A g \in Fid : g # f => /\ length'[g] = length[g] /\ size'[g] = size[g]
                                   /\ at'[g] = at[g]
    BY <1>3, TruncateType
  <2>2. length[f] <= to => \A n \in Place : n <= length[f] => n <= to
    BY <1>1
  <2>3. size'[f] = size[f] \/ size'[f] >= length'[f]
    BY <1>1, <2>1
  <2> QED  BY <1>2, <2>1, <2>2, <2>3 DEF Resized
<1>4. CASE SetSize(f, to)
  <2>1. /\ length' = length /\ at' = at /\ size'[f] = to
        /\ \A g \in Fid : g # f => size'[g] = size[g]
    BY <1>4 DEF SetSize, TypeOK
  <2> QED  BY <1>1, <1>2, <2>1 DEF Resized
<1> QED  BY <1>3, <1>4

(* Steps that change neither the places nor the copies; f may get another length. *)
LEMMA ResizeSafe ==
  ASSUME BasicInv, SafeInv, TypeOK', up, up', NEW f \in Fid, Resized(f), SamePlaces, HeldSame,
         UNCHANGED <<files, pos, copying>>,
         \A g \in Fid : InUse(g)' => InUse(g)
  PROVE  SafeInv'
<1> USE Numbers, ValueLogAssumption DEF BasicInv, SafeInv
<1>1. \A g \in Fid, n \in Place : at'[g][n] \in {at[g][n], Empty}
  BY DEF Resized
<1>2. PlaceInv'
  <2>1. ASSUME NEW b \in Block, NEW g \in Fid, NEW n \in Place, Claim(b, g, n)'
        PROVE  /\ InUse(g)' => n <= pos'[g]
               /\ at'[g][n] \in {b, Empty}
               /\ \A c \in Block : Claim(c, g, n)' => c = b
    BY <1>1, <2>1 DEF PlaceInv, SamePlaces
  <2>2. ASSUME NEW g \in Fid, NEW n \in Place
        PROVE  /\ at'[g][n] # Torn
               /\ InUse(g)' /\ n > pos'[g] => at'[g][n] = Empty
    BY <1>1 DEF PlaceInv
  <2>3. ASSUME NEW x \in Writers, Holds(x)' PROVE at'[wfile'[x]][wend'[x]] = Empty
    <3>1. Holds(x) /\ wfile'[x] = wfile[x] /\ wend'[x] = wend[x]
      BY <2>3 DEF HeldSame
    <3>2. wfile[x] \in Fid /\ wend[x] \in Place /\ at[wfile[x]][wend[x]] = Empty
      BY <3>1 DEF PlaceInv, TypeOK, ControlInv, Takes
    <3>3. at'[wfile[x]][wend[x]] \in {at[wfile[x]][wend[x]], Empty}
      BY <1>1, <3>2
    <3>4. at'[wfile[x]][wend[x]] = Empty
      BY <3>2, <3>3
    <3> QED  BY <3>1, <3>4
  <2> QED  BY <2>1, <2>2, <2>3 DEF PlaceInv
<1>3. DownInv'
  BY DEF DownInv
<1>4. SizeInv'
  <2> SUFFICES ASSUME NEW g \in files', g \notin cut' PROVE FileInv(g)'
    BY DEF SizeInv
  <2>1. g \in Fid /\ g \notin cut /\ FileInv(g)
    BY DEF TypeOK, SizeInv, Resized
  <2>2. Holding(g)' = Holding(g) /\ \A x \in Holding(g) : wend'[x] = wend[x]
    <3>1. Holding(g)' = Holding(g)
      BY <2>1 DEF SamePlaces
    <3>2. \A x \in Holding(g)' : x \in Writers /\ Holds(x)'
      BY DEF Holding, Holds
    <3> QED  BY <3>1, <3>2 DEF HeldSame
  <2>3. Due(g)' = Due(g) /\ Due(g) \in Nat /\ Cardinality(Holding(g)) <= Due(g)
    <3>1. Due(g)' = Due(g)
      BY <2>2 DEF Due, Copies
    <3>2. /\ Due(g) \in Nat /\ Cardinality(Copies(g)) \in Nat /\ Cardinality(Holding(g)) \in Nat
          /\ Due(g) = Cardinality(Copies(g)) + Cardinality(Holding(g))
      BY CopiesFinite, HoldingFinite DEF Due
    <3> QED  BY <3>1, <3>2
  <2>4. PICK d \in Nat : d = Due(g)
    BY <2>3
  <2>5. /\ length[g] \in Nat /\ length'[g] \in Nat /\ size[g] \in Nat /\ size'[g] \in Nat
        /\ pos[g] \in Place \cup {0} /\ pos[g] \in Nat
    BY <2>1 DEF TypeOK
  <2>6. /\ length[g] <= length'[g]
        /\ size'[g] = size[g] \/ size'[g] >= length'[g]
        /\ \A n \in Place : n <= length[g] => at'[g][n] = at[g][n]
    BY <2>1, <2>5 DEF Resized
  <2>7. \A n \in Place : length[g] < n /\ n <= pos[g] => \E x \in Holding(g) : wend[x] = n
    BY <2>1 DEF FileInv
  <2>8. pos[g] <= length[g] + d
    <3>1. Holding(g) \subseteq Writers
      BY DEF Holding
    <3>2. pos[g] <= length[g] + Cardinality(Holding(g))
      BY <2>5, <2>7, <3>1, HeldCount
    <3>3. Cardinality(Holding(g)) \in Nat
      BY HoldingFinite
    <3> QED  BY <2>3, <2>4, <2>5, <3>2, <3>3
  <2>9. \A n \in Place : length'[g] < n /\ n <= pos'[g] => \E x \in Holding(g)' : wend'[x] = n
    <3>1. \A n \in Place : length'[g] < n => length[g] < n
      BY <2>5, <2>6
    <3> QED  BY <2>2, <2>7, <3>1
  <2>10. pos'[g] <= size'[g] + Due(g)'
    <3>1. pos[g] <= size[g] + d
      BY <2>1, <2>4 DEF FileInv
    <3> QED  BY <2>3, <2>4, <2>5, <2>6, <2>8, <3>1
  <2>11. ASSUME NEW b \in Block, NEW n \in Place, Placed(b, g, n)'
         PROVE  /\ n <= length'[g]
                /\ at'[g][n] = b \/ <<g, n, b>> \in copying'
                /\ up' => n <= size'[g] + Due(g)'
    <3>1. /\ n <= length[g] /\ n \in Nat
          /\ at[g][n] = b \/ <<g, n, b>> \in copying
          /\ n <= size[g] + d
      BY <2>1, <2>4, <2>11 DEF FileInv, SamePlaces
    <3>2. n <= length'[g] /\ n <= size'[g] + d
      BY <2>5, <2>6, <3>1
    <3> QED  BY <2>3, <2>4, <2>6, <3>1, <3>2
  <2> QED  BY <2>9, <2>10, <2>11 DEF FileInv
<1> QED  BY <1>2, <1>3, <1>4
(* A step of a writer brings no other file into use. *)
LEMMA StepInUse ==
  ASSUME NEW w \in Writers, StepOf(w), UNCHANGED <<up, maxFid>>,
         wpc'[w] # "idle" => wfile'[w] = maxFid \/ (wpc[w] # "idle" /\ wfile'[w] = wfile[w])
  PROVE  \A f : InUse(f)' => InUse(f)
  BY DEF StepOf, InUse

(* The writers between two changes of the places. *)
LEMMA WriterSafe ==
  ASSUME BasicInv, SafeInv, TypeOK', NEW w \in Writers,
         \/ WriteBlock(w) \/ StoreOffset(w)
         \/ ValidateWriteSize(w) \/ Flush(w) \/ CreateFails(w) \/ GrowFails(w)
         \/ CheckLength(w) /\ wend[w] >= length[wfile[w]]
  PROVE  SafeInv'
<1> USE DEF BasicInv
<1>1. ASSUME up, UNCHANGED <<files, length, at, pos, size, copying, up, cut>>,
             SamePlaces, HeldSame, \A g \in Fid : InUse(g)' => InUse(g)
      PROVE  SafeInv'
  <2>1. PICK f \in Fid : TRUE
    BY Numbers
  <2>2. Resized(f)
    <3>1. length[f] \in Nat
      BY Numbers DEF TypeOK
    <3> QED  BY <1>1, <3>1 DEF Resized
  <2> QED  BY <1>1, <2>2, ResizeSafe
<1>2. CASE WriteBlock(w)
  <2>1. /\ wpc[w] = "idle" /\ wpc'[w] = "check" /\ StepOf(w) /\ wfile'[w] = maxFid /\ up
        /\ UNCHANGED <<files, length, at, pos, size, copying, up, cut, maxFid, wend>>
    BY <1>2 DEF WriteBlock, Goto, TypeOK, StepOf
  <2>2. SamePlaces
    BY <1>2, WriteBlockBasic
  <2>3. HeldSame
    BY <2>1 DEF HeldSame, Holds, StepOf
  <2>4. \A g \in Fid : InUse(g)' => InUse(g)
    BY <2>1, StepInUse
  <2> QED  BY <1>1, <2>1, <2>2, <2>3, <2>4
<1>3. CASE StoreOffset(w)
  <2>1. /\ wpc[w] = "store" /\ wpc'[w] = "idle" /\ StepOf(w)
        /\ UNCHANGED <<files, length, at, pos, size, copying, up, cut, maxFid>>
    BY <1>3, StepFacts DEF StoreOffset
  <2>2. SamePlaces
    BY <1>3, StorePlaces
  <2>3. HeldSame
    BY <2>1 DEF HeldSame, Holds, StepOf
  <2>4. \A g \in Fid : InUse(g)' => InUse(g)
    BY <2>1, StepInUse
  <2>5. up
    BY <2>1 DEF ControlInv
  <2> QED  BY <1>1, <2>1, <2>2, <2>3, <2>4, <2>5
<1>4. CASE \/ ValidateWriteSize(w) \/ Flush(w) \/ CreateFails(w) \/ GrowFails(w)
           \/ CheckLength(w) /\ wend[w] >= length[wfile[w]]
  <2>1. /\ StepOf(w) /\ wpc[w] # "idle" /\ SamePlaces
        /\ UNCHANGED <<files, length, at, pos, maxFid, copying, up>>
        /\ wpc'[w] # "idle" => wfile'[w] \in {wfile[w], maxFid}
        /\ Takes(w)' => Takes(w) /\ wend'[w] = wend[w]
        /\ ~GrowFails(w) => UNCHANGED <<size, cut>>
    BY <1>4, QuietSteps
  <2>2. \A g \in Fid : InUse(g)' => InUse(g)
    BY <2>1, StepInUse
  <2>3. HeldSame
    <3>1. \A x \in Writers : x # w /\ Holds(x)' =>
             Holds(x) /\ wfile'[x] = wfile[x] /\ wend'[x] = wend[x]
      BY <2>1 DEF StepOf, Holds
    <3>2. CASE Flush(w) \/ ValidateWriteSize(w) \/ CreateFails(w)
      <4>1. ~Holds(w)'
        <5>1. \/ Goto(w, "flush") \/ Goto(w, "write") \/ Goto(w, "create") \/ Goto(w, "idle")
          BY <3>2 DEF Flush, ValidateWriteSize, CreateFails, Return
        <5>2. wpc'[w] \in {"flush", "write", "create", "idle"}
          BY <5>1, StepFacts
        <5> QED  BY <5>2 DEF Holds
      <4> QED  BY <3>1, <4>1 DEF HeldSame
    <3>3. CASE GrowFails(w) \/ (CheckLength(w) /\ wend[w] >= length[wfile[w]])
      <4>1. Holds(w) /\ wfile' = wfile /\ wend' = wend
        BY <3>3 DEF GrowFails, CheckLength, Holds
      <4> QED  BY <3>1, <4>1 DEF HeldSame
    <3> QED  BY <1>4, <3>2, <3>3
  <2>4. up
    BY <2>1 DEF ControlInv
  <2>5. CASE ~GrowFails(w)
    BY <1>1, <2>1, <2>2, <2>3, <2>4, <2>5
  <2>6. CASE GrowFails(w)
    <3>1. /\ wfile[w] \in Fid /\ wend[w] \in Place /\ SetSize(wfile[w], wend[w])
          /\ Cut(wfile[w], wend[w])
      BY <2>6 DEF GrowFails, SetSize, TypeOK, ControlInv, Takes, Holds
    <3>2. Resized(wfile[w])
      BY <3>1, ResizeFacts
    <3> QED  BY <2>1, <2>2, <2>3, <2>4, <3>1, <3>2, ResizeSafe
  <2> QED  BY <2>5, <2>6
<1> QED  BY <1>2, <1>3, <1>4

(* A flush ends: the file it was started for is cut, made longer or left, or not synced. *)
LEMMA FlushSafe ==
  ASSUME BasicInv, SafeInv, TypeOK', NEW b \in Block,
         FlushSync(b) \/ FlushTruncate(b) \/ FlushFails(b)
  PROVE  SafeInv'
<1> USE DEF BasicInv
<1>0. PICK f \in Fid, to \in Place \cup {0} : f = flushing[b].file /\ to = flushing[b].to
  BY DEF TypeOK
<1>1. /\ flushing[b].pc # "off"
      /\ UNCHANGED <<files, pos, maxFid, wpc, wfile, wend, wblock, copying, up, ptr>>
      /\ \/ UNCHANGED <<length, at, size, cut>>
         \/ Truncate(f, to) /\ Cut(f, to)
         \/ SetSize(f, to) /\ Cut(f, to)
  <2>1. CASE FlushSync(b)
    <3>1. /\ flushing[b].pc = "sync"
          /\ UNCHANGED <<fileVars, managerVars, writerVars, copying, clientVars>>
      BY <2>1, Zenon DEF FlushSync
    <3> QED  BY <3>1
  <2>2. CASE FlushTruncate(b)
    BY <1>0, <2>2 DEF FlushTruncate
  <2>3. CASE FlushFails(b)
    BY <1>0, <2>3 DEF FlushFails, SetSize
  <2> QED  BY <2>1, <2>2, <2>3
<1>2. up /\ up'
  BY <1>1 DEF ControlInv
<1>3. SamePlaces
  BY <1>1, SameWriters
<1>4. HeldSame /\ \A g \in Fid : InUse(g)' => InUse(g)
  BY <1>1 DEF HeldSame, Holds, InUse
<1>5. Resized(f)
  <2>1. CASE UNCHANGED <<length, at, size, cut>>
    <3>1. length[f] \in Nat
      BY Numbers DEF TypeOK
    <3> QED  BY <2>1, <3>1 DEF Resized
  <2>2. CASE (Truncate(f, to) \/ SetSize(f, to)) /\ Cut(f, to)
    BY <2>2, ResizeFacts
  <2> QED  BY <1>1, <2>1, <2>2
<1> QED  BY <1>1, <1>2, <1>3, <1>4, <1>5, ResizeSafe
(* A new file is empty. *)
LEMMA CreateSafe ==
  ASSUME BasicInv, SafeInv, TypeOK', NEW w \in Writers, CreateValueFile(w)
  PROVE  SafeInv'
<1> USE Numbers, ValueLogAssumption DEF BasicInv, SafeInv
<1>0. PICK new \in Fid : new = maxFid + 1
  BY CreateChanges
<1>1. /\ SamePlaces /\ StepOf(w) /\ wpc[w] = "create" /\ wpc'[w] = "write" /\ up /\ up' = up
      /\ new \notin files /\ ~Reached(new)
      /\ files' = files \cup {new} /\ maxFid' = new /\ wfile'[w] = new
      /\ \A f \in Fid : length'[f] = IF f = new THEN 2 * MaxSize ELSE length[f]
      /\ UNCHANGED <<at, pos, size, wend, wblock, copying, ptr, cut>>
  BY <1>0, CreateChanges
<1>2. \A b \in Block, n \in Place : ~Claim(b, new, n)
  BY <1>1 DEF MappedInv
<1>3. \A n \in Place : at[new][n] = Empty
  BY <1>1 DEF MappedInv
<1>4. \A f \in Fid : InUse(f)' => f = new \/ InUse(f)
  BY <1>1 DEF InUse, StepOf
<1>5. HeldSame
  BY <1>1 DEF HeldSame, Holds, StepOf
<1>6. pos[new] = 0
  <2>1. new > maxFid
    BY <1>0 DEF TypeOK
  <2> QED  BY <2>1 DEF ControlInv
<1>7. PlaceInv'
  <2>1. ASSUME NEW b \in Block, NEW f \in Fid, NEW n \in Place, Claim(b, f, n)'
        PROVE  /\ InUse(f)' => n <= pos'[f]
               /\ at'[f][n] \in {b, Empty}
               /\ \A c \in Block : Claim(c, f, n)' => c = b
    <3>1. Claim(b, f, n) /\ f # new
      BY <1>1, <1>2, <2>1 DEF SamePlaces
    <3>2. /\ InUse(f) => n <= pos[f]
          /\ at[f][n] \in {b, Empty}
          /\ \A c \in Block : Claim(c, f, n) => c = b
      BY <3>1 DEF PlaceInv
    <3> QED  BY <1>1, <1>4, <3>1, <3>2 DEF SamePlaces
  <2>2. ASSUME NEW f \in Fid, NEW n \in Place
        PROVE  /\ at'[f][n] # Torn
               /\ InUse(f)' /\ n > pos'[f] => at'[f][n] = Empty
    BY <1>1, <1>3, <1>4 DEF PlaceInv
  <2>3. \A x \in Writers : Holds(x)' => at'[wfile'[x]][wend'[x]] = Empty
    BY <1>1, <1>5 DEF PlaceInv, HeldSame
  <2> QED  BY <2>1, <2>2, <2>3 DEF PlaceInv
<1>8. DownInv'
  BY <1>1 DEF DownInv
<1>9. SizeInv'
  <2> SUFFICES ASSUME NEW g \in files', g \notin cut' PROVE FileInv(g)'
    BY DEF SizeInv
  <2>1. CASE g = new
    <3>1. length'[new] = 2 * MaxSize /\ length'[new] \in Nat /\ size'[new] \in Nat
      BY <1>1 DEF TypeOK
    <3>2. Due(new)' \in Nat
      <4>1. Due(new)' = Due(new)
        BY <1>1 DEF SamePlaces, Due, Copies
      <4> QED  BY <4>1, CopiesFinite
    <3>3. \A b \in Block, n \in Place : ~Placed(b, new, n)'
      BY <1>1, <1>2, PlacedClaim DEF SamePlaces
    <3>4. \A n \in Place : ~(length'[new] < n /\ n <= pos'[new])
      BY <1>1, <1>6, <3>1
    <3>5. pos'[new] <= size'[new] + Due(new)'
      BY <1>1, <1>6, <3>1, <3>2
    <3> QED  BY <2>1, <3>3, <3>4, <3>5 DEF FileInv
  <2>2. CASE g # new
    <3>1. g \in files /\ g \in Fid /\ g \notin cut /\ FileInv(g)
      BY <1>1, <2>2 DEF TypeOK, SizeInv
    <3>2. Holding(g)' = Holding(g) /\ Due(g)' = Due(g) /\ length'[g] = length[g]
      BY <1>1, <2>2, <3>1 DEF SamePlaces, Due, Copies
    <3>3. \A b \in Block, n \in Place : Placed(b, g, n)' <=> Placed(b, g, n)
      BY <1>1, <3>1 DEF SamePlaces
    <3> QED  BY <1>1, <3>1, <3>2, <3>3 DEF FileInv
  <2> QED  BY <2>1, <2>2
<1> QED  BY <1>7, <1>8, <1>9

(* A place is taken: no other block has it, and nothing is there. *)
LEMMA TakeSafe ==
  ASSUME BasicInv, SafeInv, TypeOK', NEW w \in Writers, TakePlace(w)
  PROVE  SafeInv'
<1> USE Numbers, ValueLogAssumption DEF BasicInv, SafeInv
<1>0. PICK f \in Fid, p \in Place, a \in Block :
        f = wfile[w] /\ p = pos[f] + 1 /\ a = wblock[w]
  <2>1. wpc[w] # "idle"
    BY DEF TakePlace
  <2> QED  BY <2>1, OneWriter DEF TakePlace
<1>1. /\ wpc[w] = "write" /\ wpc'[w] = "length" /\ StepOf(w) /\ wend'[w] = p /\ wfile' = wfile
      /\ \A g \in Fid : pos'[g] = IF g = f THEN p ELSE pos[g]
      /\ UNCHANGED <<files, length, at, size, maxFid, copying, ptr, up, cut>>
  BY <1>0 DEF TakePlace, Goto, TypeOK, StepOf
<1>2. /\ \A b \in Block, g \in Fid, n \in Place :
           /\ Claim(b, g, n)' <=> Claim(b, g, n) \/ (b = a /\ g = f /\ n = p)
           /\ Placed(b, g, n)' <=> Placed(b, g, n)
      /\ \A g \in Fid : Holding(g)' = IF g = f THEN Holding(g) \cup {w} ELSE Holding(g)
      /\ w \notin Holding(f)
  <2>1. /\ \A b \in Block, g \in Fid, n \in Place :
              /\ Claim(b, g, n)' <=>
                   Claim(b, g, n) \/ (b = wblock[w] /\ g = wfile[w] /\ n = pos[g] + 1)
              /\ Placed(b, g, n)' <=> Placed(b, g, n)
        /\ \A g \in Fid : Holding(g)' = IF g = wfile[w] THEN Holding(g) \cup {w} ELSE Holding(g)
        /\ w \notin Holding(wfile[w])
    BY TakeChanges
  <2>2. \A g \in Fid, n \in Place :
           g = wfile[w] /\ n = pos[g] + 1 <=> g = f /\ n = p
    BY <1>0
  <2> QED  BY <1>0, <2>1, <2>2
<1>3. up /\ InUse(f) /\ pos[f] \in Nat /\ p \in Nat /\ p > pos[f]
  <2>1. up /\ InUse(f)
    BY <1>0, <1>1 DEF ControlInv, InUse
  <2>2. pos[f] \in Nat /\ p \in Nat
    BY DEF TypeOK
  <2> QED  BY <1>0, <2>1, <2>2
<1>4. \A g \in Fid : InUse(g)' => InUse(g)
  BY <1>1, StepInUse
<1>5. \A b \in Block, n \in Place : Claim(b, f, n) => n <= pos[f] /\ n # p /\ n <= p
  <2>1. \A b \in Block, n \in Place : Claim(b, f, n) => n <= pos[f]
    BY <1>3 DEF PlaceInv
  <2>2. \A n \in Place : n <= pos[f] => n # p /\ n <= p
    BY <1>3
  <2> QED  BY <2>1, <2>2
<1>6. at[f][p] = Empty
  BY <1>3 DEF PlaceInv
<1>7. PlaceInv'
  <2>1. ASSUME NEW b \in Block, NEW g \in Fid, NEW n \in Place, Claim(b, g, n)'
        PROVE  /\ InUse(g)' => n <= pos'[g]
               /\ at'[g][n] \in {b, Empty}
               /\ \A c \in Block : Claim(c, g, n)' => c = b
    <3>1. CASE Claim(b, g, n)
      <4>1. InUse(g)' => n <= pos'[g]
        <5>1. CASE g = f
          BY <1>1, <1>5, <3>1, <5>1
        <5>2. CASE g # f
          BY <1>1, <1>4, <3>1, <5>2 DEF PlaceInv
        <5> QED  BY <5>1, <5>2
      <4>2. \A c \in Block : Claim(c, g, n)' => Claim(c, g, n)
        BY <1>2, <1>5, <3>1
      <4> QED  BY <1>1, <3>1, <4>1, <4>2 DEF PlaceInv
    <3>2. CASE b = a /\ g = f /\ n = p
      <4>1. \A c \in Block : Claim(c, f, p)' => c = a
        BY <1>2, <1>5
      <4> QED  BY <1>1, <1>3, <1>6, <3>2, <4>1
    <3> QED  BY <1>2, <2>1, <3>1, <3>2
  <2>2. ASSUME NEW g \in Fid, NEW n \in Place
        PROVE  /\ at'[g][n] # Torn
               /\ InUse(g)' /\ n > pos'[g] => at'[g][n] = Empty
    <3>1. InUse(g)' /\ n > pos'[g] => InUse(g) /\ n > pos[g]
      <4>1. n \in Nat /\ pos[g] \in Nat /\ (pos'[g] = pos[g] \/ (pos'[g] = p /\ pos[g] < p))
        BY <1>1, <1>3 DEF TypeOK
      <4> QED  BY <1>3, <1>4, <4>1
    <3> QED  BY <1>1, <3>1 DEF PlaceInv
  <2>3. ASSUME NEW x \in Writers, Holds(x)' PROVE at'[wfile'[x]][wend'[x]] = Empty
    <3>1. CASE x = w
      BY <1>0, <1>1, <1>6, <3>1
    <3>2. CASE x # w
      BY <1>1, <2>3, <3>2 DEF StepOf, Holds, PlaceInv
    <3> QED  BY <3>1, <3>2
  <2> QED  BY <2>1, <2>2, <2>3 DEF PlaceInv
<1>8. DownInv'
  BY <1>1, <1>3 DEF DownInv
<1>9. SizeInv'
  <2> SUFFICES ASSUME NEW g \in files', g \notin cut' PROVE FileInv(g)'
    BY DEF SizeInv
  <2>1. g \in files /\ g \in Fid /\ g \notin cut /\ FileInv(g)
    BY <1>1 DEF TypeOK, SizeInv
  <2>2. \A x \in Holding(g) : x # w => wend'[x] = wend[x]
    BY <1>1 DEF Holding, StepOf
  <2>3. CASE g # f
    <3>1. Holding(g)' = Holding(g) /\ Due(g)' = Due(g)
      BY <1>1, <1>2, <2>1, <2>3 DEF Due, Copies
    <3>2. w \notin Holding(g)
      BY <1>1 DEF Holding
    <3> QED  BY <1>1, <1>2, <2>1, <2>2, <2>3, <3>1, <3>2 DEF FileInv
  <2>4. CASE g = f
    <3>1. Holding(f)' = Holding(f) \cup {w} /\ Copies(f)' = Copies(f)
      BY <1>1, <1>2 DEF Copies
    <3>2. Cardinality(Holding(f) \cup {w}) = Cardinality(Holding(f)) + 1
      BY <1>2, HoldingFinite, FS_AddElement
    <3>3. PICK d \in Nat : d = Due(f)
      BY CopiesFinite
    <3>4. Due(f)' = d + 1
      <4>1. /\ Cardinality(Copies(f)) \in Nat /\ Cardinality(Holding(f)) \in Nat
            /\ d = Cardinality(Copies(f)) + Cardinality(Holding(f))
        BY <3>3, CopiesFinite, HoldingFinite DEF Due
      <4>2. Due(f)' = Cardinality(Copies(f)) + (Cardinality(Holding(f)) + 1)
        BY <3>1, <3>2 DEF Due
      <4> QED  BY <4>1, <4>2
    <3>5. size[f] \in Nat /\ pos[f] \in Nat /\ p = pos[f] + 1
      BY <1>0 DEF TypeOK
    <3>6. p <= size[f] + (d + 1)
      <4>1. pos[f] <= size[f] + d
        BY <1>3, <2>1, <2>4, <3>3 DEF FileInv
      <4> QED  BY <3>5, <4>1
    <3>7. ASSUME NEW n \in Place, length[f] < n, n <= p
          PROVE  \E x \in Holding(f)' : wend'[x] = n
      <4>1. CASE n = p
        BY <1>1, <3>1, <4>1
      <4>2. CASE n # p
        <5>1. n <= pos[f]
          BY <3>5, <3>7, <4>2
        <5>2. PICK x \in Holding(f) : wend[x] = n
          BY <2>1, <2>4, <3>7, <5>1 DEF FileInv
        <5> QED  BY <1>2, <2>2, <2>4, <3>1, <5>2
      <4> QED  BY <4>1, <4>2
    <3>8. ASSUME NEW b \in Block, NEW n \in Place, Placed(b, f, n)'
          PROVE  /\ n <= length[f]
                 /\ at[f][n] = b \/ <<f, n, b>> \in copying
                 /\ n <= size[f] + (d + 1)
      <4>1. /\ n <= length[f] /\ (at[f][n] = b \/ <<f, n, b>> \in copying)
            /\ n <= size[f] + d
        BY <1>2, <1>3, <2>1, <2>4, <3>3, <3>8 DEF FileInv
      <4> QED  BY <3>5, <4>1
    <3> QED  BY <1>1, <2>4, <3>4, <3>6, <3>7, <3>8 DEF FileInv
  <2> QED  BY <2>3, <2>4
<1> QED  BY <1>7, <1>8, <1>9
(* A copy is started, in a file long enough for it. *)
LEMMA StartSafe ==
  ASSUME BasicInv, SafeInv, TypeOK', NEW w \in Writers, StartCopy(w), Holds(w),
         Resized(wfile[w]),
         wfile[w] \notin cut' => wend[w] <= length'[wfile[w]],
         UNCHANGED <<files, pos, maxFid, wfile, wend, wblock, ptr, up>>
  PROVE  SafeInv'
<1> USE Numbers, ValueLogAssumption DEF BasicInv, SafeInv
<1>0. PICK f \in Fid, p \in Place, a \in Block : f = wfile[w] /\ p = wend[w] /\ a = wblock[w]
  BY HolderFacts
<1>1. /\ wpc'[w] = "store" /\ StepOf(w) /\ copying' = copying \cup {<<f, p, a>>}
      /\ \A b \in Block : ~Placed(b, f, p)
      /\ p <= pos[f] /\ up
  BY <1>0, HolderFacts DEF StartCopy, Goto, TypeOK, StepOf
<1>2. /\ \A b \in Block, g \in Fid, n \in Place :
           /\ Claim(b, g, n)' <=> Claim(b, g, n)
           /\ Placed(b, g, n)' <=> Placed(b, g, n) \/ (b = a /\ g = f /\ n = p)
      /\ \A g \in Fid : Holding(g)' = Holding(g) \ {w}
      /\ w \in Holding(f) /\ \A g \in Fid : g # f => w \notin Holding(g)
  BY <1>0, StartChanges
<1>3. \A g \in Fid : InUse(g)' => InUse(g)
  <2>1. wpc[w] # "idle"
    BY DEF Holds
  <2> QED  BY <1>1, <2>1, StepInUse
<1>4. \A g \in Fid, n \in Place : at'[g][n] \in {at[g][n], Empty}
  BY <1>0 DEF Resized
<1>5. PlaceInv'
  <2>1. ASSUME NEW b \in Block, NEW g \in Fid, NEW n \in Place, Claim(b, g, n)'
        PROVE  /\ InUse(g)' => n <= pos'[g]
               /\ at'[g][n] \in {b, Empty}
               /\ \A c \in Block : Claim(c, g, n)' => c = b
    BY <1>2, <1>3, <1>4, <2>1 DEF PlaceInv
  <2>2. ASSUME NEW g \in Fid, NEW n \in Place
        PROVE  /\ at'[g][n] # Torn
               /\ InUse(g)' /\ n > pos'[g] => at'[g][n] = Empty
    BY <1>3, <1>4 DEF PlaceInv
  <2>3. ASSUME NEW x \in Writers, Holds(x)' PROVE at'[wfile'[x]][wend'[x]] = Empty
    <3>1. Holds(x)
      BY <1>1, <2>3 DEF Holds, StepOf
    <3>2. wfile[x] \in Fid /\ wend[x] \in Place /\ at[wfile[x]][wend[x]] = Empty
      BY <3>1 DEF PlaceInv, TypeOK, ControlInv, Takes
    <3>3. at'[wfile[x]][wend[x]] \in {at[wfile[x]][wend[x]], Empty}
      BY <1>4, <3>2
    <3> QED  BY <3>2, <3>3
  <2> QED  BY <2>1, <2>2, <2>3 DEF PlaceInv
<1>6. DownInv'
  BY <1>1 DEF DownInv
<1>7. SizeInv'
  <2> SUFFICES ASSUME NEW g \in files', g \notin cut' PROVE FileInv(g)'
    BY DEF SizeInv
  <2>1. g \in files /\ g \in Fid /\ g \notin cut /\ FileInv(g)
    BY DEF TypeOK, SizeInv, Resized
  <2>2. CASE g # f
    <3>1. Holding(g)' = Holding(g)
      <4>1. Holding(g)' = Holding(g) \ {w} /\ w \notin Holding(g)
        BY <1>2, <2>1, <2>2
      <4> QED  BY <4>1
    <3>2. Due(g)' = Due(g)
      <4>1. Copies(g)' = Copies(g)
        BY <1>1, <2>2 DEF Copies
      <4> QED  BY <3>1, <4>1 DEF Due
    <3>3. length'[g] = length[g] /\ size'[g] = size[g] /\ at'[g] = at[g]
      BY <1>0, <2>1, <2>2 DEF Resized
    <3>4. \A b \in Block, n \in Place : Placed(b, g, n)' <=> Placed(b, g, n)
      BY <1>2, <2>1, <2>2
    <3> QED  BY <1>1, <2>1, <3>1, <3>2, <3>3, <3>4 DEF FileInv
  <2>3. CASE g = f
    <3>1. Holding(f)' = Holding(f) \ {w} /\ w \in Holding(f)
      BY <1>2
    <3>2. Copies(f)' = Copies(f) \cup {<<f, p, a>>} /\ <<f, p, a>> \notin Copies(f)
      <4>1. <<f, p, a>> \notin copying
        BY <1>1 DEF BlockInv
      <4> QED  BY <1>1, <4>1 DEF Copies
    <3>3. PICK d \in Nat : d = Due(f)
      BY CopiesFinite
    <3>4. Due(f)' = d
      <4>1. Cardinality(Copies(f)') = Cardinality(Copies(f)) + 1
        BY <3>2, CopiesFinite, FS_AddElement
      <4>2. Cardinality(Holding(f)') = Cardinality(Holding(f)) - 1
        <5>1. Cardinality(Holding(f) \ {w}) = Cardinality(Holding(f)) - 1
          BY ZenonT(40), <3>1, HoldingFinite, FS_RemoveElement
        <5> QED  BY <3>1, <5>1
      <4>3. Cardinality(Copies(f)) \in Nat /\ Cardinality(Holding(f)) \in Nat
        BY CopiesFinite, HoldingFinite
      <4>4. /\ d = Cardinality(Copies(f)) + Cardinality(Holding(f))
            /\ Due(f)' = (Cardinality(Copies(f)) + 1) + (Cardinality(Holding(f)) - 1)
        BY <3>3, <4>1, <4>2 DEF Due
      <4> QED  BY <4>3, <4>4
    <3>5. /\ length[f] \in Nat /\ length'[f] \in Nat /\ size[f] \in Nat /\ size'[f] \in Nat
          /\ pos[f] \in Place \cup {0} /\ pos[f] \in Nat /\ p \in Nat
      BY DEF TypeOK
    <3>6. /\ length[f] <= length'[f] /\ p <= length'[f]
          /\ size'[f] = size[f] \/ size'[f] >= length'[f]
          /\ \A n \in Place : n <= length[f] => at'[f][n] = at[f][n]
      BY <1>0, <2>3 DEF Resized
    <3>7. \A n \in Place : length[f] < n /\ n <= pos[f] => \E x \in Holding(f) : wend[x] = n
      BY <2>1, <2>3 DEF FileInv
    <3>8. pos[f] <= length[f] + d
      <4>1. Holding(f) \subseteq Writers
        BY DEF Holding
      <4>2. pos[f] <= length[f] + Cardinality(Holding(f))
        BY <3>5, <3>7, <4>1, HeldCount
      <4>3. Cardinality(Holding(f)) \in Nat /\ Cardinality(Copies(f)) \in Nat
            /\ d = Cardinality(Copies(f)) + Cardinality(Holding(f))
        BY <3>3, CopiesFinite, HoldingFinite DEF Due
      <4> QED  BY <3>5, <4>2, <4>3
    <3>9. pos[f] <= size'[f] + d
      <4>1. pos[f] <= size[f] + d
        BY <1>1, <2>1, <2>3, <3>3 DEF FileInv
      <4> QED  BY <3>5, <3>6, <3>8, <4>1
    <3>10. ASSUME NEW n \in Place, length'[f] < n, n <= pos'[f]
           PROVE  \E x \in Holding(f)' : wend'[x] = n
      <4>1. length[f] < n /\ n # p
        BY <3>5, <3>6, <3>10
      <4>2. PICK x \in Holding(f) : wend[x] = n
        BY <3>7, <3>10, <4>1
      <4> QED  BY <1>0, <3>1, <4>1, <4>2
    <3>11. ASSUME NEW b \in Block, NEW n \in Place, Placed(b, f, n)'
           PROVE  /\ n <= length'[f]
                  /\ at'[f][n] = b \/ <<f, n, b>> \in copying'
                  /\ n <= size'[f] + d
      <4>1. CASE Placed(b, f, n)
        <5>1. /\ n <= length[f] /\ n \in Nat /\ n <= size[f] + d
              /\ at[f][n] = b \/ <<f, n, b>> \in copying
          BY <1>1, <2>1, <2>3, <3>3, <4>1 DEF FileInv
        <5>2. n <= length'[f] /\ n <= size'[f] + d
          BY <3>5, <3>6, <5>1
        <5> QED  BY <1>1, <3>6, <5>1, <5>2
      <4>2. CASE b = a /\ n = p
        BY <1>1, <3>5, <3>6, <3>9, <4>2
      <4> QED  BY <1>2, <3>11, <4>1, <4>2
    <3> QED  BY <2>3, <3>4, <3>9, <3>10, <3>11 DEF FileInv
  <2> QED  BY <2>2, <2>3
<1> QED  BY <1>5, <1>6, <1>7

(* At once, or in a file made longer first. *)
LEMMA StartStepsSafe ==
  ASSUME BasicInv, SafeInv, TypeOK', NEW w \in Writers,
         Grow(w) \/ (CheckLength(w) /\ ~(wend[w] >= length[wfile[w]]))
  PROVE  SafeInv'
<1> USE Numbers DEF BasicInv
<1>0. Holds(w) /\ wfile[w] \in Fid /\ wend[w] \in Place
  BY DEF Grow, CheckLength, Holds, TypeOK, ControlInv, Takes
<1>1. CASE Grow(w)
  <2>1. /\ Truncate(wfile[w], wend[w]) /\ Cut(wfile[w], wend[w]) /\ StartCopy(w)
        /\ UNCHANGED <<files, pos, maxFid, wfile, wend, wblock, ptr, up>>
    BY <1>1 DEF Grow
  <2>2. Resized(wfile[w])
    BY <1>0, <2>1, ResizeFacts
  <2>3. wend[w] <= length'[wfile[w]]
    <3>1. length'[wfile[w]] = wend[w]
      BY <1>0, <2>1 DEF Truncate, TypeOK
    <3> QED  BY <1>0, <3>1
  <2> QED  BY <1>0, <2>1, <2>2, <2>3, StartSafe
<1>2. CASE CheckLength(w) /\ ~(wend[w] >= length[wfile[w]])
  <2>1. /\ StartCopy(w)
        /\ UNCHANGED <<files, pos, maxFid, wfile, wend, wblock, ptr, up, length, size, at, cut>>
    BY <1>2 DEF CheckLength
  <2>2. wend[w] \in Nat /\ length[wfile[w]] \in Nat
    BY <1>0 DEF TypeOK
  <2>3. wend[w] <= length'[wfile[w]] /\ Resized(wfile[w])
    BY <1>2, <2>1, <2>2 DEF Resized
  <2> QED  BY <1>0, <2>1, <2>3, StartSafe
<1> QED  BY <1>1, <1>2

(* The last place taken is given back: nothing is there, and no other block has it. *)
LEMMA BackSafe ==
  ASSUME BasicInv, SafeInv, TypeOK', NEW w \in Writers, RollBack(w), ~lossy'
  PROVE  SafeInv'
<1> USE Numbers, ValueLogAssumption DEF BasicInv, SafeInv
<1>0. PICK f \in Fid, p \in Place, a \in Block : f = wfile[w] /\ p = wend[w] /\ a = wblock[w]
  BY HolderFacts DEF RollBack, Holds
<1>1. /\ wpc[w] = "rollback" /\ wpc'[w] = "idle" /\ StepOf(w) /\ pos[f] = p
      /\ \A g \in Fid : pos'[g] = IF g = f THEN p - 1 ELSE pos[g]
      /\ UNCHANGED <<files, length, at, size, maxFid, copying, ptr, up, cut>>
  BY <1>0, StepFacts DEF RollBack, TypeOK
<1>2. /\ \A b \in Block, g \in Fid, n \in Place :
           /\ Claim(b, g, n)' <=> Claim(b, g, n) /\ b # a
           /\ Placed(b, g, n)' <=> Placed(b, g, n)
      /\ \A g \in Fid : Holding(g)' = Holding(g) \ {w}
      /\ w \in Holding(f) /\ \A g \in Fid : g # f => w \notin Holding(g)
      /\ Claim(a, f, p)
  BY <1>0, BackChanges
<1>3. Holds(w) /\ up /\ InUse(f) /\ at[f][p] = Empty /\ \A b \in Block : ~Placed(b, f, p)
  <2>1. Holds(w)
    BY <1>1 DEF Holds
  <2> QED  BY <1>0, <2>1, HolderFacts DEF PlaceInv
<1>4. \A g \in Fid : InUse(g)' => InUse(g)
  BY <1>1, StepInUse
<1>5. \A b \in Block, n \in Place : Claim(b, f, n) /\ b # a => n <= p - 1
  <2> SUFFICES ASSUME NEW b \in Block, NEW n \in Place, Claim(b, f, n), b # a PROVE n <= p - 1
    OBVIOUS
  <2>1. n <= p /\ n # p
    BY <1>1, <1>2, <1>3 DEF PlaceInv
  <2> QED  BY <2>1
<1>6. PlaceInv'
  <2>1. ASSUME NEW b \in Block, NEW g \in Fid, NEW n \in Place, Claim(b, g, n)'
        PROVE  /\ InUse(g)' => n <= pos'[g]
               /\ at'[g][n] \in {b, Empty}
               /\ \A c \in Block : Claim(c, g, n)' => c = b
    <3>1. Claim(b, g, n) /\ b # a
      BY <1>2, <2>1
    <3>2. InUse(g)' => n <= pos'[g]
      <4>1. CASE g = f
        BY <1>1, <1>5, <3>1, <4>1
      <4>2. CASE g # f
        BY <1>1, <1>4, <3>1, <4>2 DEF PlaceInv
      <4> QED  BY <4>1, <4>2
    <3> QED  BY <1>1, <1>2, <3>1, <3>2 DEF PlaceInv
  <2>2. ASSUME NEW g \in Fid, NEW n \in Place
        PROVE  /\ at'[g][n] # Torn
               /\ InUse(g)' /\ n > pos'[g] => at'[g][n] = Empty
    <3>1. CASE g = f /\ n = p
      BY <1>1, <1>3, <3>1 DEF PlaceInv
    <3>2. CASE ~(g = f /\ n = p)
      <4>1. InUse(g)' /\ n > pos'[g] => InUse(g) /\ n > pos[g]
        BY <1>1, <1>4, <3>2
      <4> QED  BY <1>1, <4>1 DEF PlaceInv
    <3> QED  BY <3>1, <3>2
  <2>3. ASSUME NEW x \in Writers, Holds(x)' PROVE at'[wfile'[x]][wend'[x]] = Empty
    BY <1>1, <2>3 DEF StepOf, Holds, PlaceInv
  <2> QED  BY <2>1, <2>2, <2>3 DEF PlaceInv
<1>7. DownInv'
  BY <1>1, <1>3 DEF DownInv
<1>8. SizeInv'
  <2> SUFFICES ASSUME NEW g \in files', g \notin cut' PROVE FileInv(g)'
    BY DEF SizeInv
  <2>1. g \in files /\ g \in Fid /\ g \notin cut /\ FileInv(g)
    BY <1>1 DEF TypeOK, SizeInv
  <2>2. \A x \in Holding(g)' : x # w /\ wend'[x] = wend[x]
    BY <1>1 DEF Holding, StepOf
  <2>3. CASE g # f
    <3>1. Holding(g)' = Holding(g)
      <4>1. Holding(g)' = Holding(g) \ {w} /\ w \notin Holding(g)
        BY <1>2, <2>1, <2>3
      <4> QED  BY <4>1
    <3>2. Due(g)' = Due(g)
      BY <1>1, <3>1 DEF Due, Copies
    <3> QED  BY <1>1, <1>2, <2>1, <2>2, <2>3, <3>1, <3>2 DEF FileInv
  <2>4. CASE g = f
    <3>1. Holding(f)' = Holding(f) \ {w} /\ w \in Holding(f) /\ Copies(f)' = Copies(f)
      BY <1>1, <1>2 DEF Copies
    <3>2. PICK d \in Nat : d = Due(f)
      BY CopiesFinite
    <3>3. Due(f)' = d - 1
      <4>1. Cardinality(Holding(f)') = Cardinality(Holding(f)) - 1
        <5>1. Cardinality(Holding(f) \ {w}) = Cardinality(Holding(f)) - 1
          BY ZenonT(40), <3>1, HoldingFinite, FS_RemoveElement
        <5> QED  BY <3>1, <5>1
      <4>2. Cardinality(Copies(f)) \in Nat /\ Cardinality(Holding(f)) \in Nat
        BY CopiesFinite, HoldingFinite
      <4>3. /\ d = Cardinality(Copies(f)) + Cardinality(Holding(f))
            /\ Due(f)' = Cardinality(Copies(f)) + (Cardinality(Holding(f)) - 1)
        BY <3>1, <3>2, <4>1 DEF Due
      <4> QED  BY <4>2, <4>3
    <3>4. size[f] \in Nat /\ p \in Nat /\ length[f] \in Nat
      BY DEF TypeOK
    <3>5. p - 1 <= size[f] + (d - 1)
      <4>1. p <= size[f] + d
        BY <1>1, <1>3, <2>1, <2>4, <3>2 DEF FileInv
      <4> QED  BY <3>4, <4>1
    <3>6. ASSUME NEW n \in Place, length[f] < n, n <= p - 1
          PROVE  \E x \in Holding(f)' : wend'[x] = n
      <4>1. n <= pos[f] /\ n # p
        BY <1>1, <3>4, <3>6
      <4>2. PICK x \in Holding(f) : wend[x] = n
        BY <2>1, <2>4, <3>6, <4>1 DEF FileInv
      <4> QED  BY <1>0, <2>2, <2>4, <3>1, <4>1, <4>2
    <3>7. ASSUME NEW b \in Block, NEW n \in Place, Placed(b, f, n)'
          PROVE  /\ n <= length[f]
                 /\ at[f][n] = b \/ <<f, n, b>> \in copying
                 /\ n <= size[f] + (d - 1)
      <4>1. /\ Placed(b, f, n) /\ n <= length[f] /\ n \in Nat
            /\ at[f][n] = b \/ <<f, n, b>> \in copying
        BY <1>2, <2>1, <2>4, <3>7 DEF FileInv
      <4>2. n <= p /\ n # p
        BY <1>1, <1>3, <4>1, PlacedClaim DEF PlaceInv
      <4> QED  BY <3>4, <3>5, <4>1, <4>2
    <3> QED  BY <1>1, <2>4, <3>3, <3>5, <3>6, <3>7 DEF FileInv
  <2> QED  BY <2>3, <2>4
<1> QED  BY <1>6, <1>7, <1>8
(* A copy is made: of a block that has its place, so no other block's is overwritten. *)
LEMMA CopySafe ==
  ASSUME BasicInv, SafeInv, NEW f \in Fid, NEW n \in Place, NEW b \in Block, Copy(f, n, b),
         TypeOK'
  PROVE  SafeInv'
<1> USE Numbers, ValueLogAssumption DEF BasicInv, SafeInv
<1>1. /\ <<f, n, b>> \in copying /\ copying' = copying \ {<<f, n, b>>}
      /\ at' = [at EXCEPT ![f][n] = IF n <= length[f] THEN b ELSE at[f][n]]
      /\ size' = [size EXCEPT ![f] = size[f] + 1]
      /\ UNCHANGED <<files, length, pos, maxFid, writerVars, up, ptr, cut>>
  BY DEF Copy
<1>2. /\ \A c \in Block, g \in Fid, k \in Place :
           (Claim(c, g, k)' <=> Claim(c, g, k)) /\ (Placed(c, g, k)' <=> Placed(c, g, k))
      /\ \A g \in Fid : Holding(g)' = Holding(g)
  BY <1>1, SameWriters DEF SamePlaces
<1>3. Placed(b, f, n) /\ Claim(b, f, n)
  BY <1>1, PlacedClaim DEF BlockInv
<1>4. \A c \in Block : Claim(c, f, n) => c = b
  BY <1>3 DEF PlaceInv
<1>5. \A g \in Fid, k \in Place : at'[g][k] =
        IF g = f /\ k = n /\ n <= length[f] THEN b ELSE at[g][k]
  BY <1>1 DEF TypeOK
<1>6. \A g \in Fid : InUse(g)' <=> InUse(g)
  BY <1>1 DEF InUse
<1>7. up
  BY <1>1 DEF ControlInv
<1>8. PlaceInv'
  <2>1. ASSUME NEW c \in Block, NEW g \in Fid, NEW k \in Place, Claim(c, g, k)'
        PROVE  /\ InUse(g)' => k <= pos'[g]
               /\ at'[g][k] \in {c, Empty}
               /\ \A d \in Block : Claim(d, g, k)' => d = c
    <3>1. Claim(c, g, k) /\ (InUse(g)' => k <= pos'[g])
          /\ \A d \in Block : Claim(d, g, k)' => d = c
      BY <1>1, <1>2, <1>6, <2>1 DEF PlaceInv
    <3>2. at'[g][k] \in {c, Empty}
      BY <1>4, <1>5, <3>1 DEF PlaceInv
    <3> QED  BY <3>1, <3>2
  <2>2. ASSUME NEW g \in Fid, NEW k \in Place
        PROVE  /\ at'[g][k] # Torn
               /\ InUse(g)' /\ k > pos'[g] => at'[g][k] = Empty
    <3>1. CASE g = f /\ k = n
      <4>1. InUse(g) => ~(k > pos[g])
        <5>1. InUse(g) => k <= pos[g]
          BY <1>3, <3>1 DEF PlaceInv
        <5>2. pos[g] \in Nat /\ k \in Nat
          BY DEF TypeOK
        <5> QED  BY <5>1, <5>2
      <4>2. at[g][k] # Torn /\ b # Torn
        BY DEF PlaceInv
      <4> QED  BY <1>1, <1>5, <1>6, <4>1, <4>2
    <3>2. CASE ~(g = f /\ k = n)
      BY <1>1, <1>5, <1>6, <3>2 DEF PlaceInv
    <3> QED  BY <3>1, <3>2
  <2>3. ASSUME NEW x \in Writers, Holds(x)' PROVE at'[wfile'[x]][wend'[x]] = Empty
    <3>1. Holds(x) /\ wfile' = wfile /\ wend' = wend
      BY <1>1, <2>3 DEF Holds
    <3>2. wfile[x] \in Fid /\ wend[x] \in Place /\ ~Placed(b, wfile[x], wend[x])
      BY <3>1, HolderFacts
    <3>3. ~(wfile[x] = f /\ wend[x] = n)
      BY <1>3, <3>2
    <3> QED  BY <1>5, <3>1, <3>2, <3>3 DEF PlaceInv
  <2> QED  BY <2>1, <2>2, <2>3 DEF PlaceInv
<1>9. DownInv'
  BY <1>1, <1>7 DEF DownInv
<1>10. SizeInv'
  <2>1. \A g \in Fid : g # f => Copies(g)' = Copies(g)
    BY <1>1 DEF Copies
  <2>2. Copies(f)' = Copies(f) \ {<<f, n, b>>} /\ <<f, n, b>> \in Copies(f)
    BY <1>1 DEF Copies
  <2>3. /\ Cardinality(Copies(f)) \in Nat
        /\ Cardinality(Copies(f)') = Cardinality(Copies(f)) - 1
    BY ZenonT(40), <2>2, CopiesFinite, FS_RemoveElement
  <2>4. size'[f] = size[f] + 1 /\ size[f] \in Nat /\ \A g \in Fid : g # f => size'[g] = size[g]
    BY <1>1 DEF TypeOK
  <2>5. ASSUME NEW g \in Fid PROVE size'[g] + Due(g)' = size[g] + Due(g)
    <3>1. Cardinality(Holding(g)) \in Nat /\ Holding(g)' = Holding(g)
      BY <1>2, HoldingFinite
    <3>2. CASE g = f
      <4>1. /\ Due(f)' = (Cardinality(Copies(f)) - 1) + Cardinality(Holding(f))
            /\ Due(f) = Cardinality(Copies(f)) + Cardinality(Holding(f))
        BY <2>3, <3>1, <3>2 DEF Due
      <4> QED  BY <2>3, <2>4, <3>1, <3>2, <4>1
    <3>3. CASE g # f
      BY <2>1, <2>4, <3>1, <3>3 DEF Due
    <3> QED  BY <3>2, <3>3
  <2> SUFFICES ASSUME NEW g \in files', g \notin cut' PROVE FileInv(g)'
    BY DEF SizeInv
  <2>6. g \in files /\ g \in Fid /\ g \notin cut /\ FileInv(g)
    BY <1>1 DEF TypeOK, SizeInv
  <2>7. ASSUME NEW c \in Block, NEW k \in Place, Placed(c, g, k)'
        PROVE  at'[g][k] = c \/ <<g, k, c>> \in copying'
    <3>1. Placed(c, g, k) /\ k <= length[g] /\ (at[g][k] = c \/ <<g, k, c>> \in copying)
      BY <1>2, <2>6, <2>7 DEF FileInv
    <3>2. CASE g = f /\ k = n
      BY <1>4, <1>5, <3>1, <3>2, PlacedClaim
    <3>3. CASE ~(g = f /\ k = n)
      <4>1. <<g, k, c>> # <<f, n, b>>
        BY <3>3
      <4> QED  BY <1>1, <1>5, <2>6, <3>1, <3>3, <4>1
    <3> QED  BY <3>2, <3>3
  <2>8. ASSUME NEW c \in Block, NEW k \in Place, Placed(c, g, k)'
        PROVE  k <= length'[g] /\ (up' => k <= size'[g] + Due(g)')
    BY <1>1, <1>2, <1>7, <2>5, <2>6, <2>8 DEF FileInv
  <2>9. up' => pos'[g] <= size'[g] + Due(g)'
    BY <1>1, <1>7, <2>5, <2>6 DEF FileInv
  <2>10. \A k \in Place : length'[g] < k /\ k <= pos'[g] =>
            \E x \in Holding(g)' : wend'[x] = k
    BY <1>1, <1>2, <2>6 DEF FileInv
  <2> QED  BY <2>7, <2>8, <2>9, <2>10 DEF FileInv
<1> QED  BY <1>8, <1>9, <1>10

(* The end of a process that loses nothing: no copy is to be made, the last file has no
   hole and writeOffset reaches its last block. *)
LEMMA EndSafe ==
  ASSUME BasicInv, SafeInv, TypeOK', Crash \/ Panic \/ Close, ~lossy'
  PROVE  SafeInv'
<1> USE Numbers, ValueLogAssumption DEF BasicInv, SafeInv
<1>1. /\ Stop /\ copying = {} /\ ~(writeOffset < pos[maxFid]) /\ ~Hole(maxFid)
      /\ up' = FALSE /\ copying' = {} /\ UNCHANGED <<files, ptr, cut>>
      /\ \A f \in Fid : pos'[f] = 0
  BY DEF Crash, Panic, Close, Stop
<1>2. up
  BY <1>1 DEF Crash, Panic, Close
<1>3. maxFid \in Fid /\ IsTop(maxFid) /\ InUse(maxFid) /\ writeOffset \in Nat /\ pos[maxFid] \in Nat
  BY <1>2 DEF ControlInv, IsTop, InUse, TypeOK
<1>4. /\ \A f \in Fid, n \in Place : at'[f][n] = at[f][n]
      /\ \A f \in Fid : length'[f] = IF f = maxFid /\ Close THEN writeOffset ELSE length[f]
  <2>1. CASE Crash /\ ~Close
    <3>1. PICK torn \in SUBSET {c \in copying : c[2] <= length[c[1]]} :
            at' = [f \in Fid |-> [n \in Place |->
                     IF \E c \in torn : c[1] = f /\ c[2] = n THEN Torn ELSE at[f][n]]]
      BY <2>1 DEF Crash
    <3>2. torn = {}
      BY <1>1
    <3> QED  BY <2>1, <3>1, <3>2 DEF Crash
  <2>2. CASE Panic /\ ~Close
    BY <2>2 DEF Panic
  <2>3. CASE Close
    <3>1. \A f \in Fid, n \in Place : at'[f][n] =
            IF f = maxFid /\ ~(n <= writeOffset) THEN Empty ELSE at[f][n]
      BY <1>3, <2>3 DEF Close, TypeOK
    <3>2. \A n \in Place : ~(n <= writeOffset) => at[maxFid][n] = Empty
      <4> SUFFICES ASSUME NEW n \in Place, ~(n <= writeOffset) PROVE at[maxFid][n] = Empty
        OBVIOUS
      <4>1. n > pos[maxFid]
        BY <1>1, <1>3
      <4> QED  BY <1>3, <4>1 DEF PlaceInv
    <3>3. \A f \in Fid : length'[f] = IF f = maxFid THEN writeOffset ELSE length[f]
      BY <1>3, <2>3 DEF Close, TypeOK
    <3> QED  BY <2>3, <3>1, <3>2, <3>3
  <2> QED  BY <2>1, <2>2, <2>3
<1>5. \A b \in Block, f \in Fid, n \in Place :
         (Claim(b, f, n)' => Claim(b, f, n)) /\ (Placed(b, f, n)' => Placed(b, f, n))
  BY <1>1, StopChanges DEF Claim, Placed
<1>6. \A f \in Fid : ~InUse(f)'
  BY <1>1 DEF InUse
<1>7. PlaceInv'
  <2>1. \A x \in Writers : ~Holds(x)'
    BY <1>1 DEF Stop, Holds
  <2> QED  BY <1>4, <1>5, <1>6, <2>1 DEF PlaceInv
<1>8. DownInv'
  <2>0. PICK k \in Place \cup {0}, top \in Fid : k = pos[maxFid] /\ top = maxFid
    BY <1>3 DEF TypeOK
  <2>1. \A f \in Fid : IsTop(f)' => f = top
    <3>1. \A f \in Fid : IsTop(f)' => IsTop(f)
      BY <1>1 DEF IsTop
    <3> QED  BY <1>3, <2>0, <3>1, TopUnique
  <2>2. \A n \in Place : at[top][n] # Empty <=> n <= k
    <3>1. ASSUME NEW n \in Place, n <= k PROVE at[top][n] # Empty
      <4>1. n \in 1..pos[maxFid]
        BY <2>0, <3>1 DEF Place
      <4> QED  BY <1>1, <2>0, <4>1 DEF Hole
    <3>2. ASSUME NEW n \in Place, ~(n <= k) PROVE at[top][n] = Empty
      <4>1. n > pos[maxFid]
        BY <1>3, <2>0, <3>2
      <4> QED  BY <1>3, <2>0, <4>1 DEF PlaceInv
    <3> QED  BY <3>1, <3>2
  <2>3. k <= length[top]
    <3>1. CASE k = 0
      <4>1. length[top] \in Nat
        BY DEF TypeOK
      <4> QED  BY <3>1, <4>1
    <3>2. CASE k \in Place
      <4>1. at[top][k] # Empty
        BY <2>2, <3>2
      <4> QED  BY <3>2, <4>1 DEF MappedInv
    <3> QED  BY <3>1, <3>2
  <2>4. k <= length'[top]
    <3>1. k <= writeOffset
      BY <1>1, <1>3, <2>0
    <3> QED  BY <1>4, <2>3, <3>1
  <2>5. \A b \in Block, n \in Place : Claim(b, top, n)' => n <= k
    BY <1>3, <1>5, <2>0 DEF PlaceInv
  <2>6. EndsAt(top, k)'
    BY <1>4, <2>2, <2>4, <2>5 DEF EndsAt
  <2> QED  BY <2>1, <2>6 DEF DownInv
<1>9. SizeInv'
  <2> SUFFICES ASSUME NEW g \in files', g \notin cut' PROVE FileInv(g)'
    BY DEF SizeInv
  <2>1. g \in files /\ g \in Fid /\ g \notin cut /\ FileInv(g)
    BY <1>1 DEF TypeOK, SizeInv
  <2>2. \A n \in Place : ~(length'[g] < n /\ n <= pos'[g])
    BY <1>1, <2>1
  <2>3. ASSUME NEW c \in Block, NEW k \in Place, Placed(c, g, k)'
        PROVE  k <= length'[g] /\ at'[g][k] = c
    <3>1. Placed(c, g, k) /\ Claim(c, g, k) /\ k <= length[g] /\ at[g][k] = c
      BY <1>1, <1>5, <2>1, <2>3, PlacedClaim DEF FileInv
    <3>2. CASE g = maxFid
      <4>1. k <= pos[maxFid] /\ pos[maxFid] <= writeOffset
        BY <1>1, <1>3, <3>1, <3>2 DEF PlaceInv
      <4>2. k <= writeOffset
        BY <1>3, <4>1
      <4> QED  BY <1>4, <2>1, <3>1, <3>2, <4>2
    <3>3. CASE g # maxFid
      BY <1>4, <2>1, <3>1, <3>3
    <3> QED  BY <3>2, <3>3
  <2> QED  BY <1>1, <2>2, <2>3 DEF FileInv
<1> QED  BY <1>7, <1>8, <1>9

(* restoreValueFile finds the end of the last file. *)
LEMMA RestoredEnd ==
  ASSUME TypeOK, PlaceInv, NEW f \in Fid, NEW k \in Place \cup {0}, EndsAt(f, k)
  PROVE  Restored(f) = k
<1> USE Numbers, ValueLogAssumption
<1> DEFINE r == Restored(f)
<1>1. /\ r \in Place \cup {0}
      /\ \A m \in 1..r : m <= length[f] /\ at[f][m] # Empty
      /\ \/ r > 0 /\ at[f][r] = Torn
         \/ r = length[f]
         \/ r < length[f] /\ at[f][r + 1] = Empty
  BY RestoredFacts
<1> HIDE DEF r
<1>2. r \in Nat /\ k \in Nat /\ length[f] \in Nat
  BY <1>1 DEF TypeOK
<1>3. r <= k
  <2>1. CASE r = 0
    BY <1>2, <2>1
  <2>2. CASE r \in Place
    <3>1. r \in 1..r
      BY <2>2 DEF Place
    <3> QED  BY <1>1, <2>2, <3>1 DEF EndsAt
  <2> QED  BY <1>1, <2>1, <2>2
<1>4. CASE r < k
  <2>1. r + 1 \in Place /\ r + 1 <= k
    BY <1>2, <1>4 DEF Place
  <2>2. at[f][r + 1] # Empty /\ k <= length[f]
    BY <2>1 DEF EndsAt
  <2>3. r > 0 /\ at[f][r] = Torn
    BY <1>1, <1>2, <1>4, <2>2
  <2>4. r \in Place
    BY <1>1, <2>3
  <2> QED  BY <2>3, <2>4 DEF PlaceInv
<1> QED  BY <1>2, <1>3, <1>4 DEF r

(* The next process goes on after the last block. *)
LEMMA OpenSafe ==
  ASSUME BasicInv, SafeInv, TypeOK', Open
  PROVE  SafeInv'
<1> USE Numbers, ValueLogAssumption DEF BasicInv, SafeInv
<1>0. PICK top \in Fid : top = maxFid'
  BY OpenFacts
<1>1. /\ IsTop(top) /\ IsTop(maxFid)' /\ files' \subseteq files
      /\ up' /\ ~up /\ UNCHANGED <<at, writerVars, copying, ptr, cut>>
      /\ \A f \in Fid : f # top => pos'[f] = 0 /\ length'[f] = length[f]
      /\ pos'[top] = Restored(top)
      /\ length'[top] = IF length[top] = 0 THEN 2 * MaxSize ELSE length[top]
      /\ \A f \in files : size'[f] = length[f]
  BY <1>0, OpenFacts
<1>2. PICK k \in Place \cup {0} : EndsAt(top, k)
  BY <1>1 DEF DownInv
<1>3. pos'[top] = k
  BY <1>1, <1>2, RestoredEnd
<1>4. \A c \in Block, g \in Fid, n \in Place :
         (Claim(c, g, n)' <=> Claim(c, g, n)) /\ (Placed(c, g, n)' <=> Placed(c, g, n))
  BY <1>1, SameWriters DEF SamePlaces
<1>5. \A w \in Writers : wpc'[w] = "idle"
  BY <1>1 DEF ControlInv
<1>6. \A f \in Fid : InUse(f)' => f = top
  BY <1>0, <1>5 DEF InUse
<1>7. k \in Nat
  OBVIOUS
<1>8. PlaceInv'
  <2>1. ASSUME NEW c \in Block, NEW g \in Fid, NEW n \in Place, Claim(c, g, n)'
        PROVE  /\ InUse(g)' => n <= pos'[g]
               /\ at'[g][n] \in {c, Empty}
               /\ \A d \in Block : Claim(d, g, n)' => d = c
    <3>1. g = top => n <= k
      BY <1>2, <1>4, <2>1 DEF EndsAt
    <3> QED  BY <1>1, <1>3, <1>4, <1>6, <2>1, <3>1 DEF PlaceInv
  <2>2. ASSUME NEW g \in Fid, NEW n \in Place
        PROVE  /\ at'[g][n] # Torn
               /\ InUse(g)' /\ n > pos'[g] => at'[g][n] = Empty
    <3>1. InUse(g)' /\ n > pos'[g] => at[g][n] = Empty
      <4>1. g = top /\ n > k => at[g][n] = Empty
        <5>1. n > k => ~(n <= k)
          BY <1>7
        <5> QED  BY <1>2, <5>1 DEF EndsAt
      <4> QED  BY <1>3, <1>6, <4>1
    <3> QED  BY <1>1, <3>1 DEF PlaceInv
  <2>3. \A x \in Writers : ~Holds(x)'
    BY <1>5 DEF Holds
  <2> QED  BY <2>1, <2>2, <2>3 DEF PlaceInv
<1>9. DownInv'
  BY <1>1 DEF DownInv
<1>10. SizeInv'
  <2> SUFFICES ASSUME NEW g \in files', g \notin cut' PROVE FileInv(g)'
    BY DEF SizeInv
  <2>1. g \in files /\ g \in Fid /\ g \notin cut /\ length[g] \in Nat /\ FileInv(g)
    BY <1>1 DEF TypeOK, SizeInv
  <2>2. Due(g)' \in Nat
    <3>1. Copies(g)' = {} /\ Holding(g)' = {}
      BY <1>1, <1>5 DEF Copies, ControlInv, Holding
    <3> QED  BY <3>1, FS_EmptySet DEF Due
  <2>3. length[g] <= length'[g] /\ size'[g] = length[g] /\ length'[g] \in Nat
    BY <1>1, <2>1
  <2>4. pos'[g] <= length[g] /\ pos'[g] \in Nat
    <3>1. CASE g = top
      BY <1>2, <1>3, <1>7, <3>1 DEF EndsAt
    <3>2. CASE g # top
      BY <1>1, <2>1, <3>2
    <3> QED  BY <3>1, <3>2
  <2>5. ASSUME NEW c \in Block, NEW n \in Place, Placed(c, g, n)'
        PROVE  n <= length[g] /\ n \in Nat /\ at'[g][n] = c
    <3>1. Placed(c, g, n) /\ copying = {}
      BY <1>1, <1>4, <2>1, <2>5 DEF ControlInv
    <3> QED  BY <1>1, <2>1, <3>1 DEF FileInv
  <2>6. \A n \in Nat : n <= length[g] => n <= length'[g] /\ n <= size'[g] + Due(g)'
    BY <2>1, <2>2, <2>3
  <2>7. \A n \in Place : ~(length'[g] < n /\ n <= pos'[g])
    BY <2>1, <2>3, <2>4
  <2> QED  BY <2>4, <2>5, <2>6, <2>7 DEF FileInv
<1> QED  BY <1>8, <1>9, <1>10
(***************************************************************************)
(* The invariant and the theorems.                                         *)
(***************************************************************************)
(* A new directory. *)
LEMMA InitVInv == Init => VInv
<1> SUFFICES ASSUME Init PROVE VInv
  OBVIOUS
<1> USE Numbers, ValueLogAssumption
<1>1. TypeOK
  <2>1. NoFlush \in FlushType /\ 0 \in 0..MaxBlocks
    BY DEF NoFlush, FlushType
  <2>2. budget \in [stop : 0..MaxStops, fail : 0..MaxFailures]
    BY DEF Init
  <2>3. flushing \in [Block -> FlushType]
    BY <2>1 DEF Init
  <2>4. /\ length \in [Fid -> Place \cup {0}]
        /\ at \in [Fid -> [Place -> Block \cup {Empty, Torn}]]
    BY DEF Init
  <2>5. /\ pos \in [Fid -> Place \cup {0}] /\ size \in [Fid -> Nat] /\ files \subseteq Fid
        /\ wpc \in [Writers -> WriterPC]
        /\ wfile \in [Writers -> Fid] /\ wend \in [Writers -> Place \cup {0}]
        /\ wblock \in [Writers -> Block \cup {0}]
    BY DEF Init, WriterPC
  <2>6. /\ ptr \in [Block -> (Fid \X Place) \cup {NoPtr}]
        /\ copying \subseteq Fid \X Place \X Block
    BY DEF Init
  <2> QED  BY <2>1, <2>2, <2>3, <2>4, <2>5, <2>6 DEF Init, TypeOK, FlushType
<1>2. IsTop(1) /\ files # {} /\ up /\ maxFid = 1
  BY DEF Init, IsTop
<1>3. \A w \in Writers : ~Takes(w) /\ ~Holds(w)
  BY DEF Init, Takes, Holds
<1>4. ControlInv
  BY <1>2, <1>3 DEF Init, ControlInv
<1>5. \A f \in Fid : pos[f] = 0 /\ Holding(f) = {} /\ Cardinality(Holding(f)) = 0
  BY FS_EmptySet DEF Init, Holding
<1>6. CountInv
  BY <1>5 DEF CountInv
<1>7. BlockInv
  BY DEF Init, BlockInv
<1>8. \A b \in Block, f \in Fid, n \in Place : ~Claim(b, f, n)
  <2>1. \A f \in Fid, n \in Place : NoPtr # <<f, n>>
    BY DEF NoPtr, Fid
  <2> QED  BY <1>3, <2>1 DEF Init, Claim
<1>9. \A f \in Fid, n \in Place : at[f][n] = Empty
  BY DEF Init
<1>10. MappedInv /\ PlaceInv /\ DownInv
  BY <1>2, <1>3, <1>8, <1>9 DEF MappedInv, PlaceInv, DownInv
<1>11. SizeInv
  <2>1. \A f \in Fid : length[f] \in Nat /\ size[f] \in Nat /\ Due(f) \in Nat
    BY <1>1, CopiesFinite DEF TypeOK
  <2>2. files \subseteq Fid
    BY <1>1 DEF TypeOK
  <2>3. \A f \in Fid : FileInv(f)
    <3> SUFFICES ASSUME NEW f \in Fid PROVE FileInv(f)
      OBVIOUS
    <3>1. \A n \in Place : ~(length[f] < n /\ n <= pos[f])
      BY <1>5, <2>1
    <3>2. pos[f] <= size[f] + Due(f)
      BY <1>5, <2>1
    <3> QED  BY <1>8, <3>1, <3>2, PlacedClaim DEF FileInv
  <2> QED  BY <2>2, <2>3 DEF SizeInv
<1> QED  BY <1>1, <1>4, <1>6, <1>7, <1>10, <1>11 DEF VInv

(* Every step keeps it: one case per action. *)
LEMMA NextVInv == VInv /\ [Next]_vars => VInv'
<1> SUFFICES ASSUME VInv, [Next]_vars PROVE VInv'
  OBVIOUS
<1>1. BasicInv /\ (~lossy => SafeInv)
  BY DEF VInv, BasicInv, SafeInv
<1>2. TypeOK'
  BY <1>1, TypeNext DEF BasicInv
<1> SUFFICES BasicKept /\ (~lossy' => SafeInv')
  BY <1>2 DEF VInv, SafeInv, BasicKept
<1>3. ASSUME NEW w \in Writers, WriteBlock(w) \/ StoreOffset(w) \/ ValidateWriteSize(w)
                                \/ Flush(w) \/ CreateFails(w) \/ GrowFails(w)
                                \/ (CheckLength(w) /\ wend[w] >= length[wfile[w]])
      PROVE  BasicKept /\ (~lossy' => SafeInv')
  <2>1. lossy' = lossy
    BY <1>3 DEF WriteBlock, StoreOffset, ValidateWriteSize, Flush, CreateFails, GrowFails,
                CheckLength
  <2>2. BasicKept
    BY <1>1, <1>2, <1>3, WriteBlockBasic, StoreBasic, QuietStepsBasic
  <2> QED  BY <1>1, <1>2, <1>3, <2>1, <2>2, WriterSafe
<1>4. ASSUME NEW w \in Writers, CreateValueFile(w)
      PROVE  BasicKept /\ (~lossy' => SafeInv')
  <2>1. lossy' = lossy
    BY <1>4 DEF CreateValueFile
  <2> QED  BY <1>1, <1>2, <1>4, <2>1, CreateBasic, CreateSafe
<1>5. ASSUME NEW w \in Writers, TakePlace(w)
      PROVE  BasicKept /\ (~lossy' => SafeInv')
  <2>1. lossy' = lossy
    BY <1>5 DEF TakePlace
  <2> QED  BY <1>1, <1>2, <1>5, <2>1, TakeBasic, TakeSafe
<1>6. ASSUME NEW w \in Writers, Grow(w) \/ (CheckLength(w) /\ ~(wend[w] >= length[wfile[w]]))
      PROVE  BasicKept /\ (~lossy' => SafeInv')
  <2>1. lossy' = lossy
    BY <1>6 DEF Grow, CheckLength
  <2> QED  BY <1>1, <1>2, <1>6, <2>1, StartStepsBasic, StartStepsSafe
<1>7. ASSUME NEW w \in Writers, RollBack(w)
      PROVE  BasicKept /\ (~lossy' => SafeInv')
  <2>1. ~lossy' => ~lossy
    BY <1>7 DEF RollBack
  <2> QED  BY <1>1, <1>2, <1>7, <2>1, BackBasic, BackSafe
<1>8. ASSUME NEW f \in Fid, NEW n \in Place, NEW b \in Block, Copy(f, n, b)
      PROVE  BasicKept /\ (~lossy' => SafeInv')
  <2>1. lossy' = lossy
    BY <1>8 DEF Copy
  <2> QED  BY <1>1, <1>2, <1>8, <2>1, BehindBasic, CopySafe
<1>9. ASSUME NEW b \in Block, FlushSync(b) \/ FlushTruncate(b) \/ FlushFails(b)
      PROVE  BasicKept /\ (~lossy' => SafeInv')
  <2>1. lossy' = lossy
    BY <1>9, Zenon DEF FlushSync, FlushTruncate, FlushFails
  <2>2. BasicKept
    BY <1>1, <1>2, <1>9, BehindBasic
  <2> QED  BY <1>1, <1>2, <1>9, <2>1, <2>2, FlushSafe
<1>10. CASE Crash \/ Panic \/ Close
  <2>1. ~lossy' => ~lossy
    BY <1>10 DEF Crash, Panic, Close, Stop
  <2> QED  BY <1>1, <1>2, <1>10, <2>1, EndBasic, EndSafe
<1>11. CASE Open
  <2>1. lossy' = lossy
    BY <1>11 DEF Open
  <2> QED  BY <1>1, <1>2, <1>11, <2>1, OpenBasic, OpenSafe
<1>12. CASE UNCHANGED vars
  <2>1. /\ ControlInv' <=> ControlInv
        /\ CountInv' <=> CountInv
        /\ BlockInv' <=> BlockInv
        /\ MappedInv' <=> MappedInv
    BY <1>12 DEF vars, ControlInv, CountInv, BlockInv, MappedInv, Claim, Placed, Reached, IsTop,
                 Takes, Holds, Holding
  <2>2. SafeInv' <=> SafeInv
    BY <1>12 DEF vars, SafeInv, PlaceInv, DownInv, SizeInv, FileInv, EndsAt, Claim, Placed,
                 InUse, IsTop, Copies, Due, Takes, Holds, Holding
  <2>3. lossy' = lossy
    BY <1>12 DEF vars
  <2> QED  BY <1>1, <2>1, <2>2, <2>3 DEF BasicInv, BasicKept
<1>13. ASSUME NEW w \in Writers,
              \/ WriteBlock(w) \/ ValidateWriteSize(w) \/ Flush(w) \/ CreateValueFile(w)
              \/ CreateFails(w) \/ TakePlace(w) \/ CheckLength(w) \/ Grow(w) \/ GrowFails(w)
              \/ RollBack(w) \/ StoreOffset(w)
       PROVE  BasicKept /\ (~lossy' => SafeInv')
  BY <1>3, <1>4, <1>5, <1>6, <1>7, <1>13
<1> QED
  BY <1>8, <1>9, <1>10, <1>11, <1>12, <1>13 DEF Next

(* The inductive invariant holds of every behaviour of the value files. *)
THEOREM ValueLogInvariance == Spec => []VInv
  BY InitVInv, NextVInv, PTL DEF Spec

(* Every variable of the value files keeps its type: no place beyond the mapping is used,
   pos never goes below zero when a place is given back, and restoreValueFile always finds
   an end. *)
THEOREM ValueLogTypes == Spec => []TypeOK
<1>1. VInv => TypeOK
  BY DEF VInv
<1> QED  BY <1>1, ValueLogInvariance, PTL

(* A pointer never leads to the block of another key (ValueFile.WriteBlock, whose steps
   interleave with those of other writers, its rollback, restoreValueFile), under the
   conditions of OwnBlock, for any number of writers, files, failures, crashes and closings. *)
THEOREM PointersLeadToTheirBlocks == Spec => []OwnBlock
<1>1. VInv => OwnBlock
  <2> SUFFICES ASSUME VInv, ~lossy, NEW b \in Block, ptr[b] # NoPtr
               PROVE  at[ptr[b][1]][ptr[b][2]] \in {b, Empty}
    BY DEF OwnBlock, Returned
  <2>1. ptr[b] \in Fid \X Place
    BY DEF VInv, TypeOK
  <2>2. PICK f \in Fid, n \in Place : ptr[b] = <<f, n>>
    BY <2>1
  <2>3. Claim(b, f, n)
    BY <2>2 DEF Claim
  <2>4. at[f][n] \in {b, Empty}
    BY <2>3 DEF VInv, PlaceInv
  <2> QED  BY <2>2, <2>4
<1> QED  BY <1>1, ValueLogInvariance, PTL

(* In a file that was never made shorter, once the places taken in it are written or given
   back, VFileManager.Read finds every block below the offset: the writers that truncate the
   file in any order and fail to leave the count that readWithValPtr compares with no lower. *)
THEOREM BlocksAreReadBack == Spec => []ReadsBack
<1>1. VInv => ReadsBack
  <2> SUFFICES ASSUME VInv, up, ~lossy, NEW b \in Block, ptr[b] # NoPtr, Whole(ptr[b][1])
               PROVE  Read(b) \in {b, Nothing}
    BY DEF ReadsBack, Returned
  <2>1. ptr[b] \in Fid \X Place
    BY DEF VInv, TypeOK
  <2>2. PICK f \in Fid, n \in Place : ptr[b] = <<f, n>>
    BY <2>1
  <2>3. Placed(b, f, n) /\ ptr[b][1] = f /\ ptr[b][2] = n
    BY <2>2 DEF Placed
  <2>4. f \in files /\ f \notin cut /\ Copies(f) = {} /\ Holding(f) = {}
    BY <2>3 DEF Whole, Copies
  <2>5. Due(f) = 0 /\ <<f, n, b>> \notin copying
    BY <2>4, FS_EmptySet DEF Copies, Due
  <2>6. n <= length[f] /\ at[f][n] = b /\ n <= size[f] + 0
    BY <2>3, <2>4, <2>5 DEF VInv, SizeInv, FileInv
  <2>7. n \in Nat /\ size[f] \in Nat /\ length[f] \in Nat
    BY Numbers DEF VInv, TypeOK
  <2>8. ~(n > length[f]) /\ ~(n > size[f])
    BY <2>6, <2>7
  <2> QED  BY <2>3, <2>6, <2>8 DEF Read
<1> QED  BY <1>1, ValueLogInvariance, PTL
=============================================================================
