------------------------------ MODULE ValueLog ------------------------------
(***************************************************************************)
(* The value files of one life cycle: VFileManager and ValueFile.  Blocks  *)
(* that a flush separates from its SST file are written here by several    *)
(* encoding goroutines at once; the pointer to a block is returned before  *)
(* a goroutine has copied the block into the mapped file.                  *)
(*                                                                         *)
(* A block, with its header, key and checksum, takes one unit of a file;   *)
(* place n of a file ends at offset n.                                     *)
(***************************************************************************)
EXTENDS Naturals, FiniteSets, Functions

CONSTANTS
    Writers,      \* goroutines of cacheKeyIterator.encode
    MaxSize,      \* valueFileMaxSize
    MaxEntries,   \* valueFileMaxEntries
    MaxBlocks,    \* bound: blocks ever written
    MaxFid,       \* bound: value files ever created
    MaxPlace,     \* bound: the blocks a file can grow to
    MaxStops,     \* bound: crashes and calls of Engine.Close
    MaxFailures   \* bound: calls of the operating system that fail

ASSUME ValueLogAssumption ==
    /\ MaxSize \in Nat \ {0} /\ MaxEntries \in Nat /\ MaxBlocks \in Nat
    /\ MaxFid \in Nat \ {0} /\ MaxStops \in Nat
    /\ MaxPlace \in Nat /\ MaxPlace >= 2 * MaxSize
    /\ MaxFailures \in Nat /\ IsFiniteSet(Writers)

Block == 1..MaxBlocks
Fid   == 1..MaxFid
Place == 1..MaxPlace            \* a file is mapped with twice its maximal size, and grows
Empty == 0                      \* zeros
Torn  == MaxBlocks + 1          \* a block whose checksum is wrong

VARIABLES
    \* on disk, and mapped
    files,          \* filesMap: the value files that exist
    length,         \* length[f]: the length of f, of its mapping too
    at,             \* at[f][n]: what is at place n of f
    \* ValueFile and VFileManager
    pos, size,      \* f.pos, f.size
    maxFid, writeOffset, entries,   \* maxFid, writableLogOffset, numEntriesWritten
    \* goroutines
    wpc, wfile, wend, wblock,   \* writers: where, in which file, the end, of which block
    copying,        \* the copies started by ValueFile.WriteBlock: file, place, block
    flushing,       \* flushing[b]: the flush started by the writer of block b
    \* the process and observers
    up, written,    \* blocks ever given to WriteBlock
    ptr,            \* ptr[b]: the file and place of the pointer to b, when returned
    cut,            \* files once made shorter, or given a size below their length
    lossy,          \* a process ended with copies to make, a writeOffset too small or a hole,
                    \* or a place was given back that was not the last one taken
    budget

fileVars    == <<files, length, at, pos, size>>
managerVars == <<maxFid, writeOffset, entries>>
writerVars  == <<wpc, wfile, wend, wblock>>
clientVars  == <<up, written, ptr, cut, lossy>>
vars == <<fileVars, managerVars, writerVars, copying, flushing, clientVars, budget>>

NoPtr   == <<0, 0>>
NoFlush == [pc |-> "off", file |-> 1, to |-> 0]

WriterPC ==
    {"idle", "check", "flush", "create", "write", "length", "truncate", "rollback", "store"}

\* Every variable has its type: in particular no place beyond the mapping is used.
TypeOK ==
    /\ files \subseteq Fid /\ length \in [Fid -> Place \cup {0}]
    /\ at \in [Fid -> [Place -> Block \cup {Empty, Torn}]]
    /\ pos \in [Fid -> Place \cup {0}] /\ size \in [Fid -> Nat]
    /\ maxFid \in Fid \cup {0} /\ writeOffset \in Place \cup {0} /\ entries \in Nat
    /\ wpc \in [Writers -> WriterPC]
    /\ wfile \in [Writers -> Fid] /\ wend \in [Writers -> Place \cup {0}]
    /\ wblock \in [Writers -> Block \cup {0}]
    /\ copying \subseteq Fid \X Place \X Block
    /\ flushing \in [Block -> [pc : {"off", "sync", "truncate"}, file : Fid, to : Place \cup {0}]]
    /\ up \in BOOLEAN /\ lossy \in BOOLEAN /\ cut \subseteq Fid /\ written \in 0..MaxBlocks
    /\ ptr \in [Block -> (Fid \X Place) \cup {NoPtr}]
    /\ budget \in [stop : 0..MaxStops, fail : 0..MaxFailures]

\* A new directory: createValueFile makes the first file.
Init ==
    /\ files = {1} /\ maxFid = 1
    /\ length = [f \in Fid |-> IF f = 1 THEN 2 * MaxSize ELSE 0]
    /\ at = [f \in Fid |-> [n \in Place |-> Empty]]
    /\ pos = [f \in Fid |-> 0] /\ size = [f \in Fid |-> 0]
    /\ writeOffset = 0 /\ entries = 0
    /\ wpc = [w \in Writers |-> "idle"] /\ wfile = [w \in Writers |-> 1]
    /\ wend = [w \in Writers |-> 0] /\ wblock = [w \in Writers |-> 0]
    /\ copying = {} /\ flushing = [b \in Block |-> NoFlush]
    /\ up = TRUE /\ written = 0 /\ ptr = [b \in Block |-> NoPtr]
    /\ cut = {} /\ lossy = FALSE
    /\ budget = [stop |-> MaxStops, fail |-> MaxFailures]

Goto(w, pc) == wpc' = [wpc EXCEPT ![w] = pc]

\* The call is over, its variables are gone.
Return(w) ==
    /\ Goto(w, "idle")
    /\ wfile' = [wfile EXCEPT ![w] = 1]
    /\ wend' = [wend EXCEPT ![w] = 0]
    /\ wblock' = [wblock EXCEPT ![w] = 0]

(***************************************************************************)
(* VFileManager.WriteBlock.                                                *)
(***************************************************************************)

\* The writer reads which file is the current one.
WriteBlock(w) ==
    /\ up /\ wpc[w] = "idle" /\ written < MaxBlocks
    /\ written' = written + 1
    /\ wblock' = [wblock EXCEPT ![w] = written + 1]
    /\ wfile' = [wfile EXCEPT ![w] = maxFid]
    /\ Goto(w, "check")
    /\ UNCHANGED <<fileVars, managerVars, wend, copying, flushing, up, ptr, cut,
                   lossy, budget>>

ValidateWriteSize(w) ==
    /\ wpc[w] = "check"
    /\ Goto(w, IF writeOffset + 1 > MaxSize THEN "flush" ELSE "write")
    /\ UNCHANGED <<fileVars, managerVars, wfile, wend, wblock, copying, flushing, clientVars,
                   budget>>

\* flush, under fileWrite: the current file is good enough, or the flush of the writer's
\* file is started and a new file is created.
Flush(w) ==
    /\ wpc[w] = "flush" /\ \A x \in Writers : wpc[x] # "create"
    /\ IF writeOffset <= MaxSize /\ entries <= MaxEntries
         THEN /\ wfile' = [wfile EXCEPT ![w] = maxFid]
              /\ Goto(w, "write") /\ UNCHANGED flushing
         ELSE /\ maxFid < MaxFid                                  \* bound
              /\ flushing' = [flushing EXCEPT ![wblock[w]] =
                                [pc |-> "sync", file |-> wfile[w], to |-> 0]]
              /\ Goto(w, "create") /\ UNCHANGED wfile
    /\ UNCHANGED <<fileVars, managerVars, wend, wblock, copying, clientVars, budget>>

CreateValueFile(w) ==
    /\ wpc[w] = "create"
    /\ files' = files \cup {maxFid + 1}
    /\ length' = [length EXCEPT ![maxFid + 1] = 2 * MaxSize]
    /\ maxFid' = maxFid + 1
    /\ writeOffset' = 0
    /\ entries' = 0
    /\ wfile' = [wfile EXCEPT ![w] = maxFid + 1]
    /\ Goto(w, "write")
    /\ UNCHANGED <<at, pos, size, wend, wblock, copying, flushing, clientVars, budget>>

\* The file cannot be created: the block is refused, the flush goes on.
CreateFails(w) ==
    /\ wpc[w] = "create" /\ budget.fail > 0
    /\ budget' = [budget EXCEPT !.fail = @ - 1]
    /\ Return(w)
    /\ UNCHANGED <<fileVars, managerVars, copying, flushing, clientVars>>

\* ValueFile.Truncate, unless f has that length already.
Truncate(f, to) ==
    /\ length' = [length EXCEPT ![f] = to]
    /\ size' = [size EXCEPT ![f] = IF length[f] = to THEN @ ELSE to]
    /\ at' = [at EXCEPT ![f] = [n \in Place |-> IF n <= to THEN @[n] ELSE Empty]]

Cut(f, to) == cut' = IF to < length[f] THEN cut \cup {f} ELSE cut

\* ValueFile.WriteBlock holds no lock: a place is taken from pos,
TakePlace(w) ==
    LET p == pos[wfile[w]] + 1 IN
    /\ wpc[w] = "write" /\ p \in Place                            \* bound
    /\ pos' = [pos EXCEPT ![wfile[w]] = p]
    /\ wend' = [wend EXCEPT ![w] = p]
    /\ Goto(w, "length")
    /\ UNCHANGED <<files, length, at, size, managerVars, wfile, wblock, copying, flushing,
                   clientVars, budget>>

\* the goroutine that copies the block is started,
StartCopy(w) ==
    /\ copying' = copying \cup {<<wfile[w], wend[w], wblock[w]>>}
    /\ Goto(w, "store")

\* at once where the mapping is long enough,
CheckLength(w) ==
    /\ wpc[w] = "length"
    /\ IF wend[w] >= length[wfile[w]]
         THEN Goto(w, "truncate") /\ UNCHANGED copying
         ELSE StartCopy(w)
    /\ UNCHANGED <<fileVars, managerVars, wfile, wend, wblock, flushing, clientVars, budget>>

\* or once the file ends where the place does.  Another writer may have made it longer in
\* between, and is cut off.
Grow(w) ==
    /\ wpc[w] = "truncate" /\ length[wfile[w]] > 0
    /\ Truncate(wfile[w], wend[w]) /\ Cut(wfile[w], wend[w])
    /\ StartCopy(w)
    /\ UNCHANGED <<files, pos, managerVars, wfile, wend, wblock, flushing, up, written, ptr,
                   lossy, budget>>

\* What a Truncate that fails before it unmaps the file has done: size is set (the Stat of
\* an open file does not fail).
SetSize(f, to) ==
    /\ size' = [size EXCEPT ![f] = to] /\ Cut(f, to)
    /\ UNCHANGED <<files, length, at, pos>>

\* A file of length 0 has no mapping, which always fails; so does the second of two
\* writers that truncate at once.
GrowFails(w) ==
    /\ wpc[w] = "truncate" /\ length[wfile[w]] # wend[w]
    /\ IF length[wfile[w]] = 0 THEN UNCHANGED budget
       ELSE budget.fail > 0 /\ budget' = [budget EXCEPT !.fail = @ - 1]
    /\ SetSize(wfile[w], wend[w])
    /\ Goto(w, "rollback")
    /\ UNCHANGED <<managerVars, wfile, wend, wblock, copying, flushing, up, written, ptr, lossy>>

\* pos goes back by one place, whichever was taken last, and the block is refused.
RollBack(w) ==
    LET f == wfile[w] IN
    /\ wpc[w] = "rollback"
    /\ pos' = [pos EXCEPT ![f] = @ - 1]
    /\ lossy' = (lossy \/ pos[f] # wend[w])
    /\ Return(w)
    /\ UNCHANGED <<files, length, at, size, managerVars, copying, flushing, up, written, ptr,
                   cut, budget>>

\* Back in the manager: writableLogOffset is set, the pointer returned.  numEntriesWritten
\* is incremented without a lock.
StoreOffset(w) ==
    /\ wpc[w] = "store"
    /\ writeOffset' = wend[w]
    /\ entries' \in {entries, entries + 1}
    /\ ptr' = [ptr EXCEPT ![wblock[w]] = <<wfile[w], wend[w]>>]
    /\ Return(w)
    /\ UNCHANGED <<fileVars, maxFid, copying, flushing, up, written, cut, lossy, budget>>

(***************************************************************************)
(* The goroutines behind: copies and flushes.                              *)
(***************************************************************************)

CopyUncounted(f, n, b) ==                                        \* mutant: size is not updated
    /\ <<f, n, b>> \in copying /\ n - 1 <= length[f]
    /\ copying' = copying \ {<<f, n, b>>}
    /\ at' = [at EXCEPT ![f][n] = IF n <= length[f] THEN b ELSE @]
    /\ UNCHANGED <<files, length, pos, size, managerVars, writerVars, flushing, clientVars,
                   budget>>

\* One block is copied, as far as the mapping goes; size counts the copies.  A copy that
\* overlaps a remapping faults, which is a Crash.
Copy(f, n, b) ==
    /\ <<f, n, b>> \in copying /\ n - 1 <= length[f]
    /\ copying' = copying \ {<<f, n, b>>}
    /\ at' = [at EXCEPT ![f][n] = IF n <= length[f] THEN b ELSE @]
    /\ size' = [size EXCEPT ![f] = @ + 1]
    /\ UNCHANGED <<files, length, pos, managerVars, writerVars, flushing, clientVars, budget>>

\* ValueFile.Flush: the offset is read when the goroutine runs, then the file is synced;
FlushSync(b) ==
    /\ flushing[b].pc = "sync"
    /\ flushing' = [flushing EXCEPT ![b] = [@ EXCEPT !.pc = "truncate", !.to = writeOffset]]
    /\ UNCHANGED <<fileVars, managerVars, writerVars, copying, clientVars, budget>>

\* and truncated to it, under the lock of the file.
FlushTruncate(b) ==
    /\ flushing[b].pc = "truncate"
    /\ Truncate(flushing[b].file, flushing[b].to) /\ Cut(flushing[b].file, flushing[b].to)
    /\ flushing' = [flushing EXCEPT ![b] = NoFlush]
    /\ UNCHANGED <<files, pos, managerVars, writerVars, copying, up, written, ptr, lossy, budget>>

\* An error of either is logged.
FlushFails(b) ==
    /\ flushing[b].pc # "off" /\ budget.fail > 0
    /\ budget' = [budget EXCEPT !.fail = @ - 1]
    /\ IF flushing[b].pc = "sync" THEN UNCHANGED <<fileVars, cut>>
       ELSE SetSize(flushing[b].file, flushing[b].to)
    /\ flushing' = [flushing EXCEPT ![b] = NoFlush]
    /\ UNCHANGED <<managerVars, writerVars, copying, up, written, ptr, lossy>>

(***************************************************************************)
(* The end of the process and the next one.                                *)
(***************************************************************************)
Hole(f) == \E n \in 1..pos[f] : at[f][n] = Empty

Stop ==
    /\ up' = FALSE
    /\ lossy' = (lossy \/ copying # {} \/ writeOffset < pos[maxFid] \/ Hole(maxFid))
    /\ pos' = [f \in Fid |-> 0] /\ size' = [f \in Fid |-> 0]
    /\ maxFid' = 0 /\ writeOffset' = 0 /\ entries' = 0
    /\ wpc' = [w \in Writers |-> "idle"] /\ wfile' = [w \in Writers |-> 1]
    /\ wend' = [w \in Writers |-> 0] /\ wblock' = [w \in Writers |-> 0]
    /\ copying' = {} /\ flushing' = [b \in Block |-> NoFlush]
    /\ UNCHANGED <<files, written, ptr, cut>>

\* A copy that was being made may be torn.
Crash ==
    /\ up /\ budget.stop > 0
    /\ budget' = [budget EXCEPT !.stop = @ - 1]
    /\ \E torn \in SUBSET {c \in copying : c[2] <= length[c[1]]} :
         at' = [f \in Fid |-> [n \in Place |->
                  IF \E c \in torn : c[1] = f /\ c[2] = n THEN Torn ELSE at[f][n]]]
    /\ Stop
    /\ UNCHANGED length

\* A copy that begins beyond the end of the mapping panics.
Panic ==
    /\ \E c \in copying : c[2] - 1 > length[c[1]]
    /\ Stop
    /\ UNCHANGED <<length, at, budget>>

\* VFileManager.Close: the last file is cut at writableLogOffset; copies still to be made
\* find no mapping.  The flushes of memtables, and with them the writers, have ended.
Close ==
    /\ up /\ budget.stop > 0 /\ \A w \in Writers : wpc[w] = "idle"
    /\ budget' = [budget EXCEPT !.stop = @ - 1]
    /\ length' = [length EXCEPT ![maxFid] = writeOffset]
    /\ at' = [at EXCEPT ![maxFid] = [n \in Place |-> IF n <= writeOffset THEN @[n] ELSE Empty]]
    /\ Stop

RestoredPast(f) ==                                               \* mutant: one place too far
    Cardinality({n \in Place : at[f][n] # Empty}) + 1

RestoredNone(f) == 0                                             \* mutant: starts at the front

\* restoreValueFile: up to the first header of zeros, or past the first wrong checksum.
Restored(f) ==
    CHOOSE n \in Place \cup {0} :
      /\ \A m \in 1..n : m <= length[f] /\ at[f][m] # Empty
      /\ \A m \in 1..n : at[f][m] = Torn => m = n
      /\ \/ n > 0 /\ at[f][n] = Torn
         \/ n = length[f]
         \/ n < length[f] /\ at[f][n + 1] = Empty

\* NewVFileManager.  An empty file is removed, the last one mapped anew.
Open ==
    /\ ~up
    /\ up' = TRUE
    /\ maxFid' = CHOOSE f \in files : \A g \in files : g <= f
    /\ files' = {f \in files : length[f] > 0 \/ f = maxFid'}
    /\ length' = [length EXCEPT ![maxFid'] = IF @ = 0 THEN 2 * MaxSize ELSE @]
    /\ size' = [f \in Fid |-> IF f \in files THEN length[f] ELSE 0]
    /\ pos' = [pos EXCEPT ![maxFid'] = Restored(maxFid')]
    /\ writeOffset' = length[maxFid']
    /\ UNCHANGED <<at, entries, writerVars, copying, flushing, written, ptr, cut, lossy,
                   budget>>

-----------------------------------------------------------------------------
Next ==
    \/ \E w \in Writers :
         \/ WriteBlock(w) \/ ValidateWriteSize(w) \/ Flush(w) \/ CreateValueFile(w)
         \/ CreateFails(w) \/ TakePlace(w) \/ CheckLength(w) \/ Grow(w) \/ GrowFails(w)
         \/ RollBack(w) \/ StoreOffset(w)
    \/ \E f \in Fid, n \in Place, b \in Block : Copy(f, n, b)
    \/ \E b \in Block : FlushSync(b) \/ FlushTruncate(b) \/ FlushFails(b)
    \/ Crash \/ Panic \/ Close \/ Open

Spec == Init /\ [][Next]_vars

(***************************************************************************)
(* Properties.                                                             *)
(***************************************************************************)
Returned == {b \in Block : ptr[b] # NoPtr}

\* What VFileManager.Read gives for the pointer to b: nothing and no error, an end of file,
\* or what is at its place.
Nothing   == MaxBlocks + 2
EndOfFile == MaxBlocks + 3

Read(b) ==
    LET f == ptr[b][1]
        n == ptr[b][2]
    IN IF f \notin files \/ (f = maxFid /\ n > writeOffset) THEN Nothing
       ELSE IF n > length[f] \/ n > size[f] THEN EndOfFile
       ELSE at[f][n]

\* A pointer never leads to the block of another key, whatever the writers, the flushes
\* and a crash do, as long as no process ended before its copies were made and its last
\* offset stored, or with a hole in its last file: places below pos that were cut or never
\* written; and as long as a writer whose Truncate fails gives back the last place taken,
\* not one below another writer's (the atomic pos of ValueFile.WriteBlock, its rollback,
\* restoreValueFile).
OwnBlock == ~lossy => \A b \in Returned : at[ptr[b][1]][ptr[b][2]] \in {b, Empty}

\* In a file that was never made shorter, by a flush or by a writer that truncates after one
\* with a higher place, once every place taken in it is written or given back, every block
\* below the offset is read back (size counts the copies and is set by Truncate, also one
\* that fails; readWithValPtr compares with it).
Holding(f) == {w \in Writers : wpc[w] \in {"length", "truncate", "rollback"} /\ wfile[w] = f}
Whole(f) ==
    /\ f \in files /\ f \notin cut
    /\ Holding(f) = {} /\ \A c \in copying : c[1] # f
ReadsBack ==
    up /\ ~lossy => \A b \in Returned :
        Whole(ptr[b][1]) => Read(b) \in {b, Nothing}
=============================================================================
