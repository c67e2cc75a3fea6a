------------------------------ MODULE MemFlush ------------------------------
(***************************************************************************)
(* The write path of the engine: Engine.WriteBatch, MemManager (one mutable *)
(* memtable, a list of immutable ones, the flush channel), the write-ahead  *)
(* log of each memtable, the goroutine that turns immutable memtables into  *)
(* SST files (Engine.compactMemTable, Compactor.WriteSnapshot and           *)
(* FileStore.replace), and NewEngine/Open/Close around a crash or a power   *)
(* loss.                                                                    *)
(*                                                                          *)
(* A write is a number, given in the order records enter a log; it stands   *)
(* for one WriteBatch.  One record is one unit of WAL position and of cache *)
(* size, except while a log is replayed: see restoreMemTables below.        *)
(* Deletes are not in this module.                                          *)
(***************************************************************************)
EXTENDS Naturals, Sequences, FiniteSets

CONSTANTS
    Writers,          \* goroutines that call Engine.WriteBatch
    MaxMemTableSize,  \* option.MaxMemTableSize, in records
    NumMemTables,     \* option.NumMemTables, the capacity of flushCh
    SyncWrite,        \* option.SyncWrite: msync the WAL before a write returns
    Uneven,           \* the writes of several keys: logged again, they may take other bytes
    MaxWrites,        \* bound: records ever logged
    MaxFid,           \* bound: memtables ever created
    MaxGen,           \* bound: SST generations ever allocated
    MaxCrashes,       \* bound: crashes and power losses
    MaxFailures,      \* bound: failed file operations
    MaxToggles,       \* bound: calls of SetCompactionsEnabled(false) by the application
    MaxConflicts,     \* bound: writes refused for a field type conflict
    MaxQueries,       \* bound: queries
    MaxCloses         \* bound: calls of Engine.Close

ASSUME ConstantsAssumption ==
    /\ MaxMemTableSize \in Nat \ {0}
    /\ NumMemTables \in Nat \ {0}
    /\ SyncWrite \in BOOLEAN
    /\ Uneven \subseteq 1..MaxWrites
    /\ MaxWrites \in Nat /\ MaxFid \in Nat /\ MaxGen \in Nat
    /\ MaxCrashes \in Nat /\ MaxFailures \in Nat /\ MaxToggles \in Nat
    /\ MaxConflicts \in Nat /\ MaxQueries \in Nat /\ MaxCloses \in Nat

Write == 1..MaxWrites
Fid   == 1..MaxFid
Part  == 1..2                       \* the files one snapshot is rotated over
File  == (1..MaxGen) \X Part        \* an SST file: generation and sequence
NoFid == 0                          \* a nil *MemTable, or no WAL

VARIABLES
    \* on disk
    walFiles,    \* the .wal files that exist
    walOf,       \* walOf[w]: the WAL whose log holds record w
    synced,      \* the records msync has made durable
    sst,         \* sst[f]: the records written to SST file f
    tmpFiles,    \* SST files under their .sst.tmp name
    sstFiles,    \* SST files under their .sst name: live on restart
    \* MemManager
    mem, imm, nextMemFid, flushCh, chClosed, wg,
    cached,      \* the records in the memtables' caches
    refs,        \* Cache.ref of each memtable
    iters,       \* iterators on a memtable's cache that are still to be closed
    \* Engine, Compactor, FileStore
    phase, toSend, globbed, snapDone, snapshotsEnabled, files, currentGeneration,
    replay,      \* the WAL being replayed, and where the copy that replay writes stands
    \* the goroutine of compactMemTable
    pc, mt, todo,
    \* writers, the query and observers
    wpc, wid, nWrites, acked, conflicts, query, budget,
    exposed      \* the records a replay has rewritten, or has begun to

diskVars    == <<walFiles, walOf, synced, sst, tmpFiles, sstFiles>>
memVars     == <<mem, imm, nextMemFid, flushCh, chClosed, wg, cached, refs, iters>>
engineVars  == <<phase, toSend, globbed, snapDone, snapshotsEnabled, files, currentGeneration,
                 replay>>
flusherVars == <<pc, mt, todo>>
clientVars  == <<wpc, wid, nWrites, acked, conflicts, query, exposed>>
vars == <<diskVars, memVars, engineVars, flusherVars, clientVars, budget>>

Phases == {"down", "replaying", "restored", "new", "opening", "cleaning", "up", "closing",
           "failed",     \* Open has returned an error
           "broken"}     \* NewEngine has returned an error

\* Where a replay writes the next record: where it reads it (level), before or past
\* that place, or nowhere (no WAL is being replayed).
Places == {"closed", "level", "behind", "ahead"}

DiskType ==
    /\ walFiles \subseteq Fid
    /\ walOf \in [Write -> Fid \cup {NoFid}]
    /\ synced \subseteq Write
    /\ sst \in [File -> SUBSET Write]
    /\ tmpFiles \subseteq File
    /\ sstFiles \subseteq File

MemType ==
    /\ mem \in Fid \cup {NoFid}
    /\ imm \in Seq(Fid)
    /\ nextMemFid \in Nat
    /\ flushCh \in Seq(Fid)
    /\ chClosed \in BOOLEAN
    /\ wg \in Nat

CacheType ==
    /\ cached \subseteq Write
    /\ refs \in [Fid -> Nat]
    /\ iters \in [Fid -> Nat]

EngineType ==
    /\ phase \in Phases
    /\ toSend \in Seq(Fid)
    /\ globbed \subseteq File
    /\ snapDone \in {"nil", "open", "closed"}
    /\ snapshotsEnabled \in BOOLEAN
    /\ files \subseteq File
    /\ currentGeneration \in Nat
    /\ replay \in [fid : Fid \cup {NoFid}, at : Places]

FlusherType ==
    /\ pc \in {"off", "loop", "recv", "check", "snap", "encode", "rename", "install", "flushed"}
    /\ mt \in Fid \cup {NoFid}
    /\ todo \subseteq Part

WriterType ==
    /\ wpc \in [Writers -> {"idle", "ensure", "write", "logged"}]
    /\ wid \in [Writers -> Write \cup {0}]
    /\ nWrites \in 0..MaxWrites
    /\ acked \subseteq Write
    /\ conflicts \subseteq Write
    /\ exposed \subseteq Write

ObserverType ==
    /\ query \in [pc : {"idle", "memory", "done"}, before : SUBSET Write, got : SUBSET Write]
    /\ budget \in [crash : 0..MaxCrashes, failure : 0..MaxFailures, toggle : 0..MaxToggles,
                   conflict : 0..MaxConflicts, query : 0..MaxQueries, close : 0..MaxCloses]

\* Every variable has its type: no counter goes negative, no reference is lost below zero.
TypeOK == /\ DiskType /\ MemType /\ CacheType /\ EngineType /\ FlusherType
          /\ WriterType /\ ObserverType

Spend(what) == budget[what] > 0 /\ budget' = [budget EXCEPT ![what] = @ - 1]

Running == phase \in {"opening", "cleaning", "up", "closing"}

\* The mutex of MemManager is held by the writer that has logged and not yet
\* applied its record; every other user of the mutex is a single action.
MemManagerUnlocked == \A w \in Writers : wpc[w] # "logged"

ImmSet == {imm[i] : i \in DOMAIN imm}

LoggedIn(f) == {w \in Write : walOf[w] = f}
InTable(f)  == {w \in cached : walOf[w] = f}
InFiles(fs) == {w \in Write : \E f \in fs : w \in sst[f]}

\* The records that are whole in a log or in a live SST file.
OnDisk == {w \in Write : walOf[w] # NoFid} \cup InFiles(sstFiles)

\* The acknowledged writes, without those that a replay has overwritten.
Kept == acked \ (exposed \ OnDisk)

(***************************************************************************)
(* Writing.                                                                *)
(***************************************************************************)


\* MemTable.IsFull: Cache.Size and wal.Pos both count one unit per record.
IsFull == Cardinality(LoggedIn(mem)) >= MaxMemTableSize

\* newMemTable: a fresh WAL file, a cache with one reference.
NewMemTable ==
    /\ nextMemFid \in Fid
    /\ mem' = nextMemFid
    /\ nextMemFid' = nextMemFid + 1
    /\ walFiles' = walFiles \cup {nextMemFid}
    /\ refs' = [refs EXCEPT ![nextMemFid] = 1]

WriteBatch(w) ==
    /\ phase = "up" /\ wpc[w] = "idle"
    /\ nWrites + Cardinality({x \in Writers : wpc[x] # "idle"}) < MaxWrites
    /\ wpc' = [wpc EXCEPT ![w] = "ensure"]
    /\ UNCHANGED <<diskVars, memVars, engineVars, flusherVars, wid, nWrites, acked,
                   conflicts, query, budget, exposed>>

\* EnsureMemForWrite finds room in the mutable memtable.
EnsureNotFull(w) ==
    /\ Running /\ wpc[w] = "ensure" /\ MemManagerUnlocked /\ mem # NoFid
    /\ ~IsFull
    /\ wpc' = [wpc EXCEPT ![w] = "write"]
    /\ UNCHANGED <<diskVars, memVars, engineVars, flusherVars, wid, nWrites, acked,
                   conflicts, query, budget, exposed>>

\* EnsureMemForWrite hands the full memtable over and creates another one.  While
\* flushCh is full the call returns ErrNoRoom and WriteBatch polls: no step.
Rotate(w) ==
    /\ Running /\ wpc[w] = "ensure" /\ MemManagerUnlocked /\ mem # NoFid
    /\ IsFull /\ Len(flushCh) < NumMemTables
    /\ flushCh' = Append(flushCh, mem)
    /\ wg' = wg + 1
    /\ imm' = Append(imm, mem)
    /\ wpc' = [wpc EXCEPT ![w] = "write"]
    /\ \/ NewMemTable /\ UNCHANGED budget
       \/ \* newMemTable fails: mm.mem is left nil, WriteBatch drops the error
          /\ Spend("failure")
          /\ mem' = NoFid
          /\ UNCHANGED <<nextMemFid, walFiles, refs>>
    /\ UNCHANGED <<walOf, synced, sst, tmpFiles, sstFiles, chClosed, cached, iters,
                   engineVars, flusherVars, wid, nWrites, acked, conflicts, query, exposed>>

\* MemManager.WriteMulti takes the mutex and MemTable.WriteMulti logs the record.
WriteLog(w) ==
    /\ Running /\ wpc[w] = "write" /\ MemManagerUnlocked /\ mem # NoFid
    /\ nWrites < MaxWrites
    /\ nWrites' = nWrites + 1
    /\ walOf' = [walOf EXCEPT ![nWrites + 1] = mem]
    /\ wid' = [wid EXCEPT ![w] = nWrites + 1]
    /\ wpc' = [wpc EXCEPT ![w] = "logged"]
    /\ UNCHANGED <<walFiles, synced, sst, tmpFiles, sstFiles, memVars, engineVars,
                   flusherVars, acked, conflicts, query, budget, exposed>>

NoSync == synced                                                 \* mutant: no msync

\* MemTable.SyncWAL flushes the whole log of the mutable memtable.
SyncWAL == IF SyncWrite THEN synced \cup LoggedIn(mem) ELSE synced

\* The rest of WriteMulti: Cache.Put, SyncWAL when asked for, and the write returns.
WriteApply(w) ==
    /\ Running /\ wpc[w] = "logged"
    /\ cached' = cached \cup {wid[w]}
    /\ synced' = SyncWAL
    /\ acked' = acked \cup {wid[w]}
    /\ wpc' = [wpc EXCEPT ![w] = "idle"]
    /\ wid' = [wid EXCEPT ![w] = 0]
    /\ UNCHANGED <<walFiles, walOf, sst, tmpFiles, sstFiles, mem, imm, nextMemFid, flushCh,
                   chClosed, wg, refs, iters, engineVars, flusherVars, nWrites, conflicts,
                   query, budget, exposed>>

\* Cache.Put refuses the value: the field has another type in this memtable.  The
\* record stays in the log and the client gets ErrFieldTypeConflict.
WriteConflict(w) ==
    /\ Running /\ wpc[w] = "logged"
    /\ InTable(mem) # {}
    /\ Spend("conflict")
    /\ conflicts' = conflicts \cup {wid[w]}
    /\ wpc' = [wpc EXCEPT ![w] = "idle"]
    /\ wid' = [wid EXCEPT ![w] = 0]
    /\ UNCHANGED <<diskVars, memVars, engineVars, flusherVars, nWrites, acked, query,
                   exposed>>

(***************************************************************************)
(* The flush goroutine.                                                    *)
(***************************************************************************)

DerefLeak(f) ==                                                  \* mutant: no handler
    /\ refs' = [refs EXCEPT ![f] = @ - 1]
    /\ UNCHANGED <<walFiles, walOf, cached>>

DerefEarly(f) ==                                                 \* mutant: no zero check
    /\ refs' = [refs EXCEPT ![f] = @ - 1]
    /\ walFiles' = walFiles \ {f}
    /\ walOf' = [w \in Write |-> IF walOf[w] = f THEN NoFid ELSE walOf[w]]
    /\ cached' = cached \ InTable(f)

\* Cache.Deref at zero: the handler deletes the WAL, the cache is dropped.
Deref(f) ==
    /\ refs' = [refs EXCEPT ![f] = @ - 1]
    /\ IF refs[f] = 1
         THEN /\ walFiles' = walFiles \ {f}
              /\ walOf' = [w \in Write |-> IF walOf[w] = f THEN NoFid ELSE walOf[w]]
              /\ cached' = cached \ InTable(f)
         ELSE UNCHANGED <<walFiles, walOf, cached>>

FlushLoopInverted ==                                             \* mutant: inverted test
    /\ pc = "loop"
    /\ pc' = IF snapDone = "closed" THEN "recv" ELSE "off"
    /\ UNCHANGED <<diskVars, memVars, engineVars, mt, todo, clientVars, budget>>

\* compactMemTable, top of the loop.
FlushLoop ==
    /\ pc = "loop"
    /\ pc' = IF snapDone = "closed" THEN "off" ELSE "recv"
    /\ UNCHANGED <<diskVars, memVars, engineVars, mt, todo, clientVars, budget>>

TakeFlushMemTableBlocks ==                                       \* mutant: ignores the close
    /\ pc = "recv" /\ flushCh # <<>>
    /\ mt' = Head(flushCh)
    /\ flushCh' = Tail(flushCh)
    /\ pc' = "check"
    /\ UNCHANGED <<diskVars, mem, imm, nextMemFid, chClosed, wg, cached, refs, iters,
                   engineVars, todo, clientVars, budget>>

\* TakeFlushMemTable blocks on the channel; a closed channel yields nil.
TakeFlushMemTable ==
    /\ pc = "recv"
    /\ \/ /\ flushCh # <<>>
          /\ mt' = Head(flushCh)
          /\ flushCh' = Tail(flushCh)
          /\ pc' = "check"
       \/ /\ flushCh = <<>> /\ chClosed
          /\ pc' = "off"
          /\ UNCHANGED <<mt, flushCh>>
    /\ UNCHANGED <<diskVars, mem, imm, nextMemFid, chClosed, wg, cached, refs, iters,
                   engineVars, todo, clientVars, budget>>

\* doCompactMemTable, top of its retry loop: on quit the memtable is given up.
FlushCheck ==
    /\ pc = "check"
    /\ IF snapDone = "closed"
         THEN pc' = "loop" /\ mt' = NoFid
         ELSE pc' = "snap" /\ UNCHANGED mt
    /\ UNCHANGED <<diskVars, memVars, engineVars, todo, clientVars, budget>>

CacheSplitNoRef ==                                               \* mutant: no Ref
    /\ iters' = [iters EXCEPT ![mt] = @ + 1]
    /\ UNCHANGED refs

\* Cache.Split: the iterator that encodes the cache holds a reference to it.
CacheSplit ==
    /\ iters' = [iters EXCEPT ![mt] = @ + 1]
    /\ refs' = [refs EXCEPT ![mt] = @ + 1]

\* WriteSnapshot up to the first temp file: a generation, an iterator that holds the
\* cache, and the file created with O_EXCL.  A cache of millions of keys is split into
\* up to four such parts, written at once; here there is one.
SnapshotStart ==
    /\ pc = "snap"
    /\ \/ ~snapshotsEnabled /\ pc' = "check"
          /\ UNCHANGED <<refs, iters, currentGeneration, tmpFiles>>
       \/ /\ snapshotsEnabled
          /\ currentGeneration < MaxGen
          /\ currentGeneration' = currentGeneration + 1
          /\ CacheSplit
          /\ tmpFiles' = tmpFiles \cup {<<currentGeneration + 1, 1>>}
          /\ pc' = IF <<currentGeneration + 1, 1>> \in tmpFiles THEN "check" ELSE "encode"
    /\ UNCHANGED <<walFiles, walOf, synced, sst, sstFiles, mem, imm, nextMemFid, flushCh,
                   chClosed, wg, cached, phase, toSend, globbed, snapDone, snapshotsEnabled,
                   files, mt, todo, clientVars, budget, replay>>

FirstFile == {<<currentGeneration, 1>>}                          \* mutant: one file only

\* The files WriteSnapshot has created under their temp names.
Snapshot == {<<currentGeneration, q>> : q \in Part}

\* writeNewFiles wrote every record of the cache, into one file or rotated over two.
\* If snapshots were disabled meanwhile the result is dropped and the files stay.
SnapshotWritten ==
    /\ pc = "encode"
    /\ \E q \in Part, first \in SUBSET InTable(mt) :
         LET second == InTable(mt) \ first
         IN /\ q = 1 => second = {}
            /\ q = 2 => first # {} /\ second # {} /\ <<currentGeneration, 2>> \notin tmpFiles
            /\ sst' = [sst EXCEPT ![<<currentGeneration, 1>>] = first,
                                  ![<<currentGeneration, 2>>] = second]
            /\ tmpFiles' = IF q = 1 THEN tmpFiles
                           ELSE tmpFiles \cup {<<currentGeneration, 2>>}
            /\ todo' = IF snapshotsEnabled THEN 1..q ELSE {}
            /\ pc' = IF snapshotsEnabled THEN "rename" ELSE "check"
    /\ UNCHANGED <<walFiles, walOf, synced, sstFiles, memVars, engineVars, mt, clientVars,
                   budget>>

\* writeNewFiles fails, or is interrupted, and removes its temp files.
SnapshotFailed ==
    /\ pc = "encode"
    /\ IF snapshotsEnabled THEN Spend("failure") ELSE UNCHANGED budget
    /\ tmpFiles' = tmpFiles \ Snapshot
    /\ pc' = "check"
    /\ UNCHANGED <<walFiles, walOf, synced, sst, sstFiles, memVars, engineVars, mt, todo,
                   clientVars>>

\* The second file exists, left by a crash: ErrCompactionInProgress, nothing is removed.
SnapshotCollides ==
    /\ pc = "encode"
    /\ <<currentGeneration, 2>> \in tmpFiles
    /\ \E u, v \in InTable(mt) : u # v
    /\ pc' = "check"
    /\ UNCHANGED <<diskVars, memVars, engineVars, mt, todo, clientVars, budget>>

NextPart(q) == \A p \in todo : q <= p

\* FileStore.replace makes the next temp file live on disk and opens it.
RenameTmp ==
    /\ pc = "rename"
    /\ \E q \in todo :
         /\ NextPart(q)
         /\ <<currentGeneration, q>> \in tmpFiles
         /\ tmpFiles' = tmpFiles \ {<<currentGeneration, q>>}
         /\ sstFiles' = sstFiles \cup {<<currentGeneration, q>>}
         /\ todo' = todo \ {q}
         /\ pc' = IF todo = {q} THEN "install" ELSE "rename"
    /\ UNCHANGED <<walFiles, walOf, synced, sst, memVars, engineVars, mt, clientVars,
                   budget>>

ReplaceFailedGivesUp ==                                          \* mutant: no retry
    /\ pc \in {"rename", "install"}
    /\ Spend("failure")
    /\ tmpFiles' = tmpFiles \ Snapshot
    /\ todo' = {} /\ mt' = NoFid
    /\ pc' = "loop"
    /\ UNCHANGED <<walFiles, walOf, synced, sst, sstFiles, memVars, engineVars, clientVars>>

\* replace returns an error from a rename, an open (renamed back) or SyncDir: the caller
\* removes the temp names it was given.  What was renamed before stays a .sst file.
ReplaceFailed ==
    /\ pc \in {"rename", "install"}
    /\ IF \E q \in todo : NextPart(q) /\ <<currentGeneration, q>> \notin tmpFiles
         THEN UNCHANGED budget
         ELSE Spend("failure")
    /\ tmpFiles' = tmpFiles \ Snapshot
    /\ todo' = {}
    /\ pc' = "check"
    /\ UNCHANGED <<walFiles, walOf, synced, sst, sstFiles, memVars, engineVars, mt,
                   clientVars>>

\* replace makes the new files visible to queries.
Install ==
    /\ pc = "install"
    /\ files' = files \cup (Snapshot \cap sstFiles)
    /\ pc' = "flushed"
    /\ UNCHANGED <<diskVars, memVars, phase, toSend, globbed, snapDone, snapshotsEnabled,
                   currentGeneration, mt, todo, clientVars, budget, replay>>

OnMemTableFlushed ==
    /\ pc = "flushed" /\ MemManagerUnlocked
    /\ IF imm # <<>> /\ Head(imm) = mt
         THEN imm' = Tail(imm) /\ wg' = wg - 1 /\ Deref(mt)
         ELSE UNCHANGED <<imm, wg, refs, walFiles, walOf, cached>>
    /\ pc' = "loop"
    /\ mt' = NoFid
    /\ UNCHANGED <<synced, sst, tmpFiles, sstFiles, mem, nextMemFid, flushCh, chClosed,
                   iters, engineVars, todo, clientVars, budget>>

\* The snapshot goroutine closes its iterator after it has sent its result, so this may
\* come after OnMemTableFlushed and be the last reference.
IterClose(f) ==
    /\ phase # "down"
    /\ iters[f] > IF pc = "encode" /\ mt = f THEN 1 ELSE 0
    /\ iters' = [iters EXCEPT ![f] = @ - 1]
    /\ Deref(f)
    /\ UNCHANGED <<synced, sst, tmpFiles, sstFiles, mem, imm, nextMemFid, flushCh, chClosed,
                   wg, engineVars, flusherVars, clientVars, budget>>

(***************************************************************************)
(* Opening, closing, stopping the flush goroutine, crashing.               *)
(***************************************************************************)

\* disableSnapshotCompactions up to its wait, under e.mu, which doCompactMemTable holds
\* around replace.  Called by the application, or by Close once the channel is closed.
DisableSnapshots ==
    /\ snapDone = "open" /\ pc \notin {"rename", "install"}
    /\ \/ phase = "up" /\ Spend("toggle")
       \/ phase = "closing" /\ chClosed /\ UNCHANGED budget
    /\ snapDone' = "closed"
    /\ snapshotsEnabled' = FALSE
    /\ UNCHANGED <<diskVars, memVars, phase, toSend, globbed, files, currentGeneration,
                   flusherVars, clientVars, replay>>

\* ... and after it: the goroutine has exited.
DisableSnapshotsDone ==
    /\ snapDone = "closed" /\ pc = "off"
    /\ snapDone' = "nil"
    /\ UNCHANGED <<diskVars, memVars, phase, toSend, globbed, snapshotsEnabled, files,
                   currentGeneration, flusherVars, clientVars, budget, replay>>

EnableSnapshots ==
    /\ phase = "up" /\ snapDone = "nil"
    /\ snapDone' = "open"
    /\ snapshotsEnabled' = TRUE
    /\ pc' = "loop"
    /\ UNCHANGED <<diskVars, memVars, phase, toSend, globbed, files, currentGeneration, mt,
                   todo, clientVars, budget, replay>>

(***************************************************************************)
(* restoreMemTables.  restoreFromWAL applies each record it reads with       *)
(* MemTable.WriteMulti, which logs it again, from position 0 of the file     *)
(* that is being read.  The copy of a write of one key has the bytes it was  *)
(* read from.  A write of several keys (Uneven) is encoded in the order of a *)
(* Go map: its copy may have other bytes, and, compressed, another length,   *)
(* so that the next copies land before or past the records they are read     *)
(* from.  The reader takes what the copies have damaged for the end of the   *)
(* log, as long as it does not hold it in its buffer already.                *)
(***************************************************************************)

NoReplay == [fid |-> NoFid, at |-> "closed"]

NewEngine ==
    /\ phase = "down"
    /\ phase' = "replaying"
    /\ replay' = NoReplay
    /\ UNCHANGED <<diskVars, memVars, toSend, globbed, snapDone, snapshotsEnabled, files,
                   currentGeneration, flusherVars, clientVars, budget>>

\* The records of a log that its replay may damage: an uneven one and all behind it.
Rewritten(f) == {w \in LoggedIn(f) : \E u \in Uneven \cap LoggedIn(f) : u <= w}

\* OpenMemTable: the next WAL, in the order of the fids, and a cache with one reference.
OpenMemTable ==
    /\ phase = "replaying" /\ replay.at = "closed"
    /\ \E f \in walFiles :
         /\ replay.fid < f
         /\ \A g \in walFiles : replay.fid < g => f <= g
         /\ replay' = [fid |-> f, at |-> "level"]
         /\ refs' = [refs EXCEPT ![f] = 1]
         /\ exposed' = exposed \cup Rewritten(f)
    /\ UNCHANGED <<diskVars, mem, imm, nextMemFid, flushCh, chClosed, wg, cached, iters, phase,
                   toSend, globbed, snapDone, snapshotsEnabled, files, currentGeneration,
                   flusherVars, wpc, wid, nWrites, acked, conflicts, query, budget>>

Unread == IF replay.at = "closed" THEN {} ELSE LoggedIn(replay.fid) \ cached
NextUnread(w) == w \in Unread /\ \A v \in Unread : w <= v

\* Logging w again: where the next copy goes, and whether these bytes are still the
\* ones msync has written.
Drift(w)    == IF w \in Uneven THEN Places \ {"closed"} ELSE {replay.at}
Relogged(w) == IF w \in Uneven \/ replay.at # "level" THEN synced \ {w} ELSE synced

\* A record is read, logged again and put into the cache.
ReplayRecord ==
    /\ phase = "replaying"
    /\ \E w \in Write \ conflicts :
         /\ NextUnread(w)
         /\ cached' = cached \cup {w}
         /\ synced' = Relogged(w)
         /\ \E at \in Drift(w) : replay' = [replay EXCEPT !.at = at]
    /\ UNCHANGED <<walFiles, walOf, sst, tmpFiles, sstFiles, mem, imm, nextMemFid, flushCh,
                   chClosed, wg, refs, iters, phase, toSend, globbed, snapDone,
                   snapshotsEnabled, files, currentGeneration, flusherVars, clientVars, budget>>

\* What is behind the last copy is cut off.
CutOff(lost) == walOf' = [w \in Write |-> IF w \in lost THEN NoFid ELSE walOf[w]]

\* WALReader meets bytes that a copy has overwritten: the error ends the loop and is
\* dropped, and with it the rest of the log.
ReplayBreaks ==
    /\ phase = "replaying" /\ replay.at = "ahead" /\ Unread # {}
    /\ CutOff(Unread)
    /\ UNCHANGED <<walFiles, synced, sst, tmpFiles, sstFiles, memVars, engineVars, flusherVars,
                   clientVars, budget>>

\* Cache.Put refuses the record, after it has been logged again: OpenMemTable, and with
\* it NewEngine, fails.
RestoreFails ==
    /\ phase = "replaying"
    /\ \E w \in conflicts :
         /\ NextUnread(w)
         /\ synced' = Relogged(w)
         /\ \E at \in Drift(w) : CutOff(IF at = "level" THEN {} ELSE Unread \ {w})
    /\ phase' = "broken"
    /\ replay' = NoReplay
    /\ imm' = <<>> /\ cached' = {} /\ refs' = [f \in Fid |-> 0]
    /\ UNCHANGED <<walFiles, sst, tmpFiles, sstFiles, mem, nextMemFid, flushCh, chClosed, wg,
                   iters, toSend, globbed, snapDone, snapshotsEnabled, files, currentGeneration,
                   flusherVars, clientVars, budget>>

\* The log is read: an empty memtable is released, which deletes its WAL; any other one
\* becomes immutable.
AddRestored ==
    /\ phase = "replaying" /\ replay.at # "closed" /\ Unread = {}
    /\ \/ InTable(replay.fid) = {} /\ Deref(replay.fid) /\ UNCHANGED imm
       \/ /\ InTable(replay.fid) # {}
          /\ imm' = Append(imm, replay.fid)
          /\ UNCHANGED <<refs, walFiles, walOf, cached>>
    /\ replay' = [replay EXCEPT !.at = "closed"]
    /\ UNCHANGED <<synced, sst, tmpFiles, sstFiles, mem, nextMemFid, flushCh, chClosed, wg,
                   iters, phase, toSend, globbed, snapDone, snapshotsEnabled, files,
                   currentGeneration, flusherVars, clientVars, budget>>

\* The end of restoreMemTables: the next memtable's fid is one past the newest WAL's.
RestoreDone ==
    /\ phase = "replaying" /\ replay.at = "closed"
    /\ \A f \in walFiles : f <= replay.fid
    /\ nextMemFid' = replay.fid + 1
    /\ replay' = NoReplay
    /\ phase' = "restored"
    /\ UNCHANGED <<diskVars, mem, imm, flushCh, chClosed, wg, cached, refs, iters, toSend,
                   globbed, snapDone, snapshotsEnabled, files, currentGeneration, flusherVars,
                   clientVars, budget>>

\* The end of NewMemManager.
NewMemManager ==
    /\ phase = "restored"
    /\ NewMemTable
    /\ phase' = "new"
    /\ UNCHANGED <<walOf, synced, sst, tmpFiles, sstFiles, imm, flushCh, chClosed, wg,
                   cached, iters, toSend, globbed, snapDone, snapshotsEnabled, files,
                   currentGeneration, flusherVars, clientVars, budget, replay>>

\* FileStore.Open: every .sst file is loaded; the generation counter is one past the
\* newest of them, and NextGeneration increments it before use.
FileStoreOpen ==
    /\ files' = sstFiles
    /\ \/ sstFiles = {} /\ currentGeneration' = 0
       \/ \E f \in sstFiles : /\ \A g \in sstFiles : g[1] <= f[1]
                             /\ currentGeneration' = f[1] + 1

OpenFlusherLast ==                                               \* mutant: started after
    /\ phase = "new"                                             \* MemManager.Open
    /\ FileStoreOpen
    /\ toSend' = imm
    /\ phase' = "opening"
    /\ UNCHANGED <<diskVars, memVars, snapDone, snapshotsEnabled, pc, globbed, mt, todo,
                   clientVars, budget, replay>>

\* Engine.Open: the files are loaded, the flush goroutine starts.
Open ==
    /\ phase = "new"
    /\ FileStoreOpen
    /\ snapDone' = "open"
    /\ snapshotsEnabled' = TRUE
    /\ pc' = "loop"
    /\ toSend' = imm
    /\ phase' = "opening"
    /\ UNCHANGED <<diskVars, memVars, globbed, mt, todo, clientVars, budget, replay>>

SendRestoredNoAdd ==                                             \* mutant: no wg.Add
    /\ phase = "opening" /\ toSend # <<>>
    /\ Len(flushCh) < NumMemTables
    /\ flushCh' = Append(flushCh, Head(toSend))
    /\ toSend' = Tail(toSend)
    /\ UNCHANGED <<diskVars, mem, imm, nextMemFid, chClosed, wg, cached, refs, iters, phase,
                   globbed, snapDone, snapshotsEnabled, files, currentGeneration,
                   flusherVars, clientVars, budget, replay>>

\* MemManager.Open sends each restored memtable, and blocks while the channel is full.
SendRestored ==
    /\ phase = "opening" /\ toSend # <<>>
    /\ Len(flushCh) < NumMemTables
    /\ wg' = wg + 1
    /\ flushCh' = Append(flushCh, Head(toSend))
    /\ toSend' = Tail(toSend)
    /\ UNCHANGED <<diskVars, mem, imm, nextMemFid, chClosed, cached, refs, iters, phase,
                   globbed, snapDone, snapshotsEnabled, files, currentGeneration,
                   flusherVars, clientVars, budget, replay>>

\* cleanupTempTSMFiles lists the temp files: the flush goroutine is already running.
CleanupGlob ==
    /\ phase = "opening" /\ toSend = <<>>
    /\ globbed' = tmpFiles
    /\ phase' = "cleaning"
    /\ UNCHANGED <<diskVars, memVars, toSend, snapDone, snapshotsEnabled, files,
                   currentGeneration, flusherVars, clientVars, budget, replay>>

\* ... and removes them; a file that is gone by then makes Open return an error, which
\* some callers drop.
CleanupRemove ==
    /\ phase = "cleaning"
    /\ \/ \E f \in globbed \cap tmpFiles :
            /\ globbed' = globbed \ {f}
            /\ tmpFiles' = tmpFiles \ {f}
            /\ UNCHANGED phase
       \/ /\ globbed \ tmpFiles # {}
          /\ phase' \in {"up", "failed"}
          /\ globbed' = {}
          /\ UNCHANGED tmpFiles
       \/ globbed = {} /\ phase' = "up" /\ UNCHANGED <<globbed, tmpFiles>>
    /\ UNCHANGED <<walFiles, walOf, synced, sst, sstFiles, memVars, toSend, snapDone,
                   snapshotsEnabled, files, currentGeneration, flusherVars, clientVars,
                   budget, replay>>

\* Engine.Close, called when no write is in progress.
CloseBegin ==
    /\ phase = "up" /\ \A w \in Writers : wpc[w] = "idle"
    /\ mem # NoFid
    /\ Spend("close")
    /\ phase' = "closing"
    /\ UNCHANGED <<diskVars, memVars, toSend, globbed, snapDone, snapshotsEnabled, files,
                   currentGeneration, flusherVars, clientVars, replay>>

\* MemManager.Close: wait for every flush, sync and truncate the WAL, close the channel.
CloseMemManager ==
    /\ phase = "closing" /\ ~chClosed
    /\ wg = 0
    /\ synced' = synced \cup LoggedIn(mem)
    /\ chClosed' = TRUE
    /\ UNCHANGED <<walFiles, walOf, sst, tmpFiles, sstFiles, mem, imm, nextMemFid, flushCh,
                   wg, cached, refs, iters, engineVars, flusherVars, clientVars, budget>>

\* What the end of the process leaves behind.
Stop ==
    /\ phase' = "down"
    /\ mem' = NoFid /\ imm' = <<>> /\ nextMemFid' = 0 /\ flushCh' = <<>> /\ toSend' = <<>>
    /\ chClosed' = FALSE /\ wg' = 0 /\ cached' = {}
    /\ refs' = [f \in Fid |-> 0] /\ iters' = [f \in Fid |-> 0]
    /\ globbed' = {} /\ files' = {} /\ snapDone' = "nil" /\ snapshotsEnabled' = FALSE
    /\ currentGeneration' = 0 /\ replay' = NoReplay
    /\ pc' = "off" /\ mt' = NoFid /\ todo' = {}
    /\ wpc' = [w \in Writers |-> "idle"] /\ wid' = [w \in Writers |-> 0]
    /\ query' = [pc |-> "idle", before |-> {}, got |-> {}]
    /\ UNCHANGED <<walFiles, sst, tmpFiles, sstFiles, synced, nWrites, acked, conflicts, exposed>>

\* Every request dereferences mm.mem: once newMemTable has failed the next one panics.
Panic ==
    /\ phase = "up" /\ mem = NoFid
    /\ Stop
    /\ UNCHANGED <<walOf, budget>>

CloseDone ==
    /\ phase = "closing" /\ chClosed /\ snapDone = "nil"
    /\ Stop
    /\ UNCHANGED <<walOf, budget>>

\* A crash leaves half of a record that was being logged, the first time or again; a
\* power loss may take any bytes msync has not written.  A power loss is considered only
\* with SyncWrite: without it the engine promises nothing about one.
Losable(w) == \/ \E x \in Writers : wpc[x] = "logged" /\ wid[x] = w
              \/ NextUnread(w) /\ w \in Uneven
              \/ SyncWrite /\ w \notin synced

\* A record that is not read yet where the copies do not meet it is cut off from them.
Crash ==
    /\ phase # "down" /\ Spend("crash")
    /\ \E lost \in SUBSET {w \in Write : walOf[w] # NoFid /\ Losable(w)} :
         LET damaged == lost \cup IF replay.at = "level" THEN {} ELSE Unread
         IN CutOff({w \in Write : \E u \in damaged : walOf[u] = walOf[w] /\ u <= w})
    /\ Stop

(***************************************************************************)
(* A query: Engine.Get reads the memtables first (MemManager.Values, under *)
(* the mutex), then opens a cursor on the files.                           *)
(***************************************************************************)
InMemTables == {w \in cached : walOf[w] = mem \/ walOf[w] \in ImmSet}

QueryFirst(got) ==
    /\ phase = "up" /\ query.pc = "idle" /\ MemManagerUnlocked /\ mem # NoFid
    /\ Spend("query")
    /\ query' = [pc |-> "memory", before |-> Kept, got |-> got]
    /\ UNCHANGED <<diskVars, memVars, engineVars, flusherVars, wpc, wid, nWrites, acked,
                   conflicts, exposed>>

QuerySecond(got) ==
    /\ Running /\ query.pc = "memory"
    /\ query' = [query EXCEPT !.pc = "done", !.got = @ \cup got]
    /\ UNCHANGED <<diskVars, memVars, engineVars, flusherVars, wpc, wid, nWrites, acked,
                   conflicts, budget, exposed>>

QueryFilesFirst ==                                               \* mutant: swapped order
    \/ QueryFirst(InFiles(files))
    \/ QuerySecond(InMemTables)

QueryStep == \/ QueryFirst(InMemTables)
             \/ QuerySecond(InFiles(files))

Init ==
    /\ walFiles = {} /\ walOf = [w \in Write |-> NoFid] /\ synced = {}
    /\ sst = [f \in File |-> {}] /\ tmpFiles = {} /\ sstFiles = {}
    /\ mem = NoFid /\ imm = <<>> /\ nextMemFid = 0 /\ flushCh = <<>> /\ chClosed = FALSE
    /\ wg = 0 /\ cached = {} /\ refs = [f \in Fid |-> 0] /\ iters = [f \in Fid |-> 0]
    /\ phase = "down" /\ toSend = <<>> /\ globbed = {} /\ snapDone = "nil"
    /\ snapshotsEnabled = FALSE /\ files = {} /\ currentGeneration = 0 /\ replay = NoReplay
    /\ pc = "off" /\ mt = NoFid /\ todo = {}
    /\ wpc = [w \in Writers |-> "idle"] /\ wid = [w \in Writers |-> 0]
    /\ nWrites = 0 /\ acked = {} /\ conflicts = {} /\ exposed = {}
    /\ query = [pc |-> "idle", before |-> {}, got |-> {}]
    /\ budget = [crash |-> MaxCrashes, failure |-> MaxFailures, toggle |-> MaxToggles,
                 conflict |-> MaxConflicts, query |-> MaxQueries, close |-> MaxCloses]

WriterStep(w) == \/ WriteBatch(w) \/ EnsureNotFull(w) \/ Rotate(w)
                 \/ WriteLog(w) \/ WriteApply(w) \/ WriteConflict(w)
FlusherStep   == \/ FlushLoop \/ TakeFlushMemTable \/ FlushCheck
                 \/ SnapshotStart \/ SnapshotWritten \/ SnapshotFailed \/ SnapshotCollides
                 \/ RenameTmp \/ ReplaceFailed \/ Install \/ OnMemTableFlushed
RestoreStep   == \/ NewEngine \/ OpenMemTable \/ ReplayRecord \/ ReplayBreaks
                 \/ RestoreFails \/ AddRestored \/ RestoreDone
OpenStep      == \/ RestoreStep \/ NewMemManager \/ Open
                 \/ SendRestored \/ CleanupGlob \/ CleanupRemove
StopStep      == \/ DisableSnapshots \/ DisableSnapshotsDone
                 \/ CloseMemManager \/ CloseDone

Next == \/ \E w \in Writers : WriterStep(w)
        \/ FlusherStep
        \/ \E f \in Fid : IterClose(f)
        \/ OpenStep \/ StopStep \/ EnableSnapshots \/ CloseBegin \/ Panic \/ Crash
        \/ QueryStep

Spec == Init /\ [][Next]_vars

\* The runtime schedules every goroutine: a request that has started, the flush
\* goroutine, the snapshot goroutines, Open and Close go on.  Calling WriteBatch, Get,
\* Close or SetCompactionsEnabled is the application's choice.
FairSpec ==
    /\ Spec
    /\ \A w \in Writers : WF_vars(wpc[w] # "idle" /\ WriterStep(w))
    /\ WF_vars(FlusherStep)
    /\ \A f \in Fid : WF_vars(IterClose(f))
    /\ WF_vars(OpenStep)
    /\ WF_vars(CloseMemManager \/ CloseDone)
    /\ WF_vars(phase = "closing" /\ DisableSnapshots)
    /\ WF_vars(DisableSnapshotsDone)
    /\ WF_vars(Panic)

(***************************************************************************)
(* Properties.                                                             *)
(***************************************************************************)

\* An acknowledged write is whole in a WAL or in a live SST file, at every moment:
\* between rename, install and the deletion of the WAL, across crashes and while WALs
\* are replayed.  The exception are the writes of several keys, and what is logged
\* behind them, once a restart has begun to replay their log: it writes over them.
Durable == acked \ exposed \subseteq OnDisk

\* While the engine serves requests every acknowledged write that no replay has
\* overwritten is in a memtable or in an installed file.
Visible == phase \in {"up", "closing"} =>
    \A w \in Kept : (w \in cached /\ walOf[w] \in {mem} \cup ImmSet) \/ w \in InFiles(files)

\* A query sees every write acknowledged before it began and not overwritten by a
\* replay, although memtables move to files between its two steps.
QueryComplete == query.pc = "done" => query.before \subseteq query.got

\* The memtable being flushed, the channel and what Open has still to send are the
\* immutable memtables in their order: OnMemTableFlushed always finds its own at imm[0].
\* Not once the application has switched compactions off, which makes the flush
\* goroutine drop the memtable it holds.
Queue == (IF mt = NoFid THEN <<>> ELSE <<mt>>) \o flushCh \o toSend
FlushInOrder ==
    Running /\ budget.toggle = MaxToggles => imm = Queue /\ wg + Len(toSend) = Len(imm)

\* The WAL files of a serving engine are those of its memtables and of caches that an
\* iterator still holds: none is deleted early, none is leaked.
WalReclaimed == Running =>
    walFiles = (({mem} \ {NoFid}) \cup ImmSet) \cup {f \in Fid : iters[f] > 0}

\* The write path implements DurableLog: a record is stored while it is whole on disk, and
\* at risk once a replay has begun to rewrite it.  A restart reads what is stored unless a
\* log holds a record that its replay refuses (RestoreSucceeds).
Promise == INSTANCE DurableLog WITH Record <- Write, stored <- OnDisk, acked <- acked,
                                    atRisk <- exposed
ImplementsDurableLog == Promise!Spec

\* Every immutable memtable is flushed, and its WAL deleted, although flushes are retried.
EventuallyFlushed == \A f \in Fid : f \in ImmSet ~> f \notin walFiles

\* A write that waits for room returns.
WriteReturns == \A w \in Writers : wpc[w] = "ensure" ~> wpc[w] = "idle"

\* Close and Open return.
CloseReturns == phase = "closing" ~> phase = "down"
OpenReturns  == phase = "opening" ~> phase \in {"up", "failed", "down"}

\* NewEngine of a directory the engine wrote succeeds: no WAL holds a record that its
\* replay refuses.
RestoreSucceeds == phase = "down" => \A w \in conflicts : walOf[w] = NoFid

(***************************************************************************)
(* The inductive invariant behind Durable, Visible and QueryComplete.      *)
(***************************************************************************)

\* The memtables the manager holds a reference for.
Held == ({mem} \ {NoFid}) \cup ImmSet

Offline == phase \in {"down", "broken"}
Loading == phase \in {"restored", "new"}
Opened  == phase \in {"opening", "cleaning", "up", "closing", "failed"}

OfflineInv ==
    /\ Offline => imm = <<>> /\ mem = NoFid
    /\ phase = "replaying" => mem = NoFid
    /\ Loading => mem = NoFid \/ phase = "new"
    /\ Offline \/ Loading \/ phase = "replaying" =>
         /\ pc = "off" /\ mt = NoFid /\ flushCh = <<>> /\ wg = 0
         /\ iters = [f \in Fid |-> 0]
         /\ query.pc = "idle"
    /\ toSend # <<>> => phase = "opening"
    /\ phase # "up" => \A x \in Writers : wpc[x] = "idle"

\* Every memtable handed over is older than the mutable one.
Older(f) == f < nextMemFid /\ (mem # NoFid => f < mem)

OrderInv ==
    /\ mem # NoFid => mem < nextMemFid
    /\ phase # "replaying" => \A i \in DOMAIN imm : Older(imm[i])
    /\ \A i, j \in DOMAIN imm : i < j => imm[i] < imm[j]
    /\ \A i \in DOMAIN flushCh : Older(flushCh[i])
    /\ mt # NoFid => Older(mt)
    /\ \A f \in Fid : f >= nextMemFid => iters[f] = 0

\* toSend is the tail of imm, behind everything that is queued or being flushed.
SendInv ==
    /\ Opened => wg + Len(toSend) = Len(imm)
    /\ \A i \in DOMAIN toSend : toSend[i] = imm[i + Len(imm) - Len(toSend)]
    /\ \A i \in DOMAIN flushCh, j \in DOMAIN toSend : flushCh[i] < toSend[j]
    /\ mt # NoFid => \A j \in DOMAIN toSend : mt < toSend[j]

\* What is queued or being flushed is still held, in the order of the fids.
QueueInv ==
    /\ \A i \in DOMAIN flushCh : flushCh[i] \in ImmSet
    /\ \A i, j \in DOMAIN flushCh : i < j => flushCh[i] < flushCh[j]
    /\ mt # NoFid => mt \in ImmSet /\ \A i \in DOMAIN flushCh : mt < flushCh[i]

\* Every iterator and every holder has its reference.
RefInv ==
    /\ \A f \in Fid : refs[f] >= iters[f]
    /\ \A f \in Held : refs[f] > iters[f]
    /\ pc = "encode" => iters[mt] > 0

\* A writer that has logged a record holds the mutex, and its record is not yet acked.
WriterInv ==
    /\ \A x \in Writers : wpc[x] = "logged" =>
         /\ wid[x] \in Write \ acked
         /\ mem # NoFid /\ walOf[wid[x]] = mem
    /\ \A x, y \in Writers : wpc[x] = "logged" /\ wpc[y] = "logged" => x = y
    /\ \A w \in acked : w <= nWrites
    /\ \A x \in Writers : wpc[x] = "logged" => wid[x] = nWrites
    /\ SyncWrite => \A w \in acked \ exposed, u \in Write :
         walOf[w] # NoFid /\ walOf[u] = walOf[w] /\ u <= w => u \in synced

WalInv ==
    /\ \A w \in Write : walOf[w] # NoFid => walOf[w] \in walFiles /\ w <= nWrites
    /\ mem # NoFid => mem \in walFiles

\* An SST file under its final name is never written again, and the files of the
\* snapshot in progress cover the memtable being flushed.
GenerationInv ==
    /\ Opened => \A f \in sstFiles : f[1] <= currentGeneration
    /\ pc \in {"encode", "rename", "install", "flushed"} => currentGeneration \in 1..MaxGen
    /\ pc = "encode" => \A f \in sstFiles : f[1] < currentGeneration
    /\ files \subseteq sstFiles

SnapshotInv ==
    /\ pc \in {"check", "snap", "encode", "rename", "install", "flushed"} => mt \in Fid
    /\ pc \in {"install", "flushed"} => todo = {}
    /\ pc \in {"rename", "install", "flushed"} =>
         \A w \in acked : walOf[w] = mt =>
           \E q \in Part : /\ w \in sst[<<currentGeneration, q>>]
                           /\ q \in todo \/ <<currentGeneration, q>> \in sstFiles
                           /\ pc = "flushed" => <<currentGeneration, q>> \in files
    /\ pc = "rename" =>
         \A q \in todo : \A w \in sst[<<currentGeneration, q>>] : walOf[w] = mt

StoreInv ==
    /\ Offline \/ phase = "replaying" => acked \ exposed \subseteq OnDisk
    /\ Loading => \A w \in Kept : walOf[w] \in Held \/ w \in InFiles(sstFiles)
    /\ Opened => \A w \in Kept : walOf[w] \in Held \/ w \in InFiles(files)
    /\ Loading \/ Opened => \A w \in acked : walOf[w] # NoFid => w \in cached

\* The WALs up to replay.fid are read, each non-empty one into an immutable memtable,
\* and what the replay of the open one can damage is exposed.
Replayed(f) == f < replay.fid \/ (f = replay.fid /\ replay.at = "closed")

ReplayInv ==
    /\ phase # "replaying" => replay = NoReplay
    /\ replay.at # "closed" => replay.fid \in walFiles /\ refs[replay.fid] > 0
    /\ phase = "replaying" =>
         /\ \A f \in ImmSet : Replayed(f)
         /\ \A w \in Write : walOf[w] # NoFid /\ Replayed(walOf[w]) =>
              w \in cached /\ walOf[w] \in ImmSet
    /\ replay.at # "closed" => Rewritten(replay.fid) \subseteq exposed
    /\ replay.at \in {"behind", "ahead"} => Unread \subseteq Rewritten(replay.fid)

QueryInv ==
    /\ query.pc = "memory" => \A w \in query.before : w \in query.got \/ w \in InFiles(files)
    /\ query.pc = "done" => query.before \subseteq query.got

IInv == /\ TypeOK /\ OfflineInv /\ OrderInv /\ SendInv /\ QueueInv /\ RefInv
        /\ WriterInv /\ WalInv /\ GenerationInv /\ SnapshotInv /\ StoreInv /\ ReplayInv
        /\ QueryInv
=============================================================================
