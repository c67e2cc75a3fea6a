----------------------------- MODULE Compaction -----------------------------
(***************************************************************************)
(* SST files once they are written: the FileStore with its reference-      *)
(* counted readers and its purger, the planner and the compaction loop,    *)
(* the compactions that merge files, the deletes that stop them, and what  *)
(* a crash leaves on disk.                                                 *)
(*                                                                         *)
(* A file is a generation and a sequence number; its contents is the set   *)
(* of keys it has data for.  A key is in one generation, until a delete    *)
(* removed it and a flush writes it again; a delete is of whole keys.      *)
(***************************************************************************)
EXTENDS Naturals, FiniteSets, Sequences, Functions

CONSTANTS
    NumKeys,        \* bound: keys, in the order the index keeps them
    MaxGen, MaxSeq, \* bounds: generations, and files of one generation
    Loaded,         \* Loaded[g]: the keys of generation g when the engine is first opened
    FileKeys,       \* the keys an output file holds before the next one is begun
    Levels,         \* bound: the levels the loop plans, 4 for the full plan
    PlanGroups(_, _),   \* the groups the planner makes for a level of a list of files
    Slots,          \* the tokens of compactionLimiter, one per running compaction
    Cursors,        \* KeyCursors of queries
    Deleters,       \* goroutines that call DeleteRangeBatch
    Toggler,        \* the caller of SetCompactionsEnabled
    NoSlot,         \* f.mu is not held for writing
    MaxDeletes, MaxToggles, MaxQueries,                   \* bounds: requests,
    MaxFailures, MaxSwapFailures, MaxCrashes            \* failures and crashes

ASSUME CompactionAssumption ==
    /\ NumKeys \in Nat /\ MaxGen \in Nat /\ MaxSeq \in Nat \ {0}
    /\ Loaded \in Seq((SUBSET (1..NumKeys)) \ {{}}) /\ Len(Loaded) <= MaxGen
    /\ \A g, h \in DOMAIN Loaded : g # h => Loaded[g] \cap Loaded[h] = {}
    /\ Levels \in (SUBSET (1..4)) \ {{}}
    /\ MaxDeletes \in Nat /\ MaxToggles \in Nat /\ MaxQueries \in Nat
    /\ MaxFailures \in Nat /\ MaxSwapFailures \in Nat /\ MaxCrashes \in Nat
    /\ FileKeys \in Nat \ {0} /\ NumKeys <= 2 * FileKeys
    /\ NoSlot \notin Slots /\ Toggler \notin Deleters
    /\ IsFiniteSet(Slots) /\ IsFiniteSet(Cursors) /\ IsFiniteSet(Deleters)

Key      == 1..NumKeys
File     == (1..MaxGen) \X (1..MaxSeq)

\* The groups of a plan are made of files of the list, each file is in one group at most,
\* and a group has all or none of the files of a generation.
ASSUME PlanAssumption ==
    \A l \in Levels, fs \in SUBSET File :
        /\ PlanGroups(l, fs) \in Seq((SUBSET fs) \ {{}})
        /\ \A i, j \in DOMAIN PlanGroups(l, fs) :
             i # j => PlanGroups(l, fs)[i] \cap PlanGroups(l, fs)[j] = {}
        /\ \A i \in DOMAIN PlanGroups(l, fs) :
             \A f \in PlanGroups(l, fs)[i], g \in fs :
               f[1] = g[1] => g \in PlanGroups(l, fs)[i]

Stoppers == Deleters \cup {Toggler}     \* callers of disableLevelCompactions

VARIABLES
    \* on disk
    data,       \* data[f]: the keys in file f, read by its reader too
    live,       \* the files under their .sst name
    tmp,        \* the files under their .sst.tmp name
    tombs,      \* tombs[f]: the keys in the tombstone file of f
    \* FileStore, SSTReader, purger
    files,      \* f.files: the files queries look into
    open,       \* the files with an open reader
    refs,       \* refs[f]: references to the reader of f
    gone,       \* gone[f]: the keys deleted from the index of the reader of f
    fsLock,     \* the compaction that holds f.mu for writing
    purging,    \* purger.files: replaced files that were in use
    generation, \* currentGeneration
    \* the planner and the compaction loop
    inUse,      \* filesInUse: the files of plans
    gens,       \* lastGenerations: the files of the list found last
    gensValid,  \* the FileStore has not changed since
    lpc, level, found, held,    \* the loop: where it is, the level, its list, its plans
    \* Compactor and the running compactions
    enabled,    \* compactionsEnabled
    compacting, \* Compactor.files
    jpc, group, merged,     \* per compaction: where it is, its old files, their keys,
    outs, todo,             \* its new files, the files still to rename or to remove
    \* starting and stopping level compactions
    levelWorkers, compactionDone,
    spc,                    \* where each stopper is
    delKeys, delFiles,      \* per deleter: its keys, the files still to visit
    \* the process, cursors and observers
    phase, globbed, cursor,
    written,    \* keys written, and not deleted since
    asked,      \* keys a delete was asked for, and not written since
    deleted,    \* keys a finished delete removed, and not written since
    stray,      \* a crash has left the tombstone file of a file that was removed
    budget

diskVars   == <<data, live, tmp, tombs>>
storeVars  == <<files, open, refs, gone, fsLock, purging, generation>>
planVars   == <<inUse, gens, gensValid, lpc, level, found, held>>
jobVars    == <<enabled, compacting, jpc, group, merged, outs, todo>>
gateVars   == <<levelWorkers, compactionDone, spc, delKeys, delFiles>>
clientVars == <<phase, globbed, cursor, written, asked, deleted, stray>>
vars == <<diskVars, storeVars, planVars, jobVars, gateVars, clientVars, budget>>

JobPcs == {"off", "begin", "ref", "write", "check", "failed", "rename", "swap", "untomb",
           "release"}

DiskType ==
    /\ data \in [File -> SUBSET Key] /\ tombs \in [File -> SUBSET Key]
    /\ live \subseteq File /\ tmp \subseteq File

StoreType ==
    /\ files \subseteq File /\ open \subseteq File /\ purging \subseteq File
    /\ refs \in [File -> Nat] /\ gone \in [File -> SUBSET Key]
    /\ fsLock \in Slots \cup {NoSlot} /\ generation \in 0..(MaxGen + 1)

PlanType ==
    /\ inUse \subseteq File /\ gens \subseteq File /\ gensValid \in BOOLEAN
    /\ lpc \in {"off", "tick", "plan", "acquire", "start"} /\ level \in 1..4
    /\ found \subseteq File /\ held \in [1..4 -> Seq(SUBSET File)]

JobType ==
    /\ enabled \in BOOLEAN /\ compacting \subseteq File
    /\ jpc \in [Slots -> JobPcs] /\ group \in [Slots -> SUBSET File]
    /\ merged \in [Slots -> SUBSET Key]
    /\ outs \in [Slots -> SUBSET File] /\ todo \in [Slots -> SUBSET File]

GateType ==
    /\ levelWorkers \in Nat /\ compactionDone \in {"nil", "open", "closed"}
    /\ spc \in [Stoppers -> {"idle", "first", "other", "go", "in", "apply", "stamp", "out"}]
    /\ delKeys \in [Deleters -> SUBSET Key] /\ delFiles \in [Deleters -> SUBSET File]

ClientType ==
    /\ phase \in {"down", "opening", "cleaning", "up"} /\ globbed \subseteq File
    /\ cursor \in [Cursors -> SUBSET File]
    /\ written \subseteq Key /\ asked \subseteq Key /\ deleted \subseteq Key
    /\ stray \in BOOLEAN
    /\ budget \in [delete : 0..MaxDeletes, toggle : 0..MaxToggles, query : 0..MaxQueries,
                   failure : 0..MaxFailures, swap : 0..MaxSwapFailures,
                   crash : 0..MaxCrashes]

\* Every variable has its type: in particular no reader is given back more references
\* than it handed out (Unref) and levelWorkers never goes negative.
TypeOK == DiskType /\ StoreType /\ PlanType /\ JobType /\ GateType /\ ClientType

Spend(what) == budget[what] > 0 /\ budget' = [budget EXCEPT ![what] = @ - 1]

Up == phase # "down"

\* f.mu: Apply holds it for reading around its whole work, the end of replace for writing.
Applying == \E d \in Deleters : spc[d] = "apply"
Unlocked == fsLock = NoSlot /\ ~Applying
Readable == fsLock = NoSlot

InFile(f) == data[f] \ gone[f]
InFiles   == UNION {InFile(f) : f \in files}
Ref(fs)   == refs' = [f \in File |-> IF f \in fs THEN refs[f] + 1 ELSE refs[f]]
Unref(fs) == refs' = [f \in File |-> IF f \in fs THEN refs[f] - 1 ELSE refs[f]]

\* The order of path names, and of sstReaders.
Before(f, g) == f[1] < g[1] \/ (f[1] = g[1] /\ f[2] <= g[2])
First(fs)    == CHOOSE f \in fs : \A g \in fs : Before(f, g)
Last(fs)     == CHOOSE f \in fs : \A g \in fs : Before(g, f)

\* A directory with generations of one file, and an engine just opened on it: level
\* compactions are enabled.
Init ==
    /\ data = [f \in File |-> IF f[2] = 1 /\ f[1] \in DOMAIN Loaded THEN Loaded[f[1]] ELSE {}]
    /\ written = UNION Range(Loaded)
    /\ live = {<<g, 1>> : g \in DOMAIN Loaded}
    /\ files = live /\ open = live
    /\ tmp = {} /\ purging = {} /\ inUse = {} /\ gens = {} /\ found = {}
    /\ compacting = {} /\ globbed = {} /\ asked = {} /\ deleted = {}
    /\ tombs = [f \in File |-> {}] /\ gone = [f \in File |-> {}]
    /\ refs = [f \in File |-> 0] /\ fsLock = NoSlot
    /\ generation = IF Loaded = <<>> THEN 0 ELSE Len(Loaded) + 1
    /\ gensValid = FALSE /\ lpc = "tick" /\ enabled = TRUE
    /\ level = 1 /\ held = [l \in 1..4 |-> <<>>]
    /\ jpc = [s \in Slots |-> "off"]
    /\ group = [s \in Slots |-> {}] /\ outs = group /\ todo = group
    /\ merged = [s \in Slots |-> {}]
    /\ levelWorkers = 0 /\ compactionDone = "open"
    /\ spc = [x \in Stoppers |-> "idle"]
    /\ delKeys = [d \in Deleters |-> {}] /\ delFiles = [d \in Deleters |-> {}]
    /\ phase = "up" /\ cursor = [c \in Cursors |-> {}] /\ stray = FALSE
    /\ budget = [delete |-> MaxDeletes, toggle |-> MaxToggles, query |-> MaxQueries,
                 failure |-> MaxFailures, swap |-> MaxSwapFailures, crash |-> MaxCrashes]

(***************************************************************************)
(* Flushes and queries.                                                    *)
(***************************************************************************)

\* The flush goroutine takes the next generation and installs a file with keys that are
\* new, or whose delete has finished.  Its reader applies a tombstone file of that name.
Flush ==
    /\ Up /\ Unlocked
    /\ generation < MaxGen
    /\ LET f == <<generation + 1, 1>> IN
       \E ks \in SUBSET (Key \ (written \cup UNION Range(delKeys))) :
         /\ ks # {} /\ f \notin tmp
         /\ data' = [data EXCEPT ![f] = ks]
         /\ gone' = [gone EXCEPT ![f] = tombs[f]]
         /\ live' = live \cup {f}
         /\ files' = files \cup {f}
         /\ open' = open \cup {f}
         /\ written' = written \cup ks
         /\ asked' = asked \ ks
         /\ deleted' = deleted \ ks
    /\ generation' = generation + 1
    /\ gensValid' = FALSE
    /\ UNCHANGED <<tmp, tombs, refs, fsLock, purging, inUse, gens, lpc, level, found, held,
                   jobVars, gateVars, phase, globbed, cursor, stray, budget>>

KeyCursorNoRef(c) ==                                             \* mutant: takes no reference
    /\ phase = "up" /\ Readable /\ cursor[c] = {}
    /\ Spend("query")
    /\ \E k \in InFiles : cursor' = [cursor EXCEPT ![c] = {f \in files : k \in InFile(f)}]
    /\ UNCHANGED <<diskVars, storeVars, planVars, jobVars, gateVars, phase, globbed, written,
                   asked, deleted, stray>>

\* FileStore.KeyCursor takes a reference to every file that has the key.
KeyCursor(c) ==
    /\ phase = "up" /\ Readable /\ cursor[c] = {}
    /\ Spend("query")
    /\ \E k \in InFiles :
         LET fs == {f \in files : k \in InFile(f)}
         IN fs \subseteq open /\ cursor' = [cursor EXCEPT ![c] = fs] /\ Ref(fs)
    /\ UNCHANGED <<diskVars, files, open, gone, fsLock, purging, generation, planVars,
                   jobVars, gateVars, phase, globbed, written, asked, deleted, stray>>

CursorCloseNoUnref(c) ==                                         \* mutant: keeps references
    /\ cursor[c] # {}
    /\ cursor' = [cursor EXCEPT ![c] = {}]
    /\ UNCHANGED <<diskVars, storeVars, planVars, jobVars, gateVars, phase, globbed, written,
                   asked, deleted, stray, budget>>

\* KeyCursor.Close, without a lock.
CursorClose(c) ==
    /\ cursor[c] # {}
    /\ cursor' = [cursor EXCEPT ![c] = {}]
    /\ Unref(cursor[c])
    /\ UNCHANGED <<diskVars, files, open, gone, fsLock, purging, generation, planVars,
                   jobVars, gateVars, phase, globbed, written, asked, deleted, stray,
                   budget>>

PurgeAnyway(f) == TRUE                                           \* mutant: no InUse check

\* SSTReader.InUse, negated.
NotInUse(f) == refs[f] = 0

\* The purger closes and removes a replaced file once nobody refers to it.
Purge(f) ==
    /\ f \in purging /\ NotInUse(f)
    /\ open' = open \ {f}
    /\ tmp' = tmp \ {f}
    /\ purging' = purging \ {f}
    /\ UNCHANGED <<data, live, tombs, files, refs, gone, fsLock, generation, planVars,
                   jobVars, gateVars, clientVars, budget>>

(***************************************************************************)
(* The compaction loop: Engine.compact and the planner.                    *)
(***************************************************************************)

\* The loop's select sees the closed channel.
LoopQuit ==
    /\ lpc = "tick" /\ compactionDone = "closed"
    /\ lpc' = "off"
    /\ UNCHANGED <<diskVars, storeVars, inUse, gens, gensValid, level, found, held, jobVars,
                   gateVars, clientVars, budget>>

MinLevel(ls) == CHOOSE l \in ls : \A m \in ls : l <= m

\* findGenerations: the list made since the last change of the FileStore, which skips the
\* files in use when it was made; else a new one.  A tick may win over a closed channel.
FindGenerations ==
    /\ lpc \in {"tick", "plan"} /\ Readable
    /\ level' = IF lpc = "tick" THEN MinLevel(Levels) ELSE level
    /\ found' = IF gensValid THEN gens ELSE files \ inUse
    /\ gens' = found'
    /\ gensValid' = TRUE
    /\ lpc' = "acquire"
    /\ UNCHANGED <<diskVars, storeVars, inUse, held, jobVars, gateVars, clientVars, budget>>

GroupFiles(gs) == UNION {gs[i] : i \in DOMAIN gs}
HeldFiles(h)   == UNION {GroupFiles(h[l]) : l \in 1..4}

OutputFromOne(g, n) == <<Last(g)[1], n>>                         \* mutant: forgets maxSequence

\* The n-th output of a group: its greatest generation and sequence, and n more.
Output(g, n) == <<Last(g)[1], Last(g)[2] + n>>

FreeAlways(gs) == TRUE                                           \* mutant: no check

\* acquire: none of the files is part of another plan.
Free(gs) == GroupFiles(gs) \cap inUse = {}

\* PlanLevel, and Plan for level 4 when nothing was written for a long time, end with
\* acquire: all groups of the level or none.
Acquire ==
    /\ lpc = "acquire"
    /\ LET gs == PlanGroups(level, found) IN
       \/ /\ Free(gs)
          /\ \A i \in DOMAIN gs : Output(gs[i], 2) \in File      \* bound
          /\ inUse' = inUse \cup GroupFiles(gs)
          /\ held' = [held EXCEPT ![level] = gs]
       \/ /\ ~Free(gs) \/ level = 4 \/ \E i \in DOMAIN gs : Output(gs[i], 2) \notin File
          /\ UNCHANGED <<inUse, held>>
    /\ LET next == {l \in Levels : l > level} IN
       IF next = {} THEN lpc' = "start" /\ UNCHANGED level
                    ELSE lpc' = "plan" /\ level' = MinLevel(next)
    /\ found' = {}
    /\ UNCHANGED <<diskVars, storeVars, gens, gensValid, jobVars, gateVars, clientVars, budget>>

\* The first group of a level starts if the limiter has a token, the others are released.
Start ==
    /\ lpc = "start"
    /\ \/ \E l \in 1..4, s \in Slots :
            /\ held[l] # <<>> /\ jpc[s] = "off"
            /\ jpc' = [jpc EXCEPT ![s] = "begin"]
            /\ group' = [group EXCEPT ![s] = Head(held[l])]
            /\ inUse' = inUse \ HeldFiles([held EXCEPT ![l] = Tail(@)])
       \/ /\ HeldFiles(held) = {} \/ \A s \in Slots : jpc[s] # "off"
          /\ inUse' = inUse \ HeldFiles(held)
          /\ UNCHANGED <<jpc, group>>
    /\ held' = [l \in 1..4 |-> <<>>]
    /\ lpc' = "tick"
    /\ UNCHANGED <<diskVars, storeVars, gens, gensValid, level, found, enabled, compacting,
                   merged, outs, todo, gateVars, clientVars, budget>>

(***************************************************************************)
(* One compaction: compactGroup, CompactFull/CompactFast and replace.      *)
(***************************************************************************)
Goto(s, pc) == jpc' = [jpc EXCEPT ![s] = pc]

JobBegin(s) ==
    /\ jpc[s] = "begin"
    /\ IF enabled /\ group[s] \cap compacting = {}
         THEN compacting' = compacting \cup group[s] /\ Goto(s, "ref")
         ELSE UNCHANGED compacting /\ Goto(s, "release")
    /\ UNCHANGED <<diskVars, storeVars, planVars, enabled, group, merged, outs, todo,
                   gateVars, clientVars, budget>>

\* compact takes a reader for each file; a missing file is a bad plan and aborts.
JobRef(s) ==
    /\ jpc[s] = "ref" /\ Readable
    /\ IF enabled /\ group[s] \subseteq files
         THEN Ref(group[s]) /\ Goto(s, "write") /\ UNCHANGED compacting
         ELSE UNCHANGED refs /\ Goto(s, "release") /\ compacting' = compacting \ group[s]
    /\ UNCHANGED <<diskVars, files, open, gone, fsLock, purging, generation, planVars,
                   enabled, group, merged, outs, todo, gateVars, clientVars, budget>>

\* The keys of the n-th output: in order, the first is full with FileKeys of them.
Part(keys, n) ==
    LET low == {k \in keys : Cardinality({j \in keys : j <= k}) <= FileKeys}
    IN IF n = 1 THEN low ELSE keys \ low

\* writeNewFiles: what is left in the files goes into no file, one, or two.
JobWrite(s) ==
    /\ jpc[s] = "write" /\ group[s] \subseteq open
    /\ LET keys == UNION {InFile(f) : f \in group[s]}
           os   == {Output(group[s], n) : n \in {i \in 1..2 : Part(keys, i) # {}}}
       IN /\ os \cap tmp = {}
          /\ merged' = [merged EXCEPT ![s] = keys]
          /\ outs' = [outs EXCEPT ![s] = os]
          /\ tmp' = tmp \cup os
    /\ Goto(s, "check")
    /\ UNCHANGED <<data, live, tombs, storeVars, planVars, enabled, compacting, group, todo,
                   gateVars, clientVars, budget>>

\* The interrupt, or an error of the disk: the temp files are removed.
JobWriteFails(s) ==
    /\ jpc[s] = "write"
    /\ IF enabled THEN Spend("failure") ELSE UNCHANGED budget
    /\ Goto(s, "failed")
    /\ outs' = [outs EXCEPT ![s] = {}]
    /\ UNCHANGED <<diskVars, storeVars, planVars, enabled, compacting, group, merged, todo,
                   gateVars, clientVars>>

\* A temp file of the same name exists (O_EXCL): an output written before stays behind.
JobCollides(s) ==
    /\ jpc[s] = "write" /\ group[s] \subseteq open
    /\ LET keys == UNION {InFile(f) : f \in group[s]}
           o(n) == Output(group[s], n)
       IN \/ Part(keys, 1) # {} /\ o(1) \in tmp /\ UNCHANGED tmp
          \/ Part(keys, 2) # {} /\ o(2) \in tmp /\ o(1) \notin tmp /\ tmp' = tmp \cup {o(1)}
    /\ Goto(s, "failed")
    /\ outs' = [outs EXCEPT ![s] = {}]
    /\ UNCHANGED <<data, live, tombs, storeVars, planVars, enabled, compacting, group,
                   merged, todo, gateVars, clientVars, budget>>

\* removeTmpFiles stops at the first one that is not there.
RemoveTmpFiles(fs) == tmp \ {f \in fs : \A g \in fs : Before(g, f) => g \in tmp}

\* compact returns and drops its references; CompactFull looks again whether compactions
\* are enabled.
JobCheck(s) ==
    /\ jpc[s] \in {"check", "failed"}
    /\ Unref(group[s])
    /\ compacting' = compacting \ group[s]
    /\ IF enabled /\ jpc[s] = "check"
         THEN Goto(s, "rename") /\ todo' = [todo EXCEPT ![s] = outs[s]] /\ UNCHANGED tmp
         ELSE Goto(s, "release") /\ tmp' = RemoveTmpFiles(outs[s]) /\ UNCHANGED todo
    /\ UNCHANGED <<data, live, tombs, files, open, gone, fsLock, purging, generation,
                   planVars, enabled, group, merged, outs, gateVars, clientVars, budget>>

\* replace gives the outputs their names, which makes them live at a restart.
JobRename(s) ==
    /\ jpc[s] = "rename" /\ todo[s] # {}
    /\ LET o == First(todo[s]) IN
         /\ o \in tmp
         /\ tmp' = tmp \ {o}
         /\ live' = live \cup {o}
         /\ data' = [data EXCEPT ![o] = Part(merged[s], o[2] - Last(group[s])[2])]
         /\ open' = open \cup {o}
         /\ gone' = [gone EXCEPT ![o] = tombs[o]]
         /\ todo' = [todo EXCEPT ![s] = @ \ {o}]
    /\ UNCHANGED <<tombs, files, refs, fsLock, purging, generation, planVars, enabled,
                   compacting, jpc, group, merged, outs, gateVars, clientVars, budget>>

\* A rename fails, or the temp file is gone: compactGroup removes the temp files that are
\* left, those renamed stay.
JobRenameFails(s) ==
    /\ jpc[s] = "rename" /\ todo[s] # {}
    /\ IF First(todo[s]) \in tmp THEN Spend("failure") ELSE UNCHANGED budget
    /\ tmp' = tmp \ outs[s]
    /\ Goto(s, "release")
    /\ UNCHANGED <<data, live, tombs, storeVars, planVars, enabled, compacting, group,
                   merged, outs, todo, gateVars, clientVars>>

JobLockEarly(s) ==                                               \* mutant: renames only one
    /\ jpc[s] = "rename" /\ (todo[s] # outs[s] \/ todo[s] = {}) /\ Unlocked
    /\ fsLock' = s
    /\ todo' = [todo EXCEPT ![s] = group[s] \cap files]
    /\ Goto(s, "swap")
    /\ UNCHANGED <<diskVars, files, open, refs, gone, purging, generation, planVars, enabled,
                   compacting, group, merged, outs, gateVars, clientVars, budget>>

\* With every output renamed, replace takes f.mu.
JobLock(s) ==
    /\ jpc[s] = "rename" /\ todo[s] = {} /\ Unlocked
    /\ fsLock' = s
    /\ todo' = [todo EXCEPT ![s] = group[s] \cap files]
    /\ Goto(s, "swap")
    /\ UNCHANGED <<diskVars, files, open, refs, gone, purging, generation, planVars,
                   enabled, compacting, group, merged, outs, gateVars, clientVars, budget>>

\* An old file in use is moved out of the way, another is closed and removed.
JobSwap(s) ==
    /\ jpc[s] = "swap" /\ todo[s] # {}
    /\ LET f == First(todo[s]) IN
         /\ IF NotInUse(f) THEN open' = open \ {f} /\ UNCHANGED tmp
                           ELSE tmp' = tmp \cup {f} /\ UNCHANGED open
         /\ live' = live \ {f}
         /\ IF tombs[f] = {} THEN todo' = [todo EXCEPT ![s] = @ \ {f}] /\ UNCHANGED jpc
                             ELSE Goto(s, "untomb") /\ UNCHANGED todo
    /\ UNCHANGED <<data, tombs, files, refs, gone, fsLock, purging, generation, planVars,
                   enabled, compacting, group, merged, outs, gateVars, clientVars, budget>>

\* Then its tombstone file is removed.
JobUntomb(s) ==
    /\ jpc[s] = "untomb"
    /\ tombs' = [tombs EXCEPT ![First(todo[s])] = {}]
    /\ todo' = [todo EXCEPT ![s] = @ \ {First(todo[s])}]
    /\ Goto(s, "swap")
    /\ UNCHANGED <<data, live, tmp, storeVars, planVars, enabled, compacting, group, merged,
                   outs, gateVars, clientVars, budget>>

\* An old file cannot be closed, renamed or, once closed, removed, or the directory cannot
\* be synced: replace returns in the middle, with the list of files as it was.
JobSwapFails(s) ==
    /\ jpc[s] \in {"swap", "untomb"}
    /\ Spend("swap")
    /\ \/ UNCHANGED open
       \/ jpc[s] = "swap" /\ todo[s] # {} /\ NotInUse(First(todo[s]))
          /\ open' = open \ {First(todo[s])}
    /\ fsLock' = NoSlot
    /\ Goto(s, "release")
    /\ UNCHANGED <<diskVars, files, refs, gone, purging, generation, planVars, enabled,
                   compacting, group, merged, outs, todo, gateVars, clientVars>>

JobInstallOldOnly(s) ==                                          \* mutant: drops the outputs
    /\ jpc[s] = "swap" /\ todo[s] = {}
    /\ purging' = purging \cup (group[s] \cap open)
    /\ files' = files \ group[s]
    /\ gensValid' = FALSE
    /\ fsLock' = NoSlot
    /\ Goto(s, "release")
    /\ UNCHANGED <<diskVars, open, refs, gone, generation, inUse, gens, lpc, level, found, held,
                   enabled, compacting, group, merged, outs, todo, gateVars, clientVars, budget>>

\* The new list is installed, the files in use go to the purger.
JobInstall(s) ==
    /\ jpc[s] = "swap" /\ todo[s] = {}
    /\ purging' = purging \cup (group[s] \cap open)
    /\ files' = (files \ group[s]) \cup outs[s]
    /\ gensValid' = FALSE
    /\ fsLock' = NoSlot
    /\ Goto(s, "release")
    /\ UNCHANGED <<diskVars, open, refs, gone, generation, inUse, gens, lpc, level, found, held,
                   enabled, compacting, group, merged, outs, todo, gateVars, clientVars,
                   budget>>

\* The plan is released and the goroutine ends.
JobRelease(s) ==
    /\ jpc[s] = "release"
    /\ inUse' = inUse \ group[s]
    /\ Goto(s, "off")
    /\ group' = [group EXCEPT ![s] = {}]
    /\ merged' = [merged EXCEPT ![s] = {}]
    /\ outs' = [outs EXCEPT ![s] = {}]
    /\ todo' = [todo EXCEPT ![s] = {}]
    /\ UNCHANGED <<diskVars, storeVars, gens, gensValid, lpc, level, found, held, enabled,
                   compacting, gateVars, clientVars, budget>>

(***************************************************************************)
(* Starting and stopping level compactions.                                *)
(***************************************************************************)

\* The compaction loop and every compaction it started have returned.
Quiet == lpc = "off" /\ \A s \in Slots : jpc[s] = "off"

DisableNoWait(x, n) ==                                           \* mutant: does not wait
    /\ levelWorkers' = levelWorkers + n
    /\ IF levelWorkers = 0 /\ compactionDone = "open"
         THEN enabled' = FALSE /\ compactionDone' = "closed"
         ELSE UNCHANGED <<enabled, compactionDone>>
    /\ spc' = [spc EXCEPT ![x] = "in"]

\* disableLevelCompactions by x; with wait n is 1.
DisableLevelCompactions(x, n) ==
    /\ levelWorkers' = levelWorkers + n
    /\ IF levelWorkers = 0 /\ compactionDone = "open"
         THEN enabled' = FALSE /\ compactionDone' = "closed"
         ELSE UNCHANGED <<enabled, compactionDone>>
    /\ spc' = [spc EXCEPT ![x] =
                 IF levelWorkers = 0 /\ compactionDone = "open" THEN "first"
                 ELSE IF levelWorkers = 0 \/ compactionDone = "nil" THEN "in"
                 ELSE "other"]

\* wg.Wait returns to the caller that closed the channel, and with it to the others.
FirstDone(x) ==
    /\ spc[x] = "first" /\ Quiet
    /\ compactionDone' = "nil"
    /\ spc' = [y \in Stoppers |-> IF y = x THEN "in" ELSE IF spc[y] = "other" THEN "go" ELSE spc[y]]
    /\ UNCHANGED <<diskVars, storeVars, planVars, jobVars, levelWorkers, delKeys, delFiles,
                   clientVars, budget>>

OtherDoneNil(x) ==                                               \* mutant: reads the channel again
    /\ spc[x] = "other" /\ compactionDone = "closed" /\ Quiet
    /\ spc' = [spc EXCEPT ![x] = "in"]
    /\ UNCHANGED <<diskVars, storeVars, planVars, jobVars, levelWorkers, compactionDone, delKeys,
                   delFiles, clientVars, budget>>

\* Another caller waits for the channel it read and for the same wait group.
OtherDone(x) ==
    /\ spc[x] = "go" \/ (spc[x] = "other" /\ compactionDone = "closed" /\ Quiet)
    /\ spc' = [spc EXCEPT ![x] = "in"]
    /\ UNCHANGED <<diskVars, storeVars, planVars, jobVars, levelWorkers, compactionDone,
                   delKeys, delFiles, clientVars, budget>>

\* enableLevelCompactions by x; with wait n is 1.
EnableLevelCompactions(x, n) ==
    /\ levelWorkers' = levelWorkers - n
    /\ IF levelWorkers' = 0 /\ compactionDone = "nil"
         THEN enabled' = TRUE /\ compactionDone' = "open" /\ lpc' = "tick"
         ELSE UNCHANGED <<enabled, compactionDone, lpc>>
    /\ spc' = [spc EXCEPT ![x] = "idle"]

\* SetCompactionsEnabled(false) and, later, SetCompactionsEnabled(true).
SetCompactionsDisabled ==
    /\ Up /\ spc[Toggler] = "idle" /\ Spend("toggle")
    /\ DisableLevelCompactions(Toggler, 0)
    /\ UNCHANGED <<diskVars, storeVars, planVars, compacting, jpc, group, merged, outs,
                   todo, delKeys, delFiles, clientVars>>

SetCompactionsEnabled ==
    /\ spc[Toggler] = "in"
    /\ EnableLevelCompactions(Toggler, 0)
    /\ UNCHANGED <<diskVars, storeVars, inUse, gens, gensValid, level, found, held, compacting,
                   jpc, group, merged, outs, todo, delKeys, delFiles, clientVars, budget>>

(***************************************************************************)
(* Deletes: Engine.DeleteRangeBatch, FileStore.Apply, the tombstones.      *)
(***************************************************************************)

DeleteBegin(d) ==
    /\ phase = "up" /\ spc[d] = "idle" /\ Spend("delete")
    /\ \E ks \in SUBSET Key :
         /\ ks # {}
         /\ delKeys' = [delKeys EXCEPT ![d] = ks]
         /\ asked' = asked \cup ks
    /\ DisableLevelCompactions(d, 1)
    /\ UNCHANGED <<diskVars, storeVars, planVars, compacting, jpc, group, merged, outs,
                   todo, delFiles, phase, globbed, cursor, written, deleted, stray>>

\* Apply visits the files of the store under f.mu, which also protects them while Apply
\* refers to them; those with some of the keys are changed.  The first of the two calls of
\* Apply, which changes nothing, is left out.
ApplyBegin(d) ==
    /\ spc[d] = "in" /\ Readable /\ files \subseteq open
    /\ delFiles' = [delFiles EXCEPT ![d] = {f \in files : delKeys[d] \cap InFile(f) # {}}]
    /\ spc' = [spc EXCEPT ![d] = "apply"]
    /\ UNCHANGED <<diskVars, storeVars, planVars, jobVars, levelWorkers, compactionDone,
                   delKeys, clientVars, budget>>

\* AddRange, once for each key of the file in order, writes a new tombstone file with that
\* key alone: the last one stays.
Tombstone(f, ks) == {k \in ks : \A j \in ks : j <= k}

\* One file: the tombstones are written, Commit applies the tombstone file to the index.
DeleteFile(d, f) ==
    /\ spc[d] = "apply" /\ f \in delFiles[d]
    /\ LET ks == delKeys[d] \cap InFile(f) IN
         IF ks = {} THEN UNCHANGED <<tombs, gone>>
         ELSE /\ tombs' = [tombs EXCEPT ![f] = Tombstone(f, ks)]
              /\ gone' = [gone EXCEPT ![f] = @ \cup Tombstone(f, ks)]
    /\ delFiles' = [delFiles EXCEPT ![d] = @ \ {f}]
    /\ UNCHANGED <<data, live, tmp, files, open, refs, fsLock, purging, generation,
                   planVars, jobVars, levelWorkers, compactionDone, spc, delKeys,
                   clientVars, budget>>

\* Apply gives up the read lock.
ApplyEnd(d) ==
    /\ spc[d] = "apply" /\ delFiles[d] = {}
    /\ spc' = [spc EXCEPT ![d] = "stamp"]
    /\ UNCHANGED <<diskVars, storeVars, planVars, jobVars, levelWorkers, compactionDone,
                   delKeys, delFiles, clientVars, budget>>

\* Apply takes the write lock to record that the files have changed.
ApplyStamp(d) ==
    /\ spc[d] = "stamp" /\ Unlocked
    /\ gensValid' = FALSE
    /\ spc' = [spc EXCEPT ![d] = "out"]
    /\ deleted' = deleted \cup (delKeys[d] \ InFiles)
    /\ written' = written \ (delKeys[d] \ InFiles)
    /\ UNCHANGED <<diskVars, storeVars, inUse, gens, lpc, level, found, held, jobVars,
                   levelWorkers, compactionDone, delKeys, delFiles, phase, globbed, cursor,
                   asked, stray, budget>>

\* The deferred enableLevelCompactions(true).
DeleteEnd(d) ==
    /\ spc[d] = "out"
    /\ EnableLevelCompactions(d, 1)
    /\ delKeys' = [delKeys EXCEPT ![d] = {}]
    /\ UNCHANGED <<diskVars, storeVars, inUse, gens, gensValid, level, found, held, compacting,
                   jpc, group, merged, outs, todo, delFiles, clientVars, budget>>

(***************************************************************************)
(* The end of the process and the next one.                                *)
(***************************************************************************)
Crash ==
    /\ Up /\ Spend("crash")
    /\ phase' = "down"
    /\ files' = {} /\ open' = {} /\ purging' = {} /\ inUse' = {} /\ gens' = {}
    /\ found' = {} /\ compacting' = {} /\ globbed' = {}
    /\ refs' = [f \in File |-> 0] /\ gone' = [f \in File |-> {}]
    /\ fsLock' = NoSlot /\ generation' = 0
    /\ gensValid' = FALSE /\ lpc' = "off" /\ enabled' = FALSE
    /\ level' = 1 /\ held' = [l \in 1..4 |-> <<>>]
    /\ jpc' = [s \in Slots |-> "off"] /\ group' = [s \in Slots |-> {}]
    /\ outs' = group' /\ todo' = group'
    /\ merged' = [s \in Slots |-> {}]
    /\ levelWorkers' = 0 /\ compactionDone' = "nil"
    /\ spc' = [x \in Stoppers |-> "idle"]
    /\ delKeys' = [d \in Deleters |-> {}] /\ delFiles' = [d \in Deleters |-> {}]
    /\ cursor' = [c \in Cursors |-> {}]
    /\ stray' = (stray \/ \E f \in File \ live : tombs[f] # {})
    /\ UNCHANGED <<diskVars, written, asked, deleted>>

\* FileStore.Open reads every .sst file with its tombstones, then the loop starts.
Reopen ==
    /\ phase = "down"
    /\ phase' = "opening"
    /\ files' = live /\ open' = live
    /\ gone' = [f \in File |-> IF f \in live THEN tombs[f] ELSE {}]
    /\ generation' = IF live = {} THEN 0 ELSE Last(live)[1] + 1
    /\ enabled' = TRUE /\ compactionDone' = "open" /\ lpc' = "tick"
    /\ UNCHANGED <<diskVars, refs, fsLock, purging, inUse, gens, gensValid, level, found, held,
                   compacting, jpc, group, merged, outs, todo, levelWorkers, spc, delKeys,
                   delFiles, globbed, cursor, written, asked, deleted, stray, budget>>

\* cleanupTempTSMFiles, the last step of Engine.Open, while compactions may run.
CleanupGlob ==
    /\ phase = "opening"
    /\ phase' = "cleaning"
    /\ globbed' = tmp
    /\ UNCHANGED <<diskVars, storeVars, planVars, jobVars, gateVars, cursor, written, asked,
                   deleted, stray, budget>>

\* One file is removed; the first that is missing ends it with an error the callers of
\* Open ignore.
CleanupRemove ==
    /\ phase = "cleaning"
    /\ IF globbed = {}
         THEN phase' = "up" /\ UNCHANGED <<tmp, globbed>>
         ELSE IF First(globbed) \in tmp
                THEN /\ tmp' = tmp \ {First(globbed)}
                     /\ globbed' = globbed \ {First(globbed)}
                     /\ UNCHANGED phase
                ELSE phase' = "up" /\ globbed' = {} /\ UNCHANGED tmp
    /\ UNCHANGED <<data, live, tombs, storeVars, planVars, jobVars, gateVars, cursor,
                   written, asked, deleted, stray, budget>>

-----------------------------------------------------------------------------
Loop == LoopQuit \/ FindGenerations \/ Acquire \/ Start

Job(s) ==
    \/ JobBegin(s) \/ JobRef(s) \/ JobWrite(s) \/ JobWriteFails(s) \/ JobCollides(s)
    \/ JobCheck(s) \/ JobRename(s) \/ JobRenameFails(s) \/ JobLock(s) \/ JobSwap(s)
    \/ JobUntomb(s) \/ JobSwapFails(s) \/ JobInstall(s) \/ JobRelease(s)

DeleteStep(d) ==
    \/ ApplyBegin(d) \/ ApplyEnd(d) \/ ApplyStamp(d) \/ DeleteEnd(d)
    \/ \E f \in File : DeleteFile(d, f)

Next ==
    \/ Flush
    \/ \E c \in Cursors : KeyCursor(c) \/ CursorClose(c)
    \/ \E f \in File : Purge(f)
    \/ Loop
    \/ \E s \in Slots : Job(s)
    \/ \E x \in Stoppers : FirstDone(x) \/ OtherDone(x)
    \/ \E d \in Deleters : DeleteBegin(d) \/ DeleteStep(d)
    \/ SetCompactionsDisabled \/ SetCompactionsEnabled
    \/ Crash \/ Reopen \/ CleanupGlob \/ CleanupRemove

Spec == Init /\ [][Next]_vars

\* Goroutines are scheduled, the loop's select, which chooses at random, sees a closed
\* channel sooner or later, cursors get closed: everything but new requests, failures and
\* crashes goes on.  Acquire is enabled whenever lpc is "acquire", so its weak fairness is
\* that lpc leaves that value.
Fairness ==
    /\ SF_vars(LoopQuit)
    /\ WF_vars((lpc = "plan" /\ FindGenerations) \/ Start) /\ []<>(lpc # "acquire")
    /\ WF_vars(\E s \in Slots : Job(s))
    /\ WF_vars(\E x \in Stoppers : FirstDone(x) \/ OtherDone(x))
    /\ WF_vars(\E d \in Deleters : DeleteStep(d))
    /\ WF_vars(\E c \in Cursors : CursorClose(c))
    /\ WF_vars(\E f \in File : Purge(f))

FairSpec == Spec /\ Fairness

(***************************************************************************)
(* Properties.                                                             *)
(***************************************************************************)

\* The reader of a file somebody refers to is never closed (SSTReader.Ref, InUse in replace
\* and in the purger): a query, or a compaction, does not read unmapped memory.
InUseStaysOpen ==
    [][phase' # "down" => \A f \in open : refs[f] > 0 => f \in open']_vars

\* No file is in two compactions, or in a plan the loop holds and in a compaction
\* (acquire and Release of the planner).
PlansDisjoint ==
    /\ \A s, t \in Slots : s # t => group[s] \cap group[t] = {}
    /\ \A s \in Slots : group[s] \cap HeldFiles(held) = {}

\* A compaction never writes its output over a file that queries look into (the names
\* made by compact and writeNewFiles, renamed by replace).
NoClobber ==
    \A s \in Slots : jpc[s] \in {"check", "rename"} => outs[s] \cap files = {}

\* replace was never cut short between removing an old file and what belongs to it: by an
\* error, or by a crash that left a tombstone file for the next file of that name.
Untorn == budget.swap = MaxSwapFailures /\ ~stray

\* Every key that was written, and that no delete was asked for, is in a file a restart
\* would load, at every moment of a compaction, of its failure and of a crash (the order
\* of renames and removals in replace).
Preserved ==
    Untorn => written \ asked \subseteq UNION {data[f] \ tombs[f] : f \in live}

\* A query finds every key that was written and not deleted in an open file, whatever
\* compactions replace (FileStore.replace installs the new list in one step).
Served ==
    Untorn /\ phase = "up" /\ Readable =>
        written \ asked \subseteq UNION {InFile(f) : f \in files \cap open}

\* What a delete removed does not come back with the output of a compaction that read the
\* files before (disableLevelCompactions in DeleteRangeBatch).  Not once the application has
\* switched compactions off, which makes a delete go on beside one that is still running, and
\* not after a restart, which reads only the tombstones of the last delete of a file.
NoResurrection ==
    Up /\ budget.toggle = MaxToggles /\ budget.crash = MaxCrashes => deleted \cap InFiles = {}

\* When a delete is done, queries find none of its keys ("AddRange adds all keys to the
\* tombstone").
DeleteRemoves == \A d \in Deleters : spc[d] = "out" => delKeys[d] \cap InFiles = {}

\* Every delete returns: it waits for the compactions, which it interrupts.
DeletesReturn == []<>(\A d \in Deleters : spc[d] = "idle")

\* A replaced file that was in use is removed once its queries are closed.
EventuallyPurged == []<>(purging = {})
=============================================================================
