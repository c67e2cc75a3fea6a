-------------------------- MODULE Compaction_proofs --------------------------
(***************************************************************************)
(* Proofs about Compaction, for any number of compactions, queries, deletes *)
(* and crashes and for every planner that satisfies PlanAssumption: the     *)
(* readers, plans and gate, then the names and contents of the files.       *)
(***************************************************************************)
EXTENDS Compaction, Least

(* A compaction that has references to its old files, that reads them or replaces them,
   that has outputs. *)
Reading  == {"write", "check", "failed"}
Planned  == {"write", "check", "failed", "rename", "swap", "untomb"}
Merging  == {"check", "rename", "swap", "untomb"}
Swapping == {"swap", "untomb"}

(* While the process is down there is nothing in memory. *)
DownInv ==
    phase = "down" =>
      /\ files = {} /\ open = {} /\ purging = {} /\ inUse = {} /\ found = {}
      /\ gensValid = FALSE /\ lpc = "off" /\ held = [l \in 1..4 |-> <<>>]
      /\ levelWorkers = 0 /\ compactionDone = "nil" /\ fsLock = NoSlot
      /\ \A s \in Slots : jpc[s] = "off"
      /\ \A x \in Stoppers : spc[x] = "idle"
      /\ \A c \in Cursors : cursor[c] = {}

(* The references to a reader are those of the open cursors and the reading compactions;
   levelWorkers counts the deletes. *)
CursorsOf(f) == {c \in Cursors : f \in cursor[c]}
ReadersOf(f) == {s \in Slots : jpc[s] \in Reading /\ f \in group[s]}
Working      == {d \in Deleters : spc[d] # "idle"}

CountInv ==
    /\ \A f \in File : refs[f] = Cardinality(CursorsOf(f)) + Cardinality(ReadersOf(f))
    /\ levelWorkers = Cardinality(Working)

(* A planned group has a name for its outputs. *)
Named(g) == g \in SUBSET File /\ g # {} /\ Output(g, 2) \in File

PlanInv ==
    /\ lpc \in {"plan", "acquire"} => level \in Levels
    /\ \A l \in 1..4 : \A i \in DOMAIN held[l] : Named(held[l][i]) /\ held[l][i] \subseteq inUse
    /\ \A l, m \in 1..4 : \A i \in DOMAIN held[l], j \in DOMAIN held[m] :
         l # m \/ i # j => held[l][i] \cap held[m][j] = {}

GroupInv ==
    /\ \A s \in Slots : /\ jpc[s] = "off" => group[s] = {}
                        /\ jpc[s] # "off" => Named(group[s]) /\ group[s] \subseteq inUse
    /\ \A s, t \in Slots : s # t => group[s] \cap group[t] = {}
    /\ \A s \in Slots, l \in 1..4 : \A i \in DOMAIN held[l] : group[s] \cap held[l][i] = {}

(* The outputs of a compaction, and what is left to do with them or with the old files. *)
OutputsOf(s) == {Output(group[s], n) : n \in {i \in 1..2 : Part(merged[s], i) # {}}}
JobInvOf(s) ==
    /\ jpc[s] \in Merging => outs[s] = OutputsOf(s)
    /\ jpc[s] = "rename" => todo[s] \subseteq outs[s]
    /\ jpc[s] \in Swapping => todo[s] \subseteq group[s]
    /\ jpc[s] = "untomb" => todo[s] # {}
JobInv == \A s \in Slots : JobInvOf(s)


USE DEF diskVars, storeVars, planVars, jobVars, gateVars, clientVars

(* A file is a pair of numbers. *)
LEMMA FileFacts ==
  ASSUME NEW f \in File
  PROVE  f[1] \in 1..MaxGen /\ f[2] \in 1..MaxSeq /\ f = <<f[1], f[2]>>
  BY DEF File

(* The order of file names has a first and a last in every set of files. *)
LEMMA FirstLast ==
  ASSUME NEW fs \in SUBSET File, fs # {}
  PROVE  /\ First(fs) \in fs /\ \A g \in fs : Before(First(fs), g)
         /\ Last(fs) \in fs /\ \A g \in fs : Before(g, Last(fs))
<1> USE CompactionAssumption
<1> DEFINE gs == {f[1] : f \in fs}
<1>1. gs \in SUBSET Nat /\ gs # {} /\ \A x \in gs : x <= MaxGen
  BY SMTT(30), FileFacts
<1>2. \E f \in fs : \A g \in fs : Before(f, g)
  <2>1. PICK x \in gs : \A y \in gs : x <= y
    BY <1>1, NatLeast
  <2> DEFINE qs == {f[2] : f \in {h \in fs : h[1] = x}}
  <2>2. qs \in SUBSET Nat /\ qs # {}
    BY SMTT(30), FileFacts
  <2>3. PICK q \in qs : \A y \in qs : q <= y
    BY <2>2, NatLeast
  <2>4. PICK f \in fs : f[1] = x /\ f[2] = q
    OBVIOUS
  <2>5. ASSUME NEW g \in fs PROVE Before(f, g)
    <3>1. x <= g[1] /\ x \in Nat /\ g[1] \in Nat
      BY <2>1, <1>1, FileFacts
    <3>2. g[1] = x => q <= g[2]
      BY <2>3
    <3> QED
      BY <2>4, <3>1, <3>2 DEF Before
  <2> QED
    BY <2>4, <2>5
<1>3. \E f \in fs : \A g \in fs : Before(g, f)
  <2>1. PICK x \in gs : \A y \in gs : y <= x
    BY <1>1, NatGreatest
  <2> DEFINE qs == {f[2] : f \in {h \in fs : h[1] = x}}
  <2>2. qs \in SUBSET Nat /\ qs # {} /\ \A y \in qs : y <= MaxSeq
    BY SMTT(30), FileFacts
  <2>3. PICK q \in qs : \A y \in qs : y <= q
    BY <2>2, NatGreatest
  <2>4. PICK f \in fs : f[1] = x /\ f[2] = q
    OBVIOUS
  <2>5. ASSUME NEW g \in fs PROVE Before(g, f)
    <3>1. g[1] <= x /\ x \in Nat /\ g[1] \in Nat
      BY <2>1, <1>1, FileFacts
    <3>2. g[1] = x => g[2] <= q
      BY <2>3
    <3> QED
      BY <2>4, <3>1, <3>2 DEF Before
  <2> QED
    BY <2>4, <2>5
<1>4. First(fs) \in fs /\ \A g \in fs : Before(First(fs), g)
  BY <1>2, Zenon DEF First
<1>5. Last(fs) \in fs /\ \A g \in fs : Before(g, Last(fs))
  BY <1>3, Zenon DEF Last
<1> QED
  BY <1>4, <1>5

(* The next level to plan is one of the levels. *)
LEMMA MinLevelIn ==
  ASSUME NEW ls \in SUBSET (1..4), ls # {}
  PROVE  MinLevel(ls) \in ls
<1>1. \E l \in ls : \A m \in ls : l <= m
  BY NatLeast
<1> QED
  BY <1>1, Zenon DEF MinLevel

(* The names of the outputs of a group: after its last file, of the same generation. *)
LEMMA OutputFacts ==
  ASSUME NEW g, Named(g), NEW n \in 1..2
  PROVE  /\ Output(g, n) \in File
         /\ Output(g, n)[1] = Last(g)[1] /\ Output(g, n)[2] = Last(g)[2] + n
         /\ Last(g) \in g /\ Last(g) \in File /\ \A f \in g : Before(f, Last(g))
<1>1. Last(g) \in g /\ Last(g) \in File /\ \A f \in g : Before(f, Last(g))
  BY FirstLast DEF Named
<1>2. Last(g)[1] \in 1..MaxGen /\ Last(g)[2] \in 1..MaxSeq
  BY <1>1, FileFacts
<1>3. Last(g)[2] + 2 \in 1..MaxSeq
  BY FileFacts DEF Named, Output
<1>4. Last(g)[2] + n \in 1..MaxSeq
  BY <1>2, <1>3, CompactionAssumption
<1> QED
  BY <1>1, <1>2, <1>4 DEF Output, File

(* One more, one less in a finite set. *)
LEMMA CardAdd ==
  ASSUME NEW S, IsFiniteSet(S), NEW x, x \notin S
  PROVE  Cardinality(S \cup {x}) = Cardinality(S) + 1 /\ Cardinality(S) \in Nat
  BY FS_AddElement, FS_CardinalityType

(* Counting a set without one of its elements. *)
LEMMA CardRemove ==
  ASSUME NEW S, IsFiniteSet(S), NEW x \in S
  PROVE  Cardinality(S \ {x}) = Cardinality(S) - 1 /\ Cardinality(S) \in Nat
  BY FS_RemoveElement, FS_CardinalityType

(***************************************************************************)
(* Types, counts and plans.                                                *)
(***************************************************************************)
BaseInv == TypeOK /\ DownInv /\ CountInv /\ PlanInv /\ GroupInv /\ JobInv

USE DEF TypeOK

(* Steps that leave the loop and the compactions alone, but for lpc. *)
Outside ==
    \/ Flush \/ CleanupGlob \/ CleanupRemove
    \/ \E c \in Cursors : KeyCursor(c) \/ CursorClose(c)
    \/ \E f \in File : Purge(f)
    \/ \E x \in Stoppers : FirstDone(x) \/ OtherDone(x)
    \/ \E d \in Deleters : DeleteBegin(d) \/ DeleteStep(d)
    \/ SetCompactionsDisabled \/ SetCompactionsEnabled
    \/ Reopen

(* The steps of a compaction but the last. *)
JobStep(s) ==
    \/ JobBegin(s) \/ JobRef(s) \/ JobWrite(s) \/ JobWriteFails(s) \/ JobCollides(s)
    \/ JobCheck(s) \/ JobRename(s) \/ JobRenameFails(s) \/ JobLock(s) \/ JobSwap(s)
    \/ JobUntomb(s) \/ JobSwapFails(s) \/ JobInstall(s)

(* Every step is of one of these kinds. *)
LEMMA Steps ==
  ASSUME Next
  PROVE  Outside \/ Loop \/ Crash \/ (\E s \in Slots : JobStep(s) \/ JobRelease(s))
  BY DEF Next, Outside, Job, JobStep

(* What the steps outside the compactions leave alone. *)
LEMMA OutsideFrame ==
  ASSUME Outside
  PROVE  /\ UNCHANGED <<inUse, level, found, held, compacting, jpc, group, merged, outs, todo>>
         /\ gens' = gens
         /\ lpc' \in {lpc, "tick"}
<1>1. ASSUME NEW d \in Deleters, DeleteBegin(d) \/ DeleteStep(d)
      PROVE  /\ UNCHANGED <<inUse, level, found, held, compacting, jpc, group, merged, outs, todo>>
             /\ gens' = gens
             /\ lpc' \in {lpc, "tick"}
  BY <1>1 DEF DeleteBegin, DeleteStep, ApplyBegin, ApplyEnd, ApplyStamp, DeleteEnd, DeleteFile,
              DisableLevelCompactions, EnableLevelCompactions
<1>2. ASSUME \/ \E x \in Stoppers : FirstDone(x) \/ OtherDone(x)
             \/ SetCompactionsDisabled \/ SetCompactionsEnabled
      PROVE  /\ UNCHANGED <<inUse, level, found, held, compacting, jpc, group, merged, outs, todo>>
             /\ gens' = gens
             /\ lpc' \in {lpc, "tick"}
  BY <1>2 DEF FirstDone, OtherDone, SetCompactionsDisabled, SetCompactionsEnabled,
              DisableLevelCompactions, EnableLevelCompactions
<1>3. ASSUME \/ Flush \/ CleanupGlob \/ CleanupRemove \/ Reopen
             \/ \E c \in Cursors : KeyCursor(c) \/ CursorClose(c)
             \/ \E f \in File : Purge(f)
      PROVE  /\ UNCHANGED <<inUse, level, found, held, compacting, jpc, group, merged, outs, todo>>
             /\ gens' = gens
             /\ lpc' \in {lpc, "tick"}
  BY <1>3 DEF Flush, CleanupGlob, CleanupRemove, KeyCursor, CursorClose, Purge, Reopen
<1> QED
  BY <1>1, <1>2, <1>3 DEF Outside

(* What a step of a compaction leaves alone. *)
LEMMA JobFrame ==
  ASSUME TypeOK, NEW s \in Slots, JobStep(s)
  PROVE  /\ UNCHANGED <<inUse, gens, lpc, level, found, held, group, enabled, gateVars, clientVars>>
         /\ generation' = generation
         /\ jpc[s] # "off" /\ jpc'[s] # "off" /\ jpc' \in [Slots -> JobPcs]
         /\ \A t \in Slots \ {s} : jpc'[t] = jpc[t]
<1>1. /\ UNCHANGED <<inUse, gens, lpc, level, found, held, group, enabled, gateVars, clientVars>>
      /\ generation' = generation
  BY DEF JobStep, JobBegin, JobRef, JobWrite, JobWriteFails, JobCollides, JobCheck, JobRename,
         JobRenameFails, JobLock, JobSwap, JobUntomb, JobSwapFails, JobInstall
<1>2. /\ jpc[s] # "off"
      /\ \/ jpc' = jpc
         \/ \E p \in JobPcs \ {"off"} : jpc' = [jpc EXCEPT ![s] = p]
  BY DEF JobStep, JobBegin, JobRef, JobWrite, JobWriteFails, JobCollides, JobCheck, JobRename,
         JobRenameFails, JobLock, JobSwap, JobUntomb, JobSwapFails, JobInstall, Goto, JobPcs
<1> QED
  BY <1>1, <1>2 DEF JobType

(* While the process is down it can only be started. *)
LEMMA DownStep ==
  ASSUME TypeOK, DownInv, Next, phase = "down"
  PROVE  Reopen
<1> USE DEF DownInv
<1>1. ~(\E s \in Slots : JobStep(s) \/ JobRelease(s))
  BY JobFrame DEF JobRelease
<1>2. ~Loop
  BY DEF Loop, LoopQuit, FindGenerations, Acquire, Start
<1>3. ~Crash
  BY DEF Crash, Up
<1>4. ~(\E d \in Deleters : DeleteBegin(d) \/ DeleteStep(d))
  BY ZenonT(30) DEF DeleteBegin, DeleteStep, ApplyBegin, ApplyEnd, ApplyStamp, DeleteEnd, DeleteFile,
         Stoppers
<1>5. ~(\/ \E x \in Stoppers : FirstDone(x) \/ OtherDone(x)
        \/ SetCompactionsDisabled \/ SetCompactionsEnabled)
  BY DEF FirstDone, OtherDone, SetCompactionsDisabled, SetCompactionsEnabled, Up, Stoppers
<1>6. ~(\/ Flush \/ CleanupGlob \/ CleanupRemove
        \/ \E c \in Cursors : KeyCursor(c) \/ CursorClose(c)
        \/ \E f \in File : Purge(f))
  BY DEF Flush, CleanupGlob, CleanupRemove, KeyCursor, CursorClose, Purge, Up
<1> QED
  BY <1>1, <1>2, <1>3, <1>4, <1>5, <1>6, Steps DEF Outside

(* DownInv is preserved. *)
LEMMA DownNext ==
  ASSUME TypeOK, DownInv, Next
  PROVE  DownInv'
<1>1. CASE Crash
  BY <1>1 DEF Crash, DownInv
<1>2. CASE Reopen
  BY <1>2 DEF Reopen, DownInv
<1>3. CASE ~Crash /\ ~Reopen
  <2>1. phase # "down"
    BY <1>3, DownStep
  <2>2. phase' # "down"
    <3>1. ASSUME NEW s \in Slots, JobStep(s) \/ JobRelease(s) PROVE phase' # "down"
      BY <2>1, <3>1, JobFrame DEF JobRelease
    <3>2. ASSUME Loop PROVE phase' # "down"
      BY <2>1, <3>2 DEF Loop, LoopQuit, FindGenerations, Acquire, Start
    <3>3. ASSUME Outside PROVE phase' # "down"
      BY <1>3, <2>1, <3>3 DEF Outside, Flush, CleanupGlob, CleanupRemove, KeyCursor, CursorClose,
         Purge, FirstDone, OtherDone, DeleteBegin, DeleteStep, ApplyBegin, ApplyEnd, ApplyStamp,
         DeleteEnd, DeleteFile, SetCompactionsDisabled, SetCompactionsEnabled
    <3> QED
      BY <1>3, <3>1, <3>2, <3>3, Steps
  <2> QED
    BY <2>2 DEF DownInv
<1> QED
  BY <1>1, <1>2, <1>3

(* What a plan holds, file by file. *)
LEMMA HeldIn ==
  /\ \A gs, x : x \in GroupFiles(gs) <=> \E i \in DOMAIN gs : x \in gs[i]
  /\ \A h, x : x \in HeldFiles(h) <=> \E l \in 1..4 : \E i \in DOMAIN h[l] : x \in h[l][i]
  BY DEF HeldFiles, GroupFiles

(* acquire takes the groups of a level all or none, and none of another plan. *)
LEMMA AcquirePlan ==
  ASSUME BaseInv, Acquire
  PROVE  PlanInv' /\ GroupInv'
<1> USE DEF BaseInv
<1> DEFINE gs == PlanGroups(level, found)
<1>1. level \in Levels /\ level \in 1..4 /\ found \in SUBSET File
  BY DEF Acquire, PlanInv, PlanType
<1>2. /\ gs \in Seq((SUBSET found) \ {{}})
      /\ \A i, j \in DOMAIN gs : i # j => gs[i] \cap gs[j] = {}
  BY <1>1, PlanAssumption
<1>3. \A i \in DOMAIN gs : gs[i] \in SUBSET File /\ gs[i] # {}
  BY <1>1, <1>2
<1>4. lpc' \in {"plan", "acquire"} => level' \in Levels
  <2> DEFINE next == {l \in Levels : l > level}
  <2>1. lpc' \in {"plan", "acquire"} => next # {} /\ level' = MinLevel(next)
    BY DEF Acquire
  <2>2. next \in SUBSET (1..4) /\ next \subseteq Levels
    BY CompactionAssumption
  <2> HIDE DEF next
  <2> QED
    BY <2>1, <2>2, MinLevelIn
<1>5. UNCHANGED <<jpc, group>>
  BY DEF Acquire
<1>6. CASE UNCHANGED <<inUse, held>>
  BY <1>4, <1>5, <1>6 DEF PlanInv, GroupInv
<1>7. CASE /\ Free(gs) /\ \A i \in DOMAIN gs : Output(gs[i], 2) \in File
           /\ inUse' = inUse \cup GroupFiles(gs) /\ held' = [held EXCEPT ![level] = gs]
  <2> HIDE DEF gs
  <2>1. \A i \in DOMAIN gs : gs[i] \cap inUse = {} /\ gs[i] \subseteq inUse' /\ Named(gs[i])
    BY <1>3, <1>7, HeldIn DEF Free, Named
  <2>2. inUse \subseteq inUse'
    BY <1>7
  <2>3. \A l \in 1..4 : held'[l] = IF l = level THEN gs ELSE held[l]
    BY <1>1, <1>7 DEF PlanType
  <2>4. \A l \in 1..4 : \A i \in DOMAIN held'[l] :
          Named(held'[l][i]) /\ held'[l][i] \subseteq inUse'
    BY <2>1, <2>2, <2>3 DEF PlanInv
  <2>5. ASSUME NEW l \in 1..4, NEW m \in 1..4, NEW i \in DOMAIN held'[l], NEW j \in DOMAIN held'[m],
               l # m \/ i # j
        PROVE  held'[l][i] \cap held'[m][j] = {}
    <3>1. CASE l = level /\ m = level
      BY <1>2, <2>3, <2>5, <3>1
    <3>2. CASE l = level /\ m # level
      BY <2>1, <2>3, <2>5, <3>2 DEF PlanInv
    <3>3. CASE l # level /\ m = level
      BY <2>1, <2>3, <2>5, <3>3 DEF PlanInv
    <3>4. CASE l # level /\ m # level
      BY <2>3, <2>5, <3>4 DEF PlanInv
    <3> QED
      BY <3>1, <3>2, <3>3, <3>4
  <2>6. PlanInv'
    BY <1>4, <2>4, <2>5 DEF PlanInv
  <2>7. \A s \in Slots, l \in 1..4 : \A i \in DOMAIN held'[l] : group[s] \cap held'[l][i] = {}
    <3>1. \A s \in Slots : group[s] \subseteq inUse
      BY DEF GroupInv
    <3> QED
      BY <2>1, <2>3, <3>1 DEF GroupInv
  <2>8. GroupInv'
    BY <1>5, <2>2, <2>7 DEF GroupInv
  <2> QED
    BY <2>6, <2>8
<1> QED
  BY <1>6, <1>7 DEF Acquire

(* A started group stays in use, the plans that are not started are released. *)
LEMMA StartPlan ==
  ASSUME BaseInv, Start
  PROVE  PlanInv' /\ GroupInv'
<1> USE DEF BaseInv
<1>1. held' = [l \in 1..4 |-> <<>>] /\ lpc' = "tick"
  BY DEF Start
<1>2. PlanInv'
  BY <1>1 DEF PlanInv
<1>3. \A t \in Slots : /\ group[t] \subseteq inUse /\ \A x \in group[t] : x \notin HeldFiles(held)
                       /\ jpc[t] = "off" => group[t] = {}
                       /\ jpc[t] # "off" => Named(group[t])
  BY HeldIn DEF GroupInv
<1>4. \A s \in Slots, l \in 1..4 : \A i \in DOMAIN held'[l] : group'[s] \cap held'[l][i] = {}
  BY <1>1
<1>5. CASE inUse' = inUse \ HeldFiles(held) /\ UNCHANGED <<jpc, group>>
  BY <1>2, <1>3, <1>4, <1>5 DEF GroupInv
<1>6. ASSUME NEW l \in 1..4, NEW s \in Slots, held[l] # <<>>, jpc[s] = "off",
             jpc' = [jpc EXCEPT ![s] = "begin"], group' = [group EXCEPT ![s] = Head(held[l])],
             inUse' = inUse \ HeldFiles([held EXCEPT ![l] = Tail(@)])
      PROVE  GroupInv'
  <2> DEFINE g == Head(held[l])
             rest == [held EXCEPT ![l] = Tail(@)]
  <2>1. held[l] \in Seq(SUBSET File)
    BY DEF PlanType
  <2>2. /\ g = held[l][1] /\ 1 \in DOMAIN held[l]
        /\ \A i \in DOMAIN Tail(held[l]) : Tail(held[l])[i] = held[l][i + 1]
                                           /\ i + 1 \in DOMAIN held[l] /\ i + 1 # 1
    BY <1>6, <2>1
  <2>3. \A m \in 1..4 : rest[m] = IF m = l THEN Tail(held[l]) ELSE held[m]
    BY DEF PlanType
  <2> HIDE DEF g, rest
  <2>4. ASSUME NEW m \in 1..4, NEW j \in DOMAIN rest[m]
        PROVE  /\ g \cap rest[m][j] = {}
               /\ \E i \in DOMAIN held[m] : rest[m][j] = held[m][i]
    <3>1. CASE m = l
      <4>1. rest[m][j] = held[m][j + 1] /\ j + 1 \in DOMAIN held[m] /\ j + 1 # 1
        BY <2>2, <2>3, <3>1
      <4>2. held[l][1] \cap held[m][j + 1] = {}
        BY <2>2, <3>1, <4>1 DEF PlanInv
      <4> QED
        BY <2>2, <4>1, <4>2
    <3>2. CASE m # l
      BY <2>2, <2>3, <3>2 DEF PlanInv
    <3> QED
      BY <3>1, <3>2
  <2>5. \A x \in g : x \notin HeldFiles(rest)
    BY <2>4, HeldIn
  <2>6. \A x : x \in HeldFiles(rest) => x \in HeldFiles(held)
    BY <2>4, HeldIn
  <2>7. Named(g) /\ g \subseteq inUse'
    BY <1>6, <2>2, <2>5 DEF PlanInv, rest
  <2>8. \A t \in Slots : group[t] \subseteq inUse'
    BY <1>3, <1>6, <2>6 DEF rest
  <2>9. \A t \in Slots : g \cap group[t] = {}
    BY <2>2 DEF GroupInv
  <2>10. \A t \in Slots : /\ group'[t] = IF t = s THEN g ELSE group[t]
                          /\ jpc'[t] = IF t = s THEN "begin" ELSE jpc[t]
    BY <1>6 DEF JobType, g
  <2>11. \A t, u \in Slots : t # u => group'[t] \cap group'[u] = {}
    BY <2>9, <2>10 DEF GroupInv
  <2>12. \A t \in Slots : /\ jpc'[t] = "off" => group'[t] = {}
                          /\ jpc'[t] # "off" => Named(group'[t]) /\ group'[t] \subseteq inUse'
    BY <1>3, <2>7, <2>8, <2>10
  <2> QED
    BY <1>4, <2>11, <2>12 DEF GroupInv
<1> QED
  BY <1>2, <1>5, <1>6 DEF Start

(* Release gives the group back, and nothing else. *)
LEMMA ReleasePlan ==
  ASSUME BaseInv, NEW s \in Slots, JobRelease(s)
  PROVE  PlanInv' /\ GroupInv'
<1> USE DEF BaseInv
<1>1. /\ inUse' = inUse \ group[s] /\ UNCHANGED <<lpc, level, held>>
      /\ \A t \in Slots : /\ group'[t] = IF t = s THEN {} ELSE group[t]
                          /\ jpc'[t] = IF t = s THEN "off" ELSE jpc[t]
  BY DEF JobRelease, Goto, JobType
<1>2. \A l \in 1..4 : \A i \in DOMAIN held[l] : held[l][i] \subseteq inUse'
  BY <1>1 DEF PlanInv, GroupInv
<1>3. PlanInv'
  BY <1>1, <1>2 DEF PlanInv
<1>4. \A t \in Slots : /\ jpc'[t] = "off" => group'[t] = {}
                       /\ jpc'[t] # "off" => Named(group'[t]) /\ group'[t] \subseteq inUse'
  BY <1>1 DEF GroupInv
<1>5. \A t, u \in Slots : t # u => group'[t] \cap group'[u] = {}
  BY <1>1 DEF GroupInv
<1>6. \A t \in Slots, l \in 1..4 : \A i \in DOMAIN held'[l] : group'[t] \cap held'[l][i] = {}
  BY <1>1 DEF GroupInv
<1> QED
  BY <1>3, <1>4, <1>5, <1>6 DEF GroupInv

(* PlanInv and GroupInv are preserved. *)
LEMMA PlanNext ==
  ASSUME BaseInv, Next
  PROVE  PlanInv' /\ GroupInv'
<1> USE DEF BaseInv
<1>1. CASE Outside
  <2>1. UNCHANGED <<inUse, level, held, jpc, group>> /\ lpc' \in {lpc, "tick"}
    BY <1>1, OutsideFrame
  <2> QED
    BY <2>1 DEF PlanInv, GroupInv
<1>2. ASSUME NEW s \in Slots, JobStep(s) PROVE PlanInv' /\ GroupInv'
  <2>1. /\ UNCHANGED <<inUse, lpc, level, held, group>>
        /\ jpc[s] # "off" /\ jpc'[s] # "off"
        /\ \A t \in Slots \ {s} : jpc'[t] = jpc[t]
    BY <1>2, JobFrame
  <2>2. PlanInv'
    BY <2>1 DEF PlanInv
  <2>3. GroupInv'
    BY <2>1 DEF GroupInv
  <2> QED
    BY <2>2, <2>3
<1>3. CASE Crash
  <2>1. /\ lpc' = "off" /\ held' = [l \in 1..4 |-> <<>>]
        /\ jpc' = [s \in Slots |-> "off"] /\ group' = [s \in Slots |-> {}]
    BY <1>3 DEF Crash
  <2> QED
    BY <2>1 DEF PlanInv, GroupInv
<1>4. CASE Loop
  <2>1. CASE LoopQuit
    BY <2>1 DEF LoopQuit, PlanInv, GroupInv
  <2>2. CASE FindGenerations
    <3>1. level' = (IF lpc = "tick" THEN MinLevel(Levels) ELSE level) /\ lpc \in {"tick", "plan"}
          /\ UNCHANGED <<inUse, held, jpc, group>>
      BY <2>2 DEF FindGenerations
    <3>2. MinLevel(Levels) \in Levels
      BY CompactionAssumption, MinLevelIn
    <3> QED
      BY <3>1, <3>2 DEF PlanInv, GroupInv
  <2> QED
    BY <1>4, <2>1, <2>2, AcquirePlan, StartPlan DEF Loop
<1> QED
  BY <1>1, <1>2, <1>3, <1>4, Steps, ReleasePlan

(* A step of one compaction leaves the others alone. *)
LEMMA JobOthers ==
  ASSUME TypeOK, NEW s \in Slots, JobStep(s), NEW t \in Slots, t # s
  PROVE  /\ jpc'[t] = jpc[t] /\ group'[t] = group[t] /\ merged'[t] = merged[t]
         /\ outs'[t] = outs[t] /\ todo'[t] = todo[t]
<1> USE DEF JobType, Goto
<1>1. CASE JobBegin(s) \/ JobRef(s) \/ JobWriteFails(s) \/ JobCollides(s) \/ JobRenameFails(s)
  BY <1>1 DEF JobBegin, JobRef, JobWriteFails, JobCollides, JobRenameFails
<1>2. CASE JobWrite(s) \/ JobCheck(s) \/ JobRename(s) \/ JobLock(s)
  BY <1>2 DEF JobWrite, JobCheck, JobRename, JobLock
<1>3. CASE JobSwap(s) \/ JobUntomb(s) \/ JobSwapFails(s) \/ JobInstall(s)
  BY <1>3 DEF JobSwap, JobUntomb, JobSwapFails, JobInstall
<1> QED
  BY <1>1, <1>2, <1>3 DEF JobStep

(* The outputs are fixed when they are written; what is left to do gets less. *)
LEMMA JobStepInv ==
  ASSUME TypeOK, JobInv, NEW s \in Slots, JobStep(s)
  PROVE  JobInvOf(s)'
<1> USE DEF JobType, Goto, Merging, Swapping, JobPcs
<1>0. JobInvOf(s) /\ UNCHANGED group
  BY JobFrame DEF JobInv
<1>1. CASE JobBegin(s) \/ JobRef(s) \/ JobWriteFails(s) \/ JobCollides(s) \/ JobRenameFails(s)
           \/ JobSwapFails(s) \/ JobInstall(s)
  <2>1. jpc'[s] \in {"ref", "release", "write", "failed"}
    BY <1>1 DEF JobBegin, JobRef, JobWriteFails, JobCollides, JobRenameFails, JobSwapFails, JobInstall
  <2> QED
    BY <2>1 DEF JobInvOf
<1>2. CASE JobWrite(s)
  BY <1>0, <1>2 DEF JobWrite, JobInvOf, OutputsOf
<1>3. CASE JobCheck(s)
  <2>1. \/ jpc'[s] = "release"
        \/ jpc[s] = "check" /\ jpc'[s] = "rename" /\ UNCHANGED <<outs, merged>> /\ todo'[s] = outs[s]
    BY <1>3 DEF JobCheck
  <2> QED
    BY <1>0, <2>1 DEF JobInvOf, OutputsOf
<1>4. CASE JobRename(s)
  <2>1. /\ jpc[s] = "rename" /\ UNCHANGED <<jpc, outs, merged>>
        /\ todo'[s] \subseteq todo[s]
    BY <1>4 DEF JobRename
  <2> QED
    BY <1>0, <2>1 DEF JobInvOf, OutputsOf
<1>5. CASE JobLock(s)
  <2>1. /\ jpc[s] = "rename" /\ jpc'[s] = "swap" /\ UNCHANGED <<outs, merged>>
        /\ todo'[s] \subseteq group[s]
    BY <1>5 DEF JobLock
  <2> QED
    BY <1>0, <2>1 DEF JobInvOf, OutputsOf
<1>6. CASE JobSwap(s) \/ JobUntomb(s)
  <2>1. /\ jpc[s] \in Swapping /\ jpc'[s] \in Swapping /\ UNCHANGED <<outs, merged>>
        /\ todo'[s] \subseteq todo[s]
        /\ jpc'[s] = "untomb" => todo'[s] # {}
    BY <1>6 DEF JobSwap, JobUntomb
  <2> QED
    BY <1>0, <2>1 DEF JobInvOf, OutputsOf
<1> QED
  BY <1>1, <1>2, <1>3, <1>4, <1>5, <1>6 DEF JobStep

(* JobInv is preserved. *)
LEMMA JobNext ==
  ASSUME BaseInv, Next
  PROVE  JobInv'
<1> USE DEF BaseInv
<1>1. CASE UNCHANGED <<jpc, group, merged, outs, todo>>
  BY <1>1 DEF JobInv, JobInvOf, OutputsOf
<1>2. CASE Crash
  BY <1>2 DEF Crash, JobInv, JobInvOf, Merging, Swapping
<1>3. ASSUME NEW s \in Slots, JobStep(s) PROVE JobInv'
  <2>1. ASSUME NEW t \in Slots, t # s PROVE JobInvOf(t)'
    <3>1. JobInvOf(t)
      BY DEF JobInv
    <3> QED
      BY <1>3, <2>1, <3>1, JobOthers DEF JobInvOf, OutputsOf
  <2>2. JobInvOf(s)'
    BY <1>3, JobStepInv
  <2> QED
    BY <2>1, <2>2 DEF JobInv
<1>4. ASSUME NEW s \in Slots, JobRelease(s) PROVE JobInv'
  <2>1. jpc'[s] = "off" /\ \A t \in Slots \ {s} :
           /\ jpc'[t] = jpc[t] /\ group'[t] = group[t] /\ merged'[t] = merged[t]
           /\ outs'[t] = outs[t] /\ todo'[t] = todo[t]
    BY <1>4 DEF JobRelease, Goto, JobType
  <2>2. ASSUME NEW t \in Slots PROVE JobInvOf(t)'
    <3>1. JobInvOf(t)
      BY DEF JobInv
    <3> QED
      BY <2>1, <3>1 DEF JobInvOf, OutputsOf, Merging, Swapping
  <2> QED
    BY <2>2 DEF JobInv
<1>5. CASE Start
  <2>1. /\ UNCHANGED <<merged, outs, todo>>
        /\ \A t \in Slots : \/ jpc'[t] = "begin"
                            \/ jpc'[t] = jpc[t] /\ group'[t] = group[t]
    BY <1>5 DEF Start, JobType
  <2>2. ASSUME NEW t \in Slots PROVE JobInvOf(t)'
    <3>1. JobInvOf(t)
      BY DEF JobInv
    <3> QED
      BY <2>1, <3>1 DEF JobInvOf, OutputsOf, Merging, Swapping
  <2> QED
    BY <2>2 DEF JobInv
<1>6. CASE Outside
  BY <1>1, <1>6, OutsideFrame
<1>7. CASE LoopQuit \/ FindGenerations \/ Acquire
  BY <1>1, <1>7 DEF LoopQuit, FindGenerations, Acquire
<1> QED
  BY <1>2, <1>3, <1>4, <1>5, <1>6, <1>7, Steps DEF Loop

(* What the old files of reading compactions and the files of cursors count. *)
LEMMA Finite ==
  /\ \A f : IsFiniteSet(CursorsOf(f)) /\ IsFiniteSet(ReadersOf(f))
  /\ IsFiniteSet(Working)
<1>1. ASSUME NEW f PROVE IsFiniteSet(CursorsOf(f)) /\ IsFiniteSet(ReadersOf(f))
  <2>1. CursorsOf(f) \in SUBSET Cursors /\ ReadersOf(f) \in SUBSET Slots
    BY DEF CursorsOf, ReadersOf
  <2> QED
    BY <2>1, FS_Subset, CompactionAssumption
<1>2. IsFiniteSet(Working)
  <2>1. Working \in SUBSET Deleters
    BY DEF Working
  <2> QED
    BY <2>1, FS_Subset, CompactionAssumption
<1> QED
  BY <1>1, <1>2

(* The references to the readers, as a function of the state that the steps change. *)
LEMMA SameCount ==
  ASSUME CountInv, UNCHANGED <<refs, cursor>>,
         \A s \in Slots : \/ jpc'[s] \in Reading /\ jpc[s] \in Reading /\ group'[s] = group[s]
                          \/ jpc'[s] \notin Reading /\ jpc[s] \notin Reading
  PROVE  \A f \in File : refs'[f] = Cardinality(CursorsOf(f)') + Cardinality(ReadersOf(f)')
<1> SUFFICES ASSUME NEW f \in File
             PROVE  refs'[f] = Cardinality(CursorsOf(f)') + Cardinality(ReadersOf(f)')
  OBVIOUS
<1>1. CursorsOf(f)' = CursorsOf(f)
  BY DEF CursorsOf
<1>2. ReadersOf(f)' = ReadersOf(f)
  BY DEF ReadersOf
<1> QED
  BY <1>1, <1>2 DEF CountInv

(* A query that opens or closes a cursor. *)
LEMMA CursorCount ==
  ASSUME TypeOK, CountInv, NEW c \in Cursors, KeyCursor(c) \/ CursorClose(c)
  PROVE  \A f \in File : refs'[f] = Cardinality(CursorsOf(f)') + Cardinality(ReadersOf(f)')
<1> SUFFICES ASSUME NEW f \in File
             PROVE  refs'[f] = Cardinality(CursorsOf(f)') + Cardinality(ReadersOf(f)')
  OBVIOUS
<1> USE DEF StoreType, ClientType
<1>1. ReadersOf(f)' = ReadersOf(f)
  BY DEF ReadersOf, KeyCursor, CursorClose
<1>2. /\ refs[f] = Cardinality(CursorsOf(f)) + Cardinality(ReadersOf(f))
      /\ Cardinality(ReadersOf(f)) \in Nat /\ Cardinality(CursorsOf(f)) \in Nat
      /\ IsFiniteSet(CursorsOf(f))
  BY Finite, FS_CardinalityType DEF CountInv
<1>3. CASE KeyCursor(c)
  <2>1. PICK fs \in SUBSET files : /\ cursor[c] = {} /\ cursor' = [cursor EXCEPT ![c] = fs]
                                   /\ Ref(fs)
    BY <1>3 DEF KeyCursor
  <2>2. refs'[f] = IF f \in fs THEN refs[f] + 1 ELSE refs[f]
    BY <2>1 DEF Ref
  <2>3. CursorsOf(f)' = IF f \in fs THEN CursorsOf(f) \cup {c} ELSE CursorsOf(f)
    BY <2>1 DEF CursorsOf
  <2>4. c \notin CursorsOf(f)
    BY <2>1 DEF CursorsOf
  <2>5. Cardinality(CursorsOf(f) \cup {c}) = Cardinality(CursorsOf(f)) + 1
    BY <1>2, <2>4, CardAdd
  <2>6. CASE f \in fs
    BY <1>1, <1>2, <2>2, <2>3, <2>5, <2>6
  <2>7. CASE f \notin fs
    BY <1>1, <1>2, <2>2, <2>3, <2>7
  <2> QED
    BY <2>6, <2>7
<1>4. CASE CursorClose(c)
  <2>1. cursor' = [cursor EXCEPT ![c] = {}] /\ Unref(cursor[c])
    BY <1>4 DEF CursorClose
  <2>2. refs'[f] = IF f \in cursor[c] THEN refs[f] - 1 ELSE refs[f]
    BY <2>1 DEF Unref
  <2>3. CursorsOf(f)' = IF f \in cursor[c] THEN CursorsOf(f) \ {c} ELSE CursorsOf(f)
    BY <2>1 DEF CursorsOf
  <2>4. f \in cursor[c] => c \in CursorsOf(f)
    BY DEF CursorsOf
  <2>5. f \in cursor[c] => Cardinality(CursorsOf(f) \ {c}) = Cardinality(CursorsOf(f)) - 1
    BY <1>2, <2>4, CardRemove
  <2>6. CASE f \in cursor[c]
    BY <1>1, <1>2, <2>2, <2>3, <2>5, <2>6
  <2>7. CASE f \notin cursor[c]
    BY <1>1, <1>2, <2>2, <2>3, <2>7
  <2> QED
    BY <2>6, <2>7
<1> QED
  BY <1>3, <1>4

(* A compaction takes references when it begins to read, and drops them when it has read. *)
LEMMA ReaderCount ==
  ASSUME TypeOK, CountInv, NEW s \in Slots, UNCHANGED <<cursor, group>>,
         \A t \in Slots \ {s} : jpc'[t] = jpc[t],
         \/ jpc[s] \notin Reading /\ jpc'[s] \in Reading /\ Ref(group[s])
         \/ jpc[s] \in Reading /\ jpc'[s] \notin Reading /\ Unref(group[s])
  PROVE  \A f \in File : refs'[f] = Cardinality(CursorsOf(f)') + Cardinality(ReadersOf(f)')
<1> SUFFICES ASSUME NEW f \in File
             PROVE  refs'[f] = Cardinality(CursorsOf(f)') + Cardinality(ReadersOf(f)')
  OBVIOUS
<1>1. CursorsOf(f)' = CursorsOf(f)
  BY DEF CursorsOf
<1>2. /\ refs[f] = Cardinality(CursorsOf(f)) + Cardinality(ReadersOf(f))
      /\ Cardinality(ReadersOf(f)) \in Nat /\ Cardinality(CursorsOf(f)) \in Nat
      /\ IsFiniteSet(ReadersOf(f))
  BY Finite, FS_CardinalityType DEF CountInv
<1>3. CASE f \notin group[s]
  <2>1. ReadersOf(f)' = ReadersOf(f)
    BY <1>3 DEF ReadersOf
  <2>2. refs'[f] = refs[f]
    BY <1>3 DEF Ref, Unref
  <2> QED
    BY <1>1, <1>2, <2>1, <2>2
<1>4. CASE f \in group[s] /\ jpc[s] \notin Reading
  <2>1. ReadersOf(f)' = ReadersOf(f) \cup {s} /\ s \notin ReadersOf(f)
    BY <1>4 DEF ReadersOf
  <2>2. refs'[f] = refs[f] + 1
    BY <1>4 DEF Ref
  <2> QED
    BY <1>1, <1>2, <2>1, <2>2, CardAdd
<1>5. CASE f \in group[s] /\ jpc[s] \in Reading
  <2>1. ReadersOf(f)' = ReadersOf(f) \ {s} /\ s \in ReadersOf(f)
    BY <1>5 DEF ReadersOf
  <2>2. refs'[f] = refs[f] - 1
    BY <1>5 DEF Unref
  <2>3. Cardinality(ReadersOf(f) \ {s}) = Cardinality(ReadersOf(f)) - 1
    BY <1>2, <2>1, CardRemove
  <2> QED
    BY <1>1, <1>2, <2>1, <2>2, <2>3
<1> QED
  BY <1>3, <1>4, <1>5

(* The references of every step. *)
LEMMA RefsNext ==
  ASSUME BaseInv, Next
  PROVE  \A f \in File : refs'[f] = Cardinality(CursorsOf(f)') + Cardinality(ReadersOf(f)')
<1> USE DEF BaseInv
<1>1. CASE Crash
  <2>1. ASSUME NEW f \in File PROVE CursorsOf(f)' = {} /\ ReadersOf(f)' = {} /\ refs'[f] = 0
    BY <1>1 DEF Crash, CursorsOf, ReadersOf, Reading
  <2> QED
    BY <2>1, FS_EmptySet
<1>2. ASSUME NEW c \in Cursors, KeyCursor(c) \/ CursorClose(c)
      PROVE  \A f \in File : refs'[f] = Cardinality(CursorsOf(f)') + Cardinality(ReadersOf(f)')
  BY <1>2, CursorCount
<1>3. ASSUME Outside, ~\E c \in Cursors : KeyCursor(c) \/ CursorClose(c)
      PROVE  \A f \in File : refs'[f] = Cardinality(CursorsOf(f)') + Cardinality(ReadersOf(f)')
  <2>1. UNCHANGED <<jpc, group>>
    BY <1>3, OutsideFrame
  <2>2. UNCHANGED <<refs, cursor>>
    BY <1>3 DEF Outside, Flush, CleanupGlob, CleanupRemove, Purge, FirstDone, OtherDone, DeleteBegin,
         DeleteStep, ApplyBegin, ApplyEnd, ApplyStamp, DeleteEnd, DeleteFile,
         SetCompactionsDisabled, SetCompactionsEnabled, Reopen
  <2> QED
    BY <2>1, <2>2, SameCount
<1>4. CASE Loop
  <2>1. UNCHANGED <<refs, cursor>>
    BY <1>4 DEF Loop, LoopQuit, FindGenerations, Acquire, Start
  <2>2. \A s \in Slots : \/ jpc'[s] = jpc[s] /\ group'[s] = group[s]
                         \/ jpc[s] = "off" /\ jpc'[s] = "begin"
    BY <1>4 DEF Loop, LoopQuit, FindGenerations, Acquire, Start, JobType
  <2> QED
    BY <2>1, <2>2, SameCount DEF Reading
<1>5. ASSUME NEW s \in Slots, JobRelease(s)
      PROVE  \A f \in File : refs'[f] = Cardinality(CursorsOf(f)') + Cardinality(ReadersOf(f)')
  <2>1. UNCHANGED <<refs, cursor>>
    BY <1>5 DEF JobRelease
  <2>2. \A t \in Slots : \/ jpc'[t] = jpc[t] /\ group'[t] = group[t]
                         \/ jpc[t] = "release" /\ jpc'[t] = "off"
    BY <1>5 DEF JobRelease, JobType, Goto
  <2> QED
    BY <2>1, <2>2, SameCount DEF Reading
<1>6. ASSUME NEW s \in Slots, JobStep(s)
      PROVE  \A f \in File : refs'[f] = Cardinality(CursorsOf(f)') + Cardinality(ReadersOf(f)')
  <2>1. UNCHANGED <<cursor, group>> /\ \A t \in Slots \ {s} : jpc'[t] = jpc[t]
    BY <1>6, JobFrame
  <2>2. CASE JobRef(s) \/ JobCheck(s)
    <3>1. \/ jpc[s] = "ref" /\ jpc'[s] = "write" /\ Ref(group[s])
          \/ jpc[s] = "ref" /\ jpc'[s] = "release" /\ UNCHANGED refs
          \/ jpc[s] \in {"check", "failed"} /\ jpc'[s] \in {"rename", "release"} /\ Unref(group[s])
      BY <2>2 DEF JobRef, JobCheck, Goto, JobType
    <3>2. CASE UNCHANGED refs /\ jpc[s] = "ref" /\ jpc'[s] = "release"
      BY <2>1, <3>2, SameCount DEF Reading
    <3> QED
      BY <2>1, <3>1, <3>2, ReaderCount DEF Reading
  <2>3. CASE ~JobRef(s) /\ ~JobCheck(s)
    <3>1. UNCHANGED refs
      BY <1>6, <2>3 DEF JobStep, JobBegin, JobWrite, JobWriteFails, JobCollides, JobRename,
         JobRenameFails, JobLock, JobSwap, JobUntomb, JobSwapFails, JobInstall
    <3>2. \/ jpc[s] = "write" /\ jpc'[s] \in {"check", "failed"}
          \/ jpc[s] \notin Reading /\ jpc'[s] \notin Reading
      BY <1>6, <2>3 DEF JobStep, JobBegin, JobWrite, JobWriteFails, JobCollides, JobRename,
         JobRenameFails, JobLock, JobSwap, JobUntomb, JobSwapFails, JobInstall, Reading, Goto, JobType
    <3> QED
      BY <2>1, <3>1, <3>2, SameCount DEF Reading
  <2> QED
    BY <2>2, <2>3
<1> QED
  BY <1>1, <1>2, <1>3, <1>4, <1>5, <1>6, Steps

(* levelWorkers of every step. *)
LEMMA WorkersNext ==
  ASSUME BaseInv, Next
  PROVE  levelWorkers' = Cardinality(Working')
<1> USE DEF BaseInv, GateType, Stoppers
<1>0. /\ levelWorkers = Cardinality(Working) /\ levelWorkers \in Nat
      /\ IsFiniteSet(Working) /\ Toggler \notin Deleters
  BY Finite, CompactionAssumption DEF CountInv
<1>1. CASE Crash
  <2>1. Working' = {} /\ levelWorkers' = 0
    BY <1>1 DEF Crash, Working
  <2> QED
    BY <2>1, FS_EmptySet
<1>2. ASSUME NEW d \in Deleters, DeleteBegin(d) PROVE levelWorkers' = Cardinality(Working')
  <2>1. /\ spc[d] = "idle" /\ levelWorkers' = levelWorkers + 1
        /\ \E p \in {"first", "in", "other"} : spc' = [spc EXCEPT ![d] = p]
    BY <1>2 DEF DeleteBegin, DisableLevelCompactions
  <2>2. Working' = Working \cup {d} /\ d \notin Working
    BY <2>1 DEF Working
  <2> QED
    BY <1>0, <2>1, <2>2, CardAdd
<1>3. ASSUME NEW d \in Deleters, DeleteEnd(d) PROVE levelWorkers' = Cardinality(Working')
  <2>1. /\ spc[d] = "out" /\ levelWorkers' = levelWorkers - 1
        /\ spc' = [spc EXCEPT ![d] = "idle"]
    BY <1>3 DEF DeleteEnd, EnableLevelCompactions
  <2>2. Working' = Working \ {d} /\ d \in Working
    BY <2>1 DEF Working
  <2> QED
    BY <1>0, <2>1, <2>2, CardRemove
<1>4. ASSUME levelWorkers' = levelWorkers, \A d \in Deleters : spc'[d] = "idle" <=> spc[d] = "idle"
      PROVE  levelWorkers' = Cardinality(Working')
  <2>1. Working' = Working
    BY <1>4 DEF Working
  <2> QED
    BY <1>0, <1>4, <2>1
<1>5. CASE SetCompactionsDisabled \/ SetCompactionsEnabled
  <2>1. levelWorkers' = levelWorkers
    BY <1>0, <1>5 DEF SetCompactionsDisabled, SetCompactionsEnabled, DisableLevelCompactions,
                      EnableLevelCompactions
  <2>2. \A d \in Deleters : spc'[d] = spc[d]
    BY <1>0, <1>5 DEF SetCompactionsDisabled, SetCompactionsEnabled, DisableLevelCompactions,
                      EnableLevelCompactions
  <2> QED
    BY <1>4, <2>1, <2>2
<1>6. CASE \E x \in Stoppers : FirstDone(x) \/ OtherDone(x)
  <2>1. levelWorkers' = levelWorkers /\ \A d \in Deleters : spc'[d] = "idle" <=> spc[d] = "idle"
    BY <1>6 DEF FirstDone, OtherDone
  <2> QED
    BY <1>4, <2>1
<1>7. ASSUME NEW d \in Deleters, DeleteStep(d), ~DeleteEnd(d)
      PROVE  levelWorkers' = Cardinality(Working')
  <2>1. levelWorkers' = levelWorkers /\ \A e \in Deleters : spc'[e] = "idle" <=> spc[e] = "idle"
    BY <1>7 DEF DeleteStep, ApplyBegin, ApplyEnd, ApplyStamp, DeleteFile
  <2> QED
    BY <1>4, <2>1
<1>8. CASE Loop \/ \E s \in Slots : JobStep(s) \/ JobRelease(s)
  <2>1. UNCHANGED <<levelWorkers, spc>>
    BY <1>8, JobFrame DEF Loop, LoopQuit, FindGenerations, Acquire, Start, JobRelease
  <2> QED
    BY <1>4, <2>1
<1>9. CASE \/ Flush \/ CleanupGlob \/ CleanupRemove \/ Reopen
           \/ \E c \in Cursors : KeyCursor(c) \/ CursorClose(c)
           \/ \E f \in File : Purge(f)
  <2>1. UNCHANGED <<levelWorkers, spc>>
    BY <1>9 DEF Flush, CleanupGlob, CleanupRemove, Reopen, KeyCursor, CursorClose, Purge
  <2> QED
    BY <1>4, <2>1
<1> QED
  BY <1>1, <1>2, <1>3, <1>5, <1>6, <1>7, <1>8, <1>9, Steps DEF Outside

(* What a compaction writes has its type. *)
LEMMA OutputTypes ==
  ASSUME BaseInv, NEW s \in Slots, jpc[s] # "off", NEW keys \in SUBSET Key
  PROVE  /\ \A n \in 1..2 : Output(group[s], n) \in File
         /\ \A n : Part(keys, n) \in SUBSET Key
         /\ {Output(group[s], n) : n \in {i \in 1..2 : Part(keys, i) # {}}} \in SUBSET File
<1>1. \A n \in 1..2 : Output(group[s], n) \in File
  BY OutputFacts DEF BaseInv, GroupInv
<1> QED
  BY <1>1 DEF Part

(* The first file of what is left to do is a file, and of that. *)
LEMMA FirstTodo ==
  ASSUME TypeOK, NEW s \in Slots, todo[s] # {}
  PROVE  First(todo[s]) \in todo[s] /\ First(todo[s]) \in File
<1>1. todo[s] \in SUBSET File
  BY DEF JobType
<1> QED
  BY <1>1, FirstLast

(* The types of what the steps of one compaction change. *)
LEMMA JobStepType ==
  ASSUME BaseInv, NEW s \in Slots, JobStep(s)
  PROVE  DiskType' /\ JobType'
<1> USE DEF BaseInv
<1>0. /\ jpc[s] # "off" /\ jpc' \in [Slots -> JobPcs] /\ UNCHANGED <<group, enabled>>
  BY JobFrame
<1>1. CASE JobBegin(s) \/ JobRef(s)
  BY <1>0, <1>1 DEF JobBegin, JobRef, DiskType, JobType
<1>2. CASE JobWrite(s) \/ JobCollides(s) \/ JobWriteFails(s)
  <2> DEFINE keys == UNION {InFile(f) : f \in group[s]}
             os == {Output(group[s], n) : n \in {i \in 1..2 : Part(keys, i) # {}}}
  <2>1. keys \in SUBSET Key
    BY DEF InFile, DiskType, JobType
  <2>2. os \in SUBSET File /\ Output(group[s], 1) \in File
    BY <1>0, <2>1, OutputTypes
  <2>3. CASE JobWrite(s)
    <3>1. /\ merged' = [merged EXCEPT ![s] = keys] /\ outs' = [outs EXCEPT ![s] = os]
          /\ tmp' = tmp \cup os /\ UNCHANGED <<data, live, tombs, todo, compacting>>
      BY <2>3 DEF JobWrite
    <3> HIDE DEF keys, os
    <3> QED
      BY <1>0, <2>1, <2>2, <3>1 DEF DiskType, JobType
  <2>4. CASE JobCollides(s) \/ JobWriteFails(s)
    <3>1. /\ outs' = [outs EXCEPT ![s] = {}] /\ tmp' \in {tmp, tmp \cup {Output(group[s], 1)}}
          /\ UNCHANGED <<data, live, tombs, todo, merged, compacting>>
      BY <2>4 DEF JobCollides, JobWriteFails
    <3> QED
      BY <1>0, <2>2, <3>1 DEF DiskType, JobType
  <2> QED
    BY <1>2, <2>3, <2>4
<1>3. CASE JobCheck(s) \/ JobRenameFails(s) \/ JobLock(s) \/ JobSwapFails(s) \/ JobInstall(s)
  BY <1>0, <1>3 DEF JobCheck, JobRenameFails, JobLock, JobSwapFails, JobInstall, RemoveTmpFiles,
                    DiskType, JobType
<1>4. CASE JobRename(s)
  <2> DEFINE o == First(todo[s])
  <2>1. /\ todo[s] # {} /\ tmp' = tmp \ {o} /\ live' = live \cup {o}
        /\ data' = [data EXCEPT ![o] = Part(merged[s], o[2] - Last(group[s])[2])]
        /\ todo' = [todo EXCEPT ![s] = @ \ {o}] /\ UNCHANGED <<tombs, merged, outs, compacting>>
    BY <1>4 DEF JobRename
  <2>2. o \in File
    BY <2>1, FirstTodo
  <2>3. Part(merged[s], o[2] - Last(group[s])[2]) \in SUBSET Key
    BY <1>0, OutputTypes DEF JobType
  <2> HIDE DEF o
  <2> QED
    BY <1>0, <2>1, <2>2, <2>3 DEF DiskType, JobType
<1>5. CASE JobSwap(s)
  <2>1. First(todo[s]) \in File
    BY <1>5, FirstTodo DEF JobSwap
  <2> QED
    BY <1>0, <1>5, <2>1 DEF JobSwap, DiskType, JobType
<1>6. CASE JobUntomb(s)
  BY <1>0, <1>6 DEF JobUntomb, DiskType, JobType
<1> QED
  BY <1>1, <1>2, <1>3, <1>4, <1>5, <1>6 DEF JobStep

(* DiskType and JobType are preserved. *)
LEMMA DiskJobNext ==
  ASSUME BaseInv, Next
  PROVE  DiskType' /\ JobType'
<1> USE DEF BaseInv
<1>1. CASE Crash
  BY <1>1 DEF Crash, DiskType, JobType, JobPcs
<1>2. ASSUME NEW s \in Slots, JobRelease(s) PROVE DiskType' /\ JobType'
  BY <1>2 DEF JobRelease, Goto, DiskType, JobType, JobPcs
<1>3. CASE Loop
  <2>1. CASE Start
    <3>1. \A l \in 1..4 : held[l] # <<>> => Head(held[l]) \in SUBSET File
      BY DEF PlanType
    <3> QED
      BY ZenonT(30), <2>1, <3>1 DEF Start, DiskType, JobType, JobPcs
  <2> QED
    BY <1>3, <2>1 DEF Loop, LoopQuit, FindGenerations, Acquire, DiskType, JobType
<1>4. CASE Outside
  <2>1. JobType'
    <3>1. UNCHANGED <<compacting, jpc, group, merged, outs, todo>>
      BY <1>4, OutsideFrame
    <3>2. enabled' \in BOOLEAN
      BY ZenonT(30), <1>4 DEF Outside, Flush, CleanupGlob, CleanupRemove, KeyCursor, CursorClose, Purge,
         FirstDone, OtherDone, DeleteBegin, DeleteStep, ApplyBegin, ApplyEnd, ApplyStamp, DeleteEnd,
         DeleteFile, SetCompactionsDisabled, SetCompactionsEnabled, Reopen,
         DisableLevelCompactions, EnableLevelCompactions, JobType
    <3> QED
      BY <3>1, <3>2 DEF JobType
  <2>2. CASE Flush
    <3>1. <<generation + 1, 1>> \in File
      BY <2>2, CompactionAssumption DEF Flush, File, StoreType
    <3> QED
      BY <2>1, <2>2, <3>1 DEF Flush, DiskType
  <2>3. ASSUME NEW d \in Deleters, NEW f \in File, DeleteFile(d, f) PROVE DiskType'
    <3>1. Tombstone(f, delKeys[d] \cap InFile(f)) \in SUBSET Key
      BY DEF Tombstone, GateType
    <3> QED
      BY <2>3, <3>1 DEF DeleteFile, DiskType
  <2>4. ASSUME ~Flush, ~\E d \in Deleters, f \in File : DeleteFile(d, f) PROVE DiskType'
    <3>1. data' = data /\ live' = live /\ tombs' = tombs /\ tmp' \subseteq tmp
      BY <1>4, <2>4 DEF Outside, CleanupGlob, CleanupRemove, KeyCursor, CursorClose, Purge,
         FirstDone, OtherDone, DeleteBegin, DeleteStep, ApplyBegin, ApplyEnd, ApplyStamp, DeleteEnd,
         SetCompactionsDisabled, SetCompactionsEnabled, Reopen
    <3> QED
      BY <3>1 DEF DiskType
  <2> QED
    BY <2>1, <2>2, <2>3, <2>4
<1> QED
  BY <1>1, <1>2, <1>3, <1>4, Steps, JobStepType

(* StoreType is preserved: in particular no count of references goes below zero. *)
LEMMA StoreNext ==
  ASSUME BaseInv, Next
  PROVE  StoreType'
<1> USE DEF BaseInv
<1>1. refs' \in [File -> Nat]
  <2>1. DOMAIN refs' = File /\ refs' = [f \in File |-> refs'[f]]
    <3>1. ASSUME NEW c \in Cursors, KeyCursor(c) \/ CursorClose(c)
          PROVE  refs' = [f \in File |-> refs'[f]]
      BY <3>1 DEF KeyCursor, CursorClose, Ref, Unref
    <3>2. ASSUME NEW s \in Slots, JobStep(s) \/ JobRelease(s)
          PROVE  refs' = [f \in File |-> refs'[f]]
      BY <3>2 DEF JobStep, JobBegin, JobRef, JobWrite, JobWriteFails, JobCollides, JobCheck,
         JobRename, JobRenameFails, JobLock, JobSwap, JobUntomb, JobSwapFails, JobInstall, JobRelease,
         Ref, Unref, StoreType
    <3>3. ASSUME Loop \/ Crash PROVE refs' = [f \in File |-> refs'[f]]
      BY <3>3 DEF Loop, LoopQuit, FindGenerations, Acquire, Start, Crash, StoreType
    <3>4. ASSUME Outside, ~\E c \in Cursors : KeyCursor(c) \/ CursorClose(c)
          PROVE  refs' = [f \in File |-> refs'[f]]
      BY <3>4 DEF Outside, Flush, CleanupGlob, CleanupRemove, Purge, FirstDone, OtherDone, DeleteBegin,
         DeleteStep, ApplyBegin, ApplyEnd, ApplyStamp, DeleteEnd, DeleteFile,
         SetCompactionsDisabled, SetCompactionsEnabled, Reopen, StoreType
    <3> QED
      BY <3>1, <3>2, <3>3, <3>4, Steps
  <2>2. ASSUME NEW f \in File PROVE refs'[f] \in Nat
    <3>1. CursorsOf(f)' \in SUBSET Cursors /\ ReadersOf(f)' \in SUBSET Slots
      BY DEF CursorsOf, ReadersOf
    <3>2. Cardinality(CursorsOf(f)') \in Nat /\ Cardinality(ReadersOf(f)') \in Nat
      BY <3>1, FS_Subset, FS_CardinalityType, CompactionAssumption
    <3> QED
      BY <3>2, RefsNext
  <2> QED
    BY <2>1, <2>2
<1>2. /\ files' \subseteq File /\ open' \subseteq File /\ purging' \subseteq File
      /\ gone' \in [File -> SUBSET Key] /\ fsLock' \in Slots \cup {NoSlot}
      /\ generation' \in 0..(MaxGen + 1)
  <2>1. CASE Flush
    <3>1. <<generation + 1, 1>> \in File
      BY <2>1, CompactionAssumption DEF Flush, File, StoreType
    <3>2. generation + 1 \in 0..(MaxGen + 1)
      BY <2>1, CompactionAssumption DEF Flush, StoreType
    <3>3. gone' \in [File -> SUBSET Key]
      BY <2>1, <3>1 DEF Flush, StoreType, DiskType
    <3>4. files' \subseteq File /\ open' \subseteq File
      <4>1. files' = files \cup {<<generation + 1, 1>>} /\ open' = open \cup {<<generation + 1, 1>>}
        BY <2>1 DEF Flush
      <4> QED
        BY <3>1, <4>1 DEF StoreType
    <3> QED
      BY <2>1, <3>2, <3>3, <3>4 DEF Flush, StoreType
  <2>2. CASE Reopen
    <3>1. generation' \in 0..(MaxGen + 1)
      <4>1. live # {} => Last(live) \in File
        BY FirstLast DEF DiskType
      <4>2. live # {} => Last(live)[1] \in 1..MaxGen
        BY <4>1, FileFacts
      <4> QED
        BY <2>2, <4>2, CompactionAssumption DEF Reopen
    <3> QED
      BY <2>2, <3>1 DEF Reopen, StoreType, DiskType
  <2>3. CASE Crash
    BY <2>3, CompactionAssumption DEF Crash
  <2>4. ASSUME NEW d \in Deleters, NEW f \in File, DeleteFile(d, f)
        PROVE  /\ gone' \in [File -> SUBSET Key]
               /\ UNCHANGED <<files, open, purging, fsLock, generation>>
    <3>1. Tombstone(f, delKeys[d] \cap InFile(f)) \in SUBSET Key
      BY DEF Tombstone, GateType
    <3> QED
      BY <2>4, <3>1 DEF DeleteFile, StoreType
  <2>5. ASSUME Outside, ~Flush, ~Reopen, ~\E d \in Deleters, f \in File : DeleteFile(d, f)
        PROVE  UNCHANGED <<files, gone, fsLock, generation>> /\ open' \subseteq open /\ purging' \subseteq purging
    BY <2>5 DEF Outside, CleanupGlob, CleanupRemove, KeyCursor, CursorClose, Purge,
         FirstDone, OtherDone, DeleteBegin, DeleteStep, ApplyBegin, ApplyEnd, ApplyStamp, DeleteEnd,
         SetCompactionsDisabled, SetCompactionsEnabled
  <2>6. ASSUME Loop PROVE UNCHANGED <<files, open, purging, gone, fsLock, generation>>
    BY <2>6 DEF Loop, LoopQuit, FindGenerations, Acquire, Start
  <2>7. ASSUME NEW s \in Slots, JobRelease(s)
        PROVE  UNCHANGED <<files, open, purging, gone, fsLock, generation>>
    BY <2>7 DEF JobRelease
  <2>8. ASSUME NEW s \in Slots, JobStep(s)
        PROVE  /\ files' \subseteq File /\ open' \subseteq File /\ purging' \subseteq File
               /\ gone' \in [File -> SUBSET Key] /\ fsLock' \in Slots \cup {NoSlot}
               /\ generation' = generation
    <3>1. CASE JobRename(s)
      <4>1. First(todo[s]) \in File
        BY <3>1, FirstTodo DEF JobRename
      <4> QED
        BY <3>1, <4>1 DEF JobRename, StoreType, DiskType
    <3>2. CASE ~JobRename(s)
      BY <2>8, <3>2 DEF JobStep, JobBegin, JobRef, JobWrite, JobWriteFails, JobCollides, JobCheck,
         JobRenameFails, JobLock, JobSwap, JobUntomb, JobSwapFails, JobInstall, StoreType, JobType
    <3> QED
      BY <3>1, <3>2
  <2>9. /\ files \subseteq File /\ open \subseteq File /\ purging \subseteq File
        /\ gone \in [File -> SUBSET Key] /\ fsLock \in Slots \cup {NoSlot}
        /\ generation \in 0..(MaxGen + 1)
    BY DEF StoreType
  <2>10. CASE Outside
    BY <2>1, <2>2, <2>4, <2>5, <2>9, <2>10
  <2>11. CASE Loop
    BY <2>6, <2>9, <2>11
  <2>12. CASE \E s \in Slots : JobStep(s) \/ JobRelease(s)
    BY <2>7, <2>8, <2>9, <2>12
  <2> QED
    BY <2>3, <2>10, <2>11, <2>12, Steps
<1> QED
  BY <1>1, <1>2 DEF StoreType

(* PlanType is preserved. *)
LEMMA PlanTypeNext ==
  ASSUME BaseInv, Next
  PROVE  PlanType'
<1> USE DEF BaseInv
<1>1. CASE Crash
  <2>1. /\ inUse' = {} /\ gens' = {} /\ found' = {} /\ gensValid' = FALSE /\ lpc' = "off"
        /\ level' = 1 /\ held' = [l \in 1..4 |-> <<>>]
    BY <1>1 DEF Crash
  <2>2. held' \in [1..4 -> Seq(SUBSET File)] /\ level' \in 1..4
    BY <2>1
  <2>4. gensValid' \in BOOLEAN
    BY <2>1
  <2>3. /\ inUse' \subseteq File /\ gens' \subseteq File /\ found' \subseteq File
        /\ lpc' \in {"off", "tick", "plan", "acquire", "start"}
    BY <2>1
  <2> QED
    BY <2>2, <2>3, <2>4, Zenon DEF PlanType
<1>2. CASE LoopQuit
  <2>1. lpc' = "off" /\ UNCHANGED <<inUse, gens, gensValid, level, found, held>>
    BY <1>2 DEF LoopQuit
  <2> QED
    BY <2>1, Zenon DEF PlanType
<1>3. CASE FindGenerations
  <2>1. level' \in 1..4
    BY <1>3, MinLevelIn, CompactionAssumption DEF FindGenerations, PlanType
  <2>2. found' \subseteq File /\ gens' \subseteq File
    BY <1>3 DEF FindGenerations, PlanType, StoreType
  <2>3. lpc' = "acquire" /\ gensValid' = TRUE /\ UNCHANGED <<inUse, held>>
    BY <1>3 DEF FindGenerations
  <2> QED
    BY <2>1, <2>2, <2>3 DEF PlanType
<1>4. CASE Start
  <2>1. lpc' = "tick" /\ held' = [l \in 1..4 |-> <<>>] /\ inUse' \subseteq inUse
    BY <1>4 DEF Start
  <2>2. UNCHANGED <<gens, gensValid, level, found>>
    BY <1>4 DEF Start
  <2>3. held' \in [1..4 -> Seq(SUBSET File)] /\ inUse' \subseteq File
    BY <2>1 DEF PlanType
  <2> QED
    BY <2>1, <2>2, <2>3 DEF PlanType
<1>5. CASE Acquire
  <2> DEFINE gs == PlanGroups(level, found)
             next == {l \in Levels : l > level}
  <2>1. level \in Levels /\ level \in 1..4 /\ found \in SUBSET File
    BY <1>5 DEF Acquire, PlanInv, PlanType
  <2>2. gs \in Seq((SUBSET found) \ {{}})
    BY <2>1, PlanAssumption
  <2>3. gs \in Seq(SUBSET File) /\ GroupFiles(gs) \in SUBSET File
    BY <2>1, <2>2 DEF GroupFiles
  <2>4. next \in SUBSET (1..4)
    BY CompactionAssumption
  <2>5. /\ \/ inUse' = inUse \cup GroupFiles(gs) /\ held' = [held EXCEPT ![level] = gs]
           \/ UNCHANGED <<inUse, held>>
        /\ \/ lpc' = "start" /\ UNCHANGED level
           \/ lpc' = "plan" /\ next # {} /\ level' = MinLevel(next)
        /\ found' = {} /\ UNCHANGED <<gens, gensValid>>
    BY <1>5 DEF Acquire
  <2> HIDE DEF gs, next
  <2>6. level' \in 1..4
    BY <2>1, <2>4, <2>5, MinLevelIn
  <2>7. inUse' \subseteq File /\ held' \in [1..4 -> Seq(SUBSET File)]
    BY <2>1, <2>3, <2>5 DEF PlanType
  <2> QED
    BY <2>5, <2>6, <2>7 DEF PlanType
<1>6. ASSUME NEW s \in Slots, JobStep(s) \/ JobRelease(s) PROVE PlanType'
  <2>1. UNCHANGED <<gens, lpc, level, found, held>> /\ inUse' \subseteq inUse
    BY <1>6, JobFrame DEF JobRelease
  <2>2. gensValid' = gensValid \/ gensValid' = FALSE
    BY <1>6 DEF JobStep, JobBegin, JobRef, JobWrite, JobWriteFails, JobCollides, JobCheck,
         JobRename, JobRenameFails, JobLock, JobSwap, JobUntomb, JobSwapFails, JobInstall, JobRelease
  <2>3. gensValid' \in BOOLEAN
    BY <2>2, Zenon DEF PlanType
  <2> QED
    BY <2>1, <2>3 DEF PlanType
<1>7. CASE Outside
  <2>1. UNCHANGED <<inUse, level, found, held, gens>> /\ lpc' \in {lpc, "tick"}
    BY <1>7, OutsideFrame
  <2>2. gensValid' = gensValid \/ gensValid' = FALSE
    BY <1>7 DEF Outside, Flush, CleanupGlob, CleanupRemove, KeyCursor, CursorClose, Purge,
         FirstDone, OtherDone, DeleteBegin, DeleteStep, ApplyBegin, ApplyEnd, ApplyStamp, DeleteEnd,
         DeleteFile, SetCompactionsDisabled, SetCompactionsEnabled, Reopen
  <2>3. gensValid' \in BOOLEAN
    BY <2>2, Zenon DEF PlanType
  <2> QED
    BY <2>1, <2>3 DEF PlanType
<1> QED
  BY <1>1, <1>2, <1>3, <1>4, <1>5, <1>6, <1>7, Steps DEF Loop

(* GateType is preserved: in particular levelWorkers does not go below zero. *)
LEMMA GateTypeNext ==
  ASSUME BaseInv, Next
  PROVE  GateType'
<1> USE DEF BaseInv, Stoppers
<1>1. levelWorkers' \in Nat
  <2>1. Working' \in SUBSET Deleters
    BY DEF Working
  <2>2. Cardinality(Working') \in Nat
    BY <2>1, FS_Subset, FS_CardinalityType, CompactionAssumption
  <2> QED
    BY <2>2, WorkersNext
<1>2. CASE Crash
  BY <1>2 DEF Crash, GateType
<1>3. CASE Loop \/ \E s \in Slots : JobStep(s) \/ JobRelease(s)
  <2>1. UNCHANGED gateVars
    BY <1>3, JobFrame DEF Loop, LoopQuit, FindGenerations, Acquire, Start, JobRelease
  <2> QED
    BY <2>1 DEF GateType
<1>4. CASE \/ Flush \/ CleanupGlob \/ CleanupRemove
           \/ \E c \in Cursors : KeyCursor(c) \/ CursorClose(c)
           \/ \E f \in File : Purge(f)
  <2>1. UNCHANGED gateVars
    BY <1>4 DEF Flush, CleanupGlob, CleanupRemove, KeyCursor, CursorClose, Purge
  <2> QED
    BY <2>1 DEF GateType
<1>5. CASE Reopen
  BY <1>5 DEF Reopen, GateType
<1>6. CASE \/ \E x \in Stoppers : FirstDone(x) \/ OtherDone(x)
           \/ SetCompactionsDisabled \/ SetCompactionsEnabled
  BY <1>1, <1>6 DEF FirstDone, OtherDone, SetCompactionsDisabled, SetCompactionsEnabled,
       DisableLevelCompactions, EnableLevelCompactions, GateType
<1>7. ASSUME NEW d \in Deleters, DeleteBegin(d) \/ DeleteEnd(d) PROVE GateType'
  BY <1>1, <1>7 DEF DeleteBegin, DeleteEnd, DisableLevelCompactions, EnableLevelCompactions,
       GateType
<1>8. ASSUME NEW d \in Deleters, DeleteStep(d), ~DeleteEnd(d) PROVE GateType'
  <2>1. CASE ApplyBegin(d)
    <3>1. {f \in files : delKeys[d] \cap InFile(f) # {}} \in SUBSET File
      BY DEF StoreType
    <3> QED
      BY <2>1, <3>1 DEF ApplyBegin, GateType
  <2>2. CASE ApplyEnd(d) \/ ApplyStamp(d)
    BY <2>2 DEF ApplyEnd, ApplyStamp, GateType
  <2>3. ASSUME NEW f \in File, DeleteFile(d, f) PROVE GateType'
    BY <2>3 DEF DeleteFile, GateType
  <2> QED
    BY <1>8, <2>1, <2>2, <2>3 DEF DeleteStep
<1> QED
  BY <1>2, <1>3, <1>4, <1>5, <1>6, <1>7, <1>8, Steps DEF Outside

(* The bounds of a run. *)
Budgets == [delete : 0..MaxDeletes, toggle : 0..MaxToggles, query : 0..MaxQueries,
            failure : 0..MaxFailures, swap : 0..MaxSwapFailures, crash : 0..MaxCrashes]

(* No step raises what is left of a bound. *)
LEMMA BudgetNext ==
  ASSUME TypeOK, Next
  PROVE  /\ budget' \in Budgets
         /\ \/ budget' = budget
            \/ \E w \in {"delete", "toggle", "query", "failure", "swap", "crash"} : Spend(w)
<1>1. \/ budget' = budget
      \/ \E w \in {"delete", "toggle", "query", "failure", "swap", "crash"} : Spend(w)
  <2>1. CASE Loop \/ Crash
    BY <2>1 DEF Loop, LoopQuit, FindGenerations, Acquire, Start, Crash
  <2>2. CASE \E s \in Slots : JobStep(s) \/ JobRelease(s)
    BY <2>2 DEF JobStep, JobBegin, JobRef, JobWrite, JobWriteFails, JobCollides, JobCheck,
         JobRename, JobRenameFails, JobLock, JobSwap, JobUntomb, JobSwapFails, JobInstall, JobRelease
  <2>3. CASE Outside
    BY <2>3 DEF Outside, Flush, CleanupGlob, CleanupRemove, KeyCursor, CursorClose, Purge,
         FirstDone, OtherDone, DeleteBegin, DeleteStep, ApplyBegin, ApplyEnd, ApplyStamp, DeleteEnd,
         DeleteFile, SetCompactionsDisabled, SetCompactionsEnabled, Reopen
  <2> QED
    BY <2>1, <2>2, <2>3, Steps
<1>2. budget \in Budgets
  BY DEF ClientType, Budgets
<1>3. ASSUME NEW w \in {"delete", "toggle", "query", "failure", "swap", "crash"}, Spend(w)
      PROVE  budget' \in Budgets
  <2>1. budget[w] > 0 /\ budget' = [budget EXCEPT ![w] = budget[w] - 1]
    BY <1>3 DEF Spend
  <2>2. /\ MaxDeletes \in Nat /\ MaxToggles \in Nat /\ MaxQueries \in Nat
        /\ MaxFailures \in Nat /\ MaxSwapFailures \in Nat /\ MaxCrashes \in Nat
    BY CompactionAssumption
  <2>3. CASE w = "delete"
    BY <1>2, <2>1, <2>2, <2>3 DEF Budgets
  <2>4. CASE w = "toggle"
    BY <1>2, <2>1, <2>2, <2>4 DEF Budgets
  <2>5. CASE w = "query"
    BY <1>2, <2>1, <2>2, <2>5 DEF Budgets
  <2>6. CASE w = "failure"
    BY <1>2, <2>1, <2>2, <2>6 DEF Budgets
  <2>7. CASE w = "swap"
    BY <1>2, <2>1, <2>2, <2>7 DEF Budgets
  <2>8. CASE w = "crash"
    BY <1>2, <2>1, <2>2, <2>8 DEF Budgets
  <2> QED
    BY <2>3, <2>4, <2>5, <2>6, <2>7, <2>8
<1> QED
  BY <1>1, <1>2, <1>3

(* ClientType is preserved. *)
LEMMA ClientTypeNext ==
  ASSUME BaseInv, Next
  PROVE  ClientType'
<1> USE DEF BaseInv
<1> DEFINE Others == /\ phase \in {"down", "opening", "cleaning", "up"} /\ globbed \subseteq File
                     /\ cursor \in [Cursors -> SUBSET File]
                     /\ written \subseteq Key /\ asked \subseteq Key /\ deleted \subseteq Key
<1>0. Others
  BY DEF ClientType
<1>1. stray' \in BOOLEAN
  <2>1. CASE Crash
    BY <2>1 DEF Crash
  <2>2. CASE ~Crash
    <3>1. stray' = stray
      <4>1. CASE Loop \/ \E s \in Slots : JobStep(s) \/ JobRelease(s)
        BY <4>1, JobFrame DEF Loop, LoopQuit, FindGenerations, Acquire, Start, JobRelease
      <4>2. CASE Outside
        BY <4>2 DEF Outside, Flush, CleanupGlob, CleanupRemove, KeyCursor, CursorClose, Purge,
          FirstDone, OtherDone, DeleteBegin, DeleteStep, ApplyBegin, ApplyEnd, ApplyStamp, DeleteEnd,
          DeleteFile, SetCompactionsDisabled, SetCompactionsEnabled, Reopen
      <4> QED
        BY <2>2, <4>1, <4>2, Steps
    <3> QED
      BY <3>1, Zenon DEF ClientType
  <2> QED
    BY <2>1, <2>2
<1>2. Others'
  <2>1. ASSUME Crash PROVE Others'
    BY <1>0, <2>1 DEF Crash
  <2>2. ASSUME Loop \/ \E s \in Slots : JobStep(s) \/ JobRelease(s) PROVE Others'
    <3>1. UNCHANGED clientVars
      BY <2>2, JobFrame DEF Loop, LoopQuit, FindGenerations, Acquire, Start, JobRelease
    <3> QED
      BY <1>0, <3>1
  <2>3. ASSUME Flush PROVE Others'
    BY <1>0, <2>3 DEF Flush
  <2>4. ASSUME CleanupGlob \/ CleanupRemove \/ Reopen PROVE Others'
    BY <1>0, <2>4 DEF CleanupGlob, CleanupRemove, Reopen, DiskType
  <2>5. ASSUME NEW c \in Cursors, KeyCursor(c) \/ CursorClose(c) PROVE Others'
    <3>1. \E fs \in SUBSET File : cursor' = [cursor EXCEPT ![c] = fs]
      BY <2>5 DEF KeyCursor, CursorClose, StoreType
    <3>2. UNCHANGED <<phase, globbed, written, asked, deleted>>
      BY <2>5 DEF KeyCursor, CursorClose
    <3> QED
      BY <1>0, <3>1, <3>2
  <2>6. ASSUME \/ \E f \in File : Purge(f)
               \/ \E x \in Stoppers : FirstDone(x) \/ OtherDone(x)
               \/ SetCompactionsDisabled \/ SetCompactionsEnabled
        PROVE  Others'
    <3>1. UNCHANGED clientVars
      BY <2>6 DEF Purge, FirstDone, OtherDone, SetCompactionsDisabled, SetCompactionsEnabled
    <3> QED
      BY <1>0, <3>1
  <2>7. ASSUME NEW d \in Deleters, DeleteBegin(d) \/ DeleteStep(d) PROVE Others'
    <3>1. UNCHANGED <<phase, globbed, cursor>>
      BY <2>7 DEF DeleteBegin, DeleteStep, ApplyBegin, ApplyEnd, ApplyStamp, DeleteEnd, DeleteFile
    <3>2. written' \subseteq Key /\ asked' \subseteq Key /\ deleted' \subseteq Key
      BY <1>0, <2>7 DEF DeleteBegin, DeleteStep, ApplyBegin, ApplyEnd, ApplyStamp, DeleteEnd,
           DeleteFile, GateType
    <3> QED
      BY <1>0, <3>1, <3>2
  <2> QED
    BY <2>1, <2>2, <2>3, <2>4, <2>5, <2>6, <2>7, Steps DEF Outside
<1>3. budget' \in Budgets
  BY BudgetNext
<1> QED
  BY <1>1, <1>2, <1>3 DEF ClientType, Budgets

(* Init gives every variable its type. *)
LEMMA BaseInit ==
  ASSUME Init
  PROVE  BaseInv
<1>1. live \in SUBSET File
  <2>1. MaxGen \in Nat /\ MaxSeq \in Nat \ {0} /\ Len(Loaded) \in Nat /\ Len(Loaded) <= MaxGen
        /\ DOMAIN Loaded = 1..Len(Loaded)
    BY CompactionAssumption
  <2>2. \A g \in DOMAIN Loaded : <<g, 1>> \in File
    BY <2>1 DEF File
  <2>3. live = {<<g, 1>> : g \in DOMAIN Loaded}
    BY DEF Init
  <2> QED
    BY <2>2, <2>3
<1>2. \A g \in DOMAIN Loaded : Loaded[g] \in SUBSET Key
  BY CompactionAssumption DEF Key
<1>3. DiskType
  BY <1>1, <1>2 DEF Init, DiskType
<1>4. StoreType
  <2>1. generation \in 0..(MaxGen + 1)
    BY SMTT(30), CompactionAssumption DEF Init
  <2> QED
    BY <1>1, <2>1 DEF Init, StoreType
<1>5. PlanType
  <2>1. /\ inUse = {} /\ gens = {} /\ found = {} /\ gensValid = FALSE /\ lpc = "tick"
        /\ level = 1 /\ held = [l \in 1..4 |-> <<>>]
    BY DEF Init
  <2>2. held \in [1..4 -> Seq(SUBSET File)] /\ level \in 1..4
    BY <2>1
  <2>4. gensValid \in BOOLEAN
    BY <2>1
  <2>3. /\ inUse \subseteq File /\ gens \subseteq File /\ found \subseteq File
        /\ lpc \in {"off", "tick", "plan", "acquire", "start"}
    BY <2>1
  <2> QED
    BY <2>2, <2>3, <2>4, Zenon DEF PlanType
<1>6. JobType
  <2>1. /\ enabled = TRUE /\ compacting = {} /\ jpc = [s \in Slots |-> "off"]
        /\ group = [s \in Slots |-> {}] /\ outs = group /\ todo = group
        /\ merged = [s \in Slots |-> {}]
    BY DEF Init
  <2> QED
    BY <2>1 DEF JobType, JobPcs
<1>7. GateType
  BY DEF Init, GateType
<1>8. ClientType
  <2>1. written \in SUBSET Key
    BY <1>2 DEF Init, Range
  <2>2. budget \in Budgets
    <3>1. budget = [delete |-> MaxDeletes, toggle |-> MaxToggles, query |-> MaxQueries,
                    failure |-> MaxFailures, swap |-> MaxSwapFailures, crash |-> MaxCrashes]
      BY DEF Init
    <3>2. /\ MaxDeletes \in Nat /\ MaxToggles \in Nat /\ MaxQueries \in Nat
          /\ MaxFailures \in Nat /\ MaxSwapFailures \in Nat /\ MaxCrashes \in Nat
      BY CompactionAssumption
    <3> QED
      BY <3>1, <3>2 DEF Budgets
  <2>3. /\ phase = "up" /\ globbed = {} /\ cursor = [c \in Cursors |-> {}]
        /\ asked = {} /\ deleted = {} /\ stray = FALSE
    BY DEF Init
  <2> QED
    BY <2>1, <2>2, <2>3 DEF ClientType, Budgets
<1>9. DownInv /\ PlanInv /\ GroupInv /\ JobInv
  BY DEF Init, DownInv, PlanInv, GroupInv, JobInv, JobInvOf, Merging, Swapping
<1>10. CountInv
  <2>1. \A f \in File : CursorsOf(f) = {} /\ ReadersOf(f) = {} /\ refs[f] = 0
    BY DEF Init, CursorsOf, ReadersOf, Reading
  <2>2. Working = {} /\ levelWorkers = 0
    BY DEF Init, Working, Stoppers
  <2> QED
    BY <2>1, <2>2, FS_EmptySet DEF CountInv
<1> QED
  BY <1>3, <1>4, <1>5, <1>6, <1>7, <1>8, <1>9, <1>10 DEF BaseInv

(* BaseInv is inductive. *)
LEMMA BaseNext ==
  ASSUME BaseInv, [Next]_vars
  PROVE  BaseInv'
<1>1. CASE Next
  <2>1. TypeOK'
    BY <1>1, DiskJobNext, StoreNext, PlanTypeNext, GateTypeNext, ClientTypeNext
  <2>2. DownInv'
    BY <1>1, DownNext DEF BaseInv
  <2>3. CountInv'
    BY <1>1, RefsNext, WorkersNext DEF CountInv
  <2> QED
    BY <1>1, <2>1, <2>2, <2>3, PlanNext, JobNext DEF BaseInv
<1>2. CASE UNCHANGED vars
  <2> USE <1>2 DEF vars, BaseInv
  <2>1. DiskType' /\ StoreType' /\ PlanType' /\ JobType' /\ GateType' /\ ClientType'
    BY SMTT(30) DEF DiskType, StoreType, PlanType, JobType, GateType, ClientType
  <2>2. DownInv' /\ PlanInv' /\ GroupInv' /\ JobInv'
    <3>1. DownInv' /\ PlanInv'
      BY DEF DownInv, PlanInv
    <3>2. GroupInv' /\ JobInv'
      BY DEF GroupInv, JobInv, JobInvOf, OutputsOf
    <3> QED
      BY <3>1, <3>2
  <2>3. CountInv'
    BY Zenon DEF CountInv, CursorsOf, ReadersOf, Working
  <2> QED
    BY <2>1, <2>2, <2>3
<1> QED
  BY <1>1, <1>2

(* Every reachable state of Compaction satisfies BaseInv. *)
THEOREM BaseInvariance == Spec => []BaseInv
  BY BaseInit, BaseNext, PTL DEF Spec

(* Every variable keeps its type, whatever compactions, deletes, queries and crashes do: no
   SSTReader is given back more references than it handed out, levelWorkers never goes below
   zero. *)
THEOREM CompactionTypes == Spec => []TypeOK
<1>1. BaseInv => TypeOK
  BY DEF BaseInv
<1> QED
  BY <1>1, BaseInvariance, PTL

(* No file is in two compactions, or in a compaction and in a plan that the loop holds: what
   acquire adds to filesInUse stays there until its own compaction releases it. *)
THEOREM CompactionsAreDisjoint == Spec => []PlansDisjoint
<1>1. BaseInv => PlansDisjoint
  BY HeldIn DEF BaseInv, GroupInv, PlansDisjoint
<1> QED
  BY <1>1, BaseInvariance, PTL

(* While the process runs no step closes a reader that somebody refers to: replace and the
   purger, which alone close readers, look at InUse first. *)
THEOREM ReadersInUseStayOpen == Spec => InUseStaysOpen
<1> DEFINE Kept == phase' # "down" => \A f \in open : refs[f] > 0 => f \in open'
<1>1. ASSUME BaseInv, [Next]_vars PROVE [Kept]_vars
  <2> USE DEF BaseInv
  <2>1. CASE Crash
    BY <2>1 DEF Crash
  <2>2. CASE Loop
    BY <2>2 DEF Loop, LoopQuit, FindGenerations, Acquire, Start
  <2>3. ASSUME NEW s \in Slots, JobRelease(s) PROVE Kept
    BY <2>3 DEF JobRelease
  <2>4. ASSUME NEW s \in Slots, JobStep(s) PROVE Kept
    <3>1. CASE JobSwap(s) \/ JobSwapFails(s)
      <4>1. open' = open \/ \E f : refs[f] = 0 /\ open' = open \ {f}
        BY <3>1 DEF JobSwap, JobSwapFails, NotInUse
      <4> QED
        BY <4>1
    <3>2. CASE ~(JobSwap(s) \/ JobSwapFails(s))
      <4>1. open \subseteq open'
        BY <2>4, <3>2 DEF JobStep, JobBegin, JobRef, JobWrite, JobWriteFails, JobCollides, JobCheck,
           JobRename, JobRenameFails, JobLock, JobUntomb, JobInstall
      <4> QED
        BY <4>1
    <3> QED
      BY <3>1, <3>2
  <2>5. CASE Outside
    <3>1. CASE \E f \in File : Purge(f)
      BY <3>1 DEF Purge, NotInUse
    <3>2. CASE Reopen
      BY <1>1, <3>2 DEF Reopen, DownInv
    <3>3. CASE ~Reopen /\ ~\E f \in File : Purge(f)
      <4>1. open \subseteq open'
        BY <2>5, <3>3 DEF Outside, Flush, CleanupGlob, CleanupRemove, KeyCursor, CursorClose,
           FirstDone, OtherDone, DeleteBegin, DeleteStep, ApplyBegin, ApplyEnd, ApplyStamp, DeleteEnd,
           DeleteFile, SetCompactionsDisabled, SetCompactionsEnabled
      <4> QED
        BY <4>1
    <3> QED
      BY <3>1, <3>2, <3>3
  <2>6. CASE Next
    BY <2>1, <2>2, <2>3, <2>4, <2>5, <2>6, Steps
  <2> QED
    BY <1>1, <2>6
<1> QED
  BY <1>1, BaseInvariance, PTL DEF Spec, InUseStaysOpen
-----------------------------------------------------------------------------
(* The names of the files, what they hold and what a delete removed from them. *)

(* f.mu is held for writing by the compaction that swaps, never while Apply reads. *)
LockInv ==
    /\ \A s \in Slots : fsLock = s <=> jpc[s] \in Swapping
    /\ Applying => fsLock = NoSlot
    /\ \A d \in Deleters : spc[d] = "apply" => delFiles[d] \subseteq files
    /\ \A d \in Deleters : delKeys[d] \subseteq asked

(* G, a set of files that somebody read from a list fs of the store, up to generation n: of
   a file that is still in the list, G has the whole generation; what was replaced has
   smaller numbers than what its generation has now. *)
Tracked(G, fs, n) ==
    \A f \in G : /\ f[1] <= n
                 /\ \A h \in fs : h[1] = f[1] => IF f \in fs THEN h \in G ELSE f[2] < h[2]

NameInv ==
    /\ \A f \in files : f[1] <= generation
    /\ Tracked(found, files, generation)
    /\ gensValid => Tracked(gens, files, generation)
    /\ Tracked(inUse, files, generation)
    /\ Tracked(purging, files, generation) /\ purging \cap files = {}
    /\ \A l \in 1..4 : \A i \in DOMAIN held[l] : Tracked(held[l][i], files, generation)
    /\ \A s \in Slots : Tracked(group[s], files, generation)
    /\ \A s \in Slots : jpc[s] \in Planned => group[s] \subseteq files

(* Until the application switches compactions off: the first delete waits for all of them,
   and none starts before the last delete is done. *)
GateOpen ==
    /\ spc[Toggler] = "idle"
    /\ compactionDone = "open" => levelWorkers = 0
    /\ compactionDone = "closed" => \E d \in Deleters : spc[d] = "first"
    /\ compactionDone = "nil" => Quiet
    /\ \A d \in Deleters : spc[d] = "first" => compactionDone = "closed"
    /\ \A d, e \in Deleters : spc[d] = "first" /\ spc[e] = "first" => d = e
    /\ \A d \in Deleters : spc[d] \in {"go", "in", "apply", "stamp", "out"} => Quiet
GateInv == budget.toggle = MaxToggles => GateOpen

(* What a compaction has read covers its old files, the outputs it has renamed hold it, and
   the old files it has removed have no tombstone file. *)
Done(s) == IF jpc[s] = "rename" THEN outs[s] \ todo[s]
           ELSE IF jpc[s] \in Swapping THEN outs[s] ELSE {}
MergeInvOf(s) ==
    /\ jpc[s] \in Merging => \A f \in group[s] : InFile(f) \subseteq merged[s]
    /\ \A o \in Done(s) : data[o] = Part(merged[s], o[2] - Last(group[s])[2])
    /\ jpc[s] \in Swapping => \A f \in group[s] \ todo[s] : tombs[f] = {}
MergeInv == \A s \in Slots : MergeInvOf(s)

(* The files of the store are live and open, but for those being replaced; the outputs of
   the compaction that replaces them are.  A tombstone file is applied to its reader. *)
LiveInv ==
    Untorn =>
      /\ phase # "down" => \A f \in files : tombs[f] \subseteq gone[f]
      /\ \A f \in File : tombs[f] # {} => f \in IF phase = "down" THEN live ELSE files
      /\ \A f \in files :
           f \in live \cap open \/ \E s \in Slots : fsLock = s /\ f \in group[s]
      /\ \A s \in Slots : \A o \in Done(s) : o \in live /\ o \in open /\ gone[o] = {}

(* Every key is in the list of files; while the process is down, on the disk. *)
StoreInv ==
    Untorn =>
      /\ phase # "down" => written \ asked \subseteq InFiles
      /\ phase = "down" => written \ asked \subseteq UNION {data[f] \ tombs[f] : f \in live}

(* What was deleted is in no file, and in nothing that a compaction has read. *)
DeleteInv ==
    /\ phase = "down" => budget.crash # MaxCrashes
    /\ Up /\ budget.toggle = MaxToggles /\ budget.crash = MaxCrashes =>
         /\ deleted \cap InFiles = {}
         /\ \A s \in Slots : jpc[s] \in Merging => merged[s] \cap deleted = {}
(***************************************************************************)
(* The names of files.                                                     *)
(***************************************************************************)

(* A new generation is of no set that is tracked. *)
LEMMA TrackedFlush ==
  ASSUME NEW G \in SUBSET File, NEW fs \in SUBSET File, NEW n \in Nat, Tracked(G, fs, n)
  PROVE  Tracked(G, fs \cup {<<n + 1, 1>>}, n + 1)
<1> SUFFICES ASSUME NEW f \in G
             PROVE  /\ f[1] <= n + 1
                    /\ \A h \in fs \cup {<<n + 1, 1>>} : h[1] = f[1] =>
                         IF f \in fs \cup {<<n + 1, 1>>} THEN h \in G ELSE f[2] < h[2]
  BY DEF Tracked
<1>1. f[1] <= n /\ f[1] \in Nat
  BY FileFacts DEF Tracked
<1>2. f # <<n + 1, 1>>
  BY <1>1
<1>3. \A h \in fs : h[1] = f[1] => IF f \in fs THEN h \in G ELSE f[2] < h[2]
  BY DEF Tracked
<1> QED
  BY <1>1, <1>2, <1>3

(* What the loop finds, and what is left of a set when parts of it are taken away. *)
LEMMA TrackedMinus ==
  ASSUME NEW G \in SUBSET File, NEW fs \in SUBSET File, NEW n \in Nat, Tracked(G, fs, n),
         NEW H, \A h \in H \cap fs : \A f \in fs : f[1] = h[1] => f \in H
  PROVE  Tracked(G \ H, fs, n)
  BY DEF Tracked

(* Two sets together. *)
LEMMA TrackedCup ==
  ASSUME NEW G \in SUBSET File, NEW H \in SUBSET File, NEW fs \in SUBSET File, NEW n \in Nat,
         Tracked(G, fs, n), Tracked(H, fs, n)
  PROVE  Tracked(G \cup H, fs, n)
  BY DEF Tracked

(* The outputs of a group of the list have names that the list does not have, the last of
   their generation. *)
LEMMA OutputsNew ==
  ASSUME NEW fs \in SUBSET File, NEW n \in Nat, NEW g, Named(g), g \subseteq fs, Tracked(g, fs, n),
         NEW i \in 1..2
  PROVE  /\ Output(g, i) \notin fs /\ Output(g, i)[1] <= n
         /\ \A h \in fs : h[1] = Output(g, i)[1] => h \in g /\ h[2] < Output(g, i)[2]
<1>1. /\ Output(g, i)[1] = Last(g)[1] /\ Output(g, i)[2] = Last(g)[2] + i
      /\ Last(g) \in g /\ Last(g) \in File /\ \A f \in g : Before(f, Last(g))
  BY OutputFacts
<1>2. Last(g)[1] \in Nat /\ Last(g)[2] \in Nat
  BY <1>1, FileFacts
<1>3. ASSUME NEW h \in fs, h[1] = Output(g, i)[1] PROVE h \in g /\ h[2] < Output(g, i)[2]
  <2>1. h \in g
    BY <1>1, <1>3 DEF Tracked
  <2>2. h[2] <= Last(g)[2] /\ h[2] \in Nat
    BY <1>1, <1>2, <1>3, <2>1, FileFacts DEF Before
  <2> QED
    BY <1>1, <1>2, <2>1, <2>2
<1>4. Output(g, i) \notin fs
  <2>1. Output(g, i)[2] \in Nat
    BY <1>1, <1>2
  <2> QED
    BY <1>3, <2>1
<1> QED
  BY <1>1, <1>3, <1>4 DEF Tracked

(* Replacing a group by its outputs. *)
LEMMA TrackedInstall ==
  ASSUME NEW G \in SUBSET File, NEW fs \in SUBSET File, NEW n \in Nat, Tracked(G, fs, n),
         NEW g, Named(g), g \subseteq fs, Tracked(g, fs, n),
         NEW os \in SUBSET {Output(g, 1), Output(g, 2)}
  PROVE  Tracked(G, (fs \ g) \cup os, n)
<1> DEFINE new == (fs \ g) \cup os
<1>1. /\ Last(g) \in g /\ Last(g) \in fs /\ Last(g) \in File /\ \A f \in g : Before(f, Last(g))
      /\ \A o \in os : o[1] = Last(g)[1] /\ o[2] > Last(g)[2] /\ o[2] \in Nat /\ o \notin fs
  <2>1. Last(g) \in g /\ Last(g) \in File /\ \A f \in g : Before(f, Last(g))
    BY OutputFacts
  <2>2. Last(g)[1] \in Nat /\ Last(g)[2] \in Nat
    BY <2>1, FileFacts
  <2>3. \A i \in 1..2 : /\ Output(g, i)[1] = Last(g)[1] /\ Output(g, i)[2] = Last(g)[2] + i
                        /\ Output(g, i) \notin fs
    BY OutputFacts, OutputsNew
  <2> QED
    BY <2>1, <2>2, <2>3
<1>2. Last(g)[1] \in Nat /\ Last(g)[2] \in Nat
  BY <1>1, FileFacts
<1> SUFFICES ASSUME NEW f \in G, NEW h \in new, h[1] = f[1]
             PROVE  IF f \in new THEN h \in G ELSE f[2] < h[2]
  BY DEF Tracked
<1>3. f[1] \in Nat /\ f[2] \in Nat /\ f \in File
  BY FileFacts
<1>4. \A x \in fs : x[1] = f[1] => IF f \in fs THEN x \in G ELSE f[2] < x[2]
  BY DEF Tracked
<1>5. \A x \in g, y \in fs : y[1] = x[1] => y \in g
  BY DEF Tracked
<1>6. CASE f \in new
  <2>1. f \notin os
    <3>1. SUFFICES ASSUME f \in os PROVE FALSE
      OBVIOUS
    <3>2. f[1] = Last(g)[1] /\ f[2] > Last(g)[2] /\ f \notin fs
      BY <1>1, <3>1
    <3>3. f[2] < Last(g)[2]
      BY <1>1, <1>4, <3>2
    <3> QED
      BY <1>2, <1>3, <3>2, <3>3
  <2>2. f \in fs /\ f \notin g
    BY <1>6, <2>1
  <2>3. h \notin os
    BY <1>1, <1>5, <2>2
  <2> QED
    BY <1>4, <1>6, <2>2, <2>3
<1>7. CASE f \notin new
  <2>1. CASE f \in fs
    <3>1. f \in g
      BY <1>7, <2>1
    <3>2. h \in os
      <4>1. h \notin fs \ g
        BY <1>5, <3>1
      <4> QED
        BY <4>1
    <3>3. h[1] = Last(g)[1] /\ h[2] > Last(g)[2] /\ h[2] \in Nat
      BY <1>1, <3>2
    <3>4. f[2] <= Last(g)[2]
      <4>1. f[1] = Last(g)[1] /\ Before(f, Last(g))
        BY <1>1, <3>1, <3>3
      <4> QED
        BY <1>2, <1>3, <4>1 DEF Before
    <3> QED
      BY <1>2, <1>3, <1>7, <3>3, <3>4
  <2>2. CASE f \notin fs /\ h \in fs
    BY <1>4, <1>7, <2>2
  <2>3. CASE f \notin fs /\ h \in os
    <3>1. h[1] = Last(g)[1] /\ h[2] > Last(g)[2] /\ h[2] \in Nat
      BY <1>1, <2>3
    <3>2. f[2] < Last(g)[2]
      BY <1>1, <1>4, <2>3, <3>1
    <3> QED
      BY <1>2, <1>3, <1>7, <3>1, <3>2
  <2> QED
    BY <2>1, <2>2, <2>3
<1> QED
  BY <1>6, <1>7


(* The numbers and sets that NameInv is about have their types. *)
LEMMA NameTypes ==
  ASSUME BaseInv
  PROVE  /\ files \in SUBSET File /\ found \in SUBSET File /\ gens \in SUBSET File
         /\ inUse \in SUBSET File /\ purging \in SUBSET File /\ generation \in Nat
         /\ \A s \in Slots : group[s] \in SUBSET File
         /\ \A l \in 1..4 : \A i \in DOMAIN held[l] : held[l][i] \in SUBSET File
<1>1. /\ files \in SUBSET File /\ found \in SUBSET File /\ gens \in SUBSET File
      /\ inUse \in SUBSET File /\ purging \in SUBSET File /\ generation \in Nat
  BY CompactionAssumption DEF BaseInv, StoreType, PlanType
<1>2. \A s \in Slots : group[s] \in SUBSET File
  BY DEF BaseInv, JobType
<1>3. \A l \in 1..4 : \A i \in DOMAIN held[l] : held[l][i] \in SUBSET File
  BY DEF BaseInv, PlanInv, Named
<1> QED
  BY <1>1, <1>2, <1>3

(* What is read from the list by the loop: all of it that is not in use, or what was found
   before. *)
LEMMA FindNames ==
  ASSUME BaseInv, NameInv, FindGenerations
  PROVE  NameInv'
<1>1. UNCHANGED <<files, generation, inUse, purging, held, jpc, group>> /\ gens' = found'
  BY DEF FindGenerations
<1>2. Tracked(found', files, generation)
  <2>1. CASE gensValid
    BY <2>1 DEF FindGenerations, NameInv
  <2>2. CASE ~gensValid
    <3>1. found' = files \ inUse
      BY <2>2 DEF FindGenerations
    <3>2. Tracked(files, files, generation)
      BY DEF NameInv, Tracked
    <3>3. \A h \in inUse \cap files : \A f \in files : f[1] = h[1] => f \in inUse
      BY DEF NameInv, Tracked
    <3> QED
      BY <3>1, <3>2, <3>3, NameTypes, TrackedMinus
  <2> QED
    BY <2>1, <2>2
<1> QED
  BY <1>1, <1>2 DEF NameInv

(* The groups of a plan take whole generations of what was found. *)
LEMMA AcquireNames ==
  ASSUME BaseInv, NameInv, Acquire
  PROVE  NameInv'
<1> DEFINE gs == PlanGroups(level, found)
<1>0. level \in Levels /\ level \in 1..4 /\ found \in SUBSET File
  BY DEF Acquire, PlanInv, PlanType, BaseInv
<1>1. /\ gs \in Seq((SUBSET found) \ {{}})
      /\ \A i \in DOMAIN gs : \A f \in gs[i], g \in found : f[1] = g[1] => g \in gs[i]
  BY <1>0, PlanAssumption
<1>2. /\ UNCHANGED <<files, generation, gens, gensValid, purging, jpc, group>> /\ found' = {}
      /\ \/ UNCHANGED <<inUse, held>>
         \/ inUse' = inUse \cup GroupFiles(gs) /\ held' = [held EXCEPT ![level] = gs]
  BY DEF Acquire
<1> HIDE DEF gs
<1>3. \A i \in DOMAIN gs : gs[i] \in SUBSET found
  BY <1>1
<1>4. ASSUME NEW i \in DOMAIN gs PROVE Tracked(gs[i], files, generation)
  <2>1. SUFFICES ASSUME NEW f \in gs[i]
                 PROVE  /\ f[1] <= generation
                        /\ \A h \in files : h[1] = f[1] => IF f \in files THEN h \in gs[i] ELSE f[2] < h[2]
    BY DEF Tracked
  <2>2. f \in found
    BY <1>3
  <2>3. /\ f[1] <= generation
        /\ \A h \in files : h[1] = f[1] => IF f \in files THEN h \in found ELSE f[2] < h[2]
    BY <2>2 DEF NameInv, Tracked
  <2>4. \A g \in found : f[1] = g[1] => g \in gs[i]
    BY <1>1
  <2> QED
    BY <2>3, <2>4
<1>5. Tracked(GroupFiles(gs), files, generation) /\ GroupFiles(gs) \in SUBSET File
  <2>1. \A x : x \in GroupFiles(gs) <=> \E i \in DOMAIN gs : x \in gs[i]
    BY HeldIn
  <2> QED
    BY <1>0, <1>3, <1>4, <2>1 DEF Tracked
<1>6. Tracked(inUse', files, generation)
  BY <1>2, <1>5, NameTypes, TrackedCup DEF NameInv
<1>7. \A l \in 1..4 : \A i \in DOMAIN held'[l] : Tracked(held'[l][i], files, generation)
  <2>1. \A l \in 1..4 : held'[l] = held[l] \/ held'[l] = gs
    BY <1>0, <1>2 DEF BaseInv, PlanType
  <2> QED
    BY <1>4, <2>1 DEF NameInv
<1>8. Tracked({}, files, generation)
  BY DEF Tracked
<1> QED
  BY <1>2, <1>6, <1>7, <1>8 DEF NameInv

(* The plans that are not started are released. *)
LEMMA StartNames ==
  ASSUME BaseInv, BaseInv', NameInv, Start
  PROVE  NameInv'
<1>1. UNCHANGED <<files, generation, gens, gensValid, purging, found>> /\ held' = [l \in 1..4 |-> <<>>]
  BY DEF Start
<1>2. \A l \in 1..4 : held[l] # <<>> => /\ Head(held[l]) = held[l][1] /\ 1 \in DOMAIN held[l]
                                        /\ \A i \in DOMAIN Tail(held[l]) : i + 1 \in DOMAIN held[l]
                                                              /\ Tail(held[l])[i] = held[l][i + 1]
  <2>1. SUFFICES ASSUME NEW l \in 1..4, held[l] # <<>>
                 PROVE  /\ Head(held[l]) = held[l][1] /\ 1 \in DOMAIN held[l]
                        /\ \A i \in DOMAIN Tail(held[l]) : i + 1 \in DOMAIN held[l]
                                                         /\ Tail(held[l])[i] = held[l][i + 1]
    OBVIOUS
  <2>2. held[l] \in Seq(SUBSET File)
    BY DEF BaseInv, PlanType
  <2> QED
    BY <2>1, <2>2
<1>3. \A s \in Slots : /\ Tracked(group'[s], files, generation)
                       /\ jpc'[s] \in Planned => jpc'[s] = jpc[s] /\ group'[s] = group[s]
  <2>1. \A s \in Slots : \/ jpc'[s] = jpc[s] /\ group'[s] = group[s]
                         \/ /\ jpc'[s] = "begin"
                            /\ \E l \in 1..4 : held[l] # <<>> /\ group'[s] = Head(held[l])
    BY DEF Start, BaseInv, JobType
  <2> QED
    BY <1>2, <2>1 DEF NameInv, Planned
<1>4. PICK H : inUse' = inUse \ HeldFiles(H) /\
        \A l \in 1..4 : \A i \in DOMAIN H[l] : \E j \in DOMAIN held[l] : H[l][i] = held[l][j]
  <2>1. CASE inUse' = inUse \ HeldFiles(held)
    BY <2>1
  <2>2. ASSUME NEW l \in 1..4, held[l] # <<>>, inUse' = inUse \ HeldFiles([held EXCEPT ![l] = Tail(@)])
        PROVE  \E H : inUse' = inUse \ HeldFiles(H) /\
                 \A m \in 1..4 : \A i \in DOMAIN H[m] : \E j \in DOMAIN held[m] : H[m][i] = held[m][j]
    <3> DEFINE H == [held EXCEPT ![l] = Tail(@)]
    <3>1. \A m \in 1..4 : H[m] = IF m = l THEN Tail(held[l]) ELSE held[m]
      BY DEF BaseInv, PlanType
    <3> HIDE DEF H
    <3>2. \A m \in 1..4 : \A i \in DOMAIN H[m] : \E j \in DOMAIN held[m] : H[m][i] = held[m][j]
      <4>1. SUFFICES ASSUME NEW m \in 1..4, NEW i \in DOMAIN H[m]
                     PROVE  \E j \in DOMAIN held[m] : H[m][i] = held[m][j]
        OBVIOUS
      <4>2. CASE m = l
        <5>1. H[m] = Tail(held[l]) /\ i \in DOMAIN Tail(held[l])
          BY <3>1, <4>2
        <5>2. i + 1 \in DOMAIN held[l] /\ H[m][i] = held[l][i + 1]
          BY <1>2, <2>2, <5>1
        <5> QED
          BY <4>2, <5>2
      <4>3. CASE m # l
        BY <3>1, <4>3
      <4> QED
        BY <4>2, <4>3
    <3>3. inUse' = inUse \ HeldFiles(H)
      BY <2>2 DEF H
    <3> WITNESS H
    <3> QED
      BY <3>2, <3>3
  <2> QED
    BY <2>1, <2>2 DEF Start
<1>5. \A h \in HeldFiles(H) \cap files : \A f \in files : f[1] = h[1] => f \in HeldFiles(H)
  <2>1. SUFFICES ASSUME NEW h \in HeldFiles(H), h \in files, NEW f \in files, f[1] = h[1]
                 PROVE  f \in HeldFiles(H)
    OBVIOUS
  <2>2. PICK l \in 1..4 : \E i \in DOMAIN H[l] : h \in H[l][i]
    BY HeldIn
  <2> PICK i \in DOMAIN H[l] : h \in H[l][i]
    BY <2>2
  <2>3. PICK j \in DOMAIN held[l] : H[l][i] = held[l][j]
    BY <1>4
  <2>4. f \in H[l][i]
    BY <2>1, <2>2, <2>3 DEF NameInv, Tracked
  <2> QED
    BY <2>4, HeldIn
<1>6. Tracked(inUse', files, generation)
  BY <1>4, <1>5, NameTypes, TrackedMinus DEF NameInv
<1> QED
  BY <1>1, <1>3, <1>6 DEF NameInv

(* Release gives whole generations back. *)
LEMMA ReleaseNames ==
  ASSUME BaseInv, NameInv, NEW s \in Slots, JobRelease(s)
  PROVE  NameInv'
<1>1. /\ UNCHANGED <<files, generation, gens, gensValid, purging, found, held>>
      /\ inUse' = inUse \ group[s]
      /\ \A t \in Slots : \/ jpc'[t] = jpc[t] /\ group'[t] = group[t]
                          \/ jpc'[t] = "off" /\ group'[t] = {}
  BY DEF JobRelease, Goto, BaseInv, JobType
<1>2. \A h \in group[s] \cap files : \A f \in files : f[1] = h[1] => f \in group[s]
  BY DEF NameInv, Tracked
<1>3. Tracked(inUse', files, generation)
  BY <1>1, <1>2, NameTypes, TrackedMinus DEF NameInv
<1>4. Tracked({}, files, generation)
  BY DEF Tracked
<1> QED
  BY <1>1, <1>3, <1>4 DEF NameInv, Planned

(* Outputs replace the group that they were made of. *)
LEMMA InstallNames ==
  ASSUME BaseInv, NameInv, NEW s \in Slots, JobInstall(s)
  PROVE  NameInv'
<1> DEFINE g == group[s]
<1>1. /\ jpc[s] = "swap" /\ files' = (files \ g) \cup outs[s]
      /\ purging' = purging \cup (g \cap open) /\ gensValid' = FALSE
      /\ UNCHANGED <<generation, inUse, gens, found, held, group>>
      /\ jpc'[s] = "release" /\ \A t \in Slots \ {s} : jpc'[t] = jpc[t]
  BY DEF JobInstall, Goto, BaseInv, JobType
<1>2. Named(g) /\ g \subseteq files /\ Tracked(g, files, generation) /\ g \in SUBSET File
  BY <1>1, NameTypes DEF BaseInv, GroupInv, NameInv, Planned
<1>3. outs[s] \in SUBSET {Output(g, 1), Output(g, 2)}
  BY <1>1 DEF BaseInv, JobInv, JobInvOf, OutputsOf, Merging
<1>4. ASSUME NEW G \in SUBSET File, Tracked(G, files, generation)
      PROVE  Tracked(G, files', generation)
  BY <1>1, <1>2, <1>3, <1>4, NameTypes, TrackedInstall
<1>5. \A f \in files' : f[1] <= generation
  <2>1. \A o \in outs[s] : o[1] <= generation
    BY <1>2, <1>3, NameTypes, OutputsNew
  <2> QED
    BY <1>1, <2>1 DEF NameInv
<1>6. g \cap files' = {}
  <2>1. \A o \in outs[s] : o \notin files
    BY <1>2, <1>3, NameTypes, OutputsNew
  <2> QED
    BY <1>1, <1>2, <2>1
<1>7. purging \cap files' = {}
  <2>1. SUFFICES ASSUME NEW p \in purging, p \in outs[s] PROVE FALSE
    BY <1>1 DEF NameInv
  <2>2. p \notin files /\ p \in File
    BY NameTypes DEF NameInv
  <2>3. PICK i \in 1..2 : p = Output(g, i)
    <3>1. p = Output(g, 1) \/ p = Output(g, 2)
      BY <1>3, <2>1
    <3> QED
      BY <3>1
  <2>4. Last(g) \in files /\ Last(g)[1] = p[1] /\ p[2] = Last(g)[2] + i /\ Last(g) \in File
    BY <1>2, <2>3, OutputFacts
  <2>5. p[2] < Last(g)[2]
    BY <2>2, <2>4 DEF NameInv, Tracked
  <2>6. Last(g)[2] \in Nat
    BY <2>4, FileFacts
  <2> QED
    BY <2>4, <2>5, <2>6
<1>8. Tracked(purging', files', generation) /\ purging' \cap files' = {}
  <2>1. Tracked(g, files', generation) /\ Tracked(purging, files', generation)
    BY <1>2, <1>4, NameTypes DEF NameInv
  <2> QED
    BY <1>1, <1>6, <1>7, <2>1 DEF Tracked
<1>9. \A t \in Slots : jpc'[t] \in Planned => group[t] \subseteq files'
  <2>1. SUFFICES ASSUME NEW t \in Slots, jpc'[t] \in Planned PROVE group[t] \subseteq files'
    OBVIOUS
  <2>2. t # s /\ jpc[t] \in Planned
    BY <1>1, <2>1 DEF Planned
  <2>3. group[t] \subseteq files /\ group[t] \cap g = {}
    BY <2>2 DEF NameInv, BaseInv, GroupInv
  <2> QED
    BY <1>1, <2>3
<1>10. /\ Tracked(found, files', generation) /\ Tracked(inUse, files', generation)
       /\ \A l \in 1..4 : \A i \in DOMAIN held[l] : Tracked(held[l][i], files', generation)
       /\ \A t \in Slots : Tracked(group[t], files', generation)
  BY <1>4, NameTypes DEF NameInv
<1> HIDE DEF g
<1> QED
  BY <1>1, <1>5, <1>8, <1>9, <1>10 DEF NameInv

(* A flush begins a new generation. *)
LEMMA FlushNames ==
  ASSUME BaseInv, NameInv, Flush
  PROVE  NameInv'
<1>1. /\ files' = files \cup {<<generation + 1, 1>>} /\ generation' = generation + 1
      /\ gensValid' = FALSE
      /\ UNCHANGED <<found, inUse, purging, held, jpc, group>>
  BY DEF Flush
<1>2. ASSUME NEW G \in SUBSET File, Tracked(G, files, generation)
      PROVE  Tracked(G, files', generation')
  BY <1>1, <1>2, NameTypes, TrackedFlush
<1>3. \A f \in files' : f[1] <= generation'
  BY <1>1, NameTypes, FileFacts DEF NameInv
<1>4. purging \cap files' = {}
  <2>1. \A p \in purging : p[1] <= generation
    BY DEF NameInv, Tracked
  <2> QED
    BY <1>1, <2>1, NameTypes DEF NameInv
<1>5. /\ Tracked(found, files', generation') /\ Tracked(inUse, files', generation')
      /\ Tracked(purging, files', generation')
      /\ \A l \in 1..4 : \A i \in DOMAIN held[l] : Tracked(held[l][i], files', generation')
      /\ \A t \in Slots : Tracked(group[t], files', generation')
  BY <1>2, NameTypes DEF NameInv
<1> QED
  BY <1>1, <1>3, <1>4, <1>5 DEF NameInv

(* A start reads the names that are on disk. *)
LEMMA ReopenNames ==
  ASSUME BaseInv, BaseInv', NameInv, Reopen
  PROVE  NameInv'
<1>1. /\ phase = "down" /\ files' = live /\ live \in SUBSET File
      /\ generation' = (IF live = {} THEN 0 ELSE Last(live)[1] + 1)
      /\ UNCHANGED <<gensValid, found, inUse, purging, held, jpc, group>>
  BY DEF Reopen, BaseInv, DiskType
<1>2. /\ gensValid = FALSE /\ found = {} /\ inUse = {} /\ purging = {}
      /\ held = [l \in 1..4 |-> <<>>] /\ \A s \in Slots : jpc[s] = "off" /\ group[s] = {}
  BY <1>1 DEF BaseInv, DownInv, GroupInv
<1>3. \A f \in files' : f[1] <= generation'
  <2>1. SUFFICES ASSUME NEW f \in live PROVE f[1] <= generation'
    BY <1>1
  <2>2. Last(live) \in live /\ Before(f, Last(live))
    BY <1>1, FirstLast
  <2>3. f[1] \in Nat /\ Last(live)[1] \in Nat
    BY <1>1, <2>2, FileFacts
  <2> QED
    BY <1>1, <2>2, <2>3 DEF Before
<1>4. Tracked({}, files', generation')
  BY DEF Tracked
<1>5. /\ ~gensValid' /\ found' = {} /\ inUse' = {} /\ purging' = {}
      /\ \A l \in 1..4 : DOMAIN held'[l] = {}
      /\ \A s \in Slots : group'[s] = {} /\ jpc'[s] = "off"
  BY <1>1, <1>2
<1> QED
  BY <1>3, <1>4, <1>5 DEF NameInv, Planned

(* NameInv is preserved. *)
LEMMA NameNext ==
  ASSUME BaseInv, BaseInv', NameInv, Next
  PROVE  NameInv'
<1>1. ASSUME Outside, ~Flush, ~Reopen PROVE NameInv'
  <2>1. UNCHANGED <<inUse, found, held, jpc, group, gens>>
    BY <1>1, OutsideFrame
  <2>2. /\ UNCHANGED <<files, generation>> /\ (gensValid' = gensValid \/ gensValid' = FALSE)
        /\ purging' \subseteq purging
    BY <1>1 DEF Outside, CleanupGlob, CleanupRemove, KeyCursor, CursorClose, Purge,
         FirstDone, OtherDone, DeleteBegin, DeleteStep, ApplyBegin, ApplyEnd, ApplyStamp, DeleteEnd,
         DeleteFile, SetCompactionsDisabled, SetCompactionsEnabled
  <2>3. Tracked(purging', files', generation') /\ purging' \cap files' = {}
    <3>1. SUFFICES ASSUME NEW f \in purging'
                   PROVE  /\ f \notin files
                          /\ f[1] <= generation
                          /\ \A h \in files : h[1] = f[1] => f[2] < h[2]
      BY <2>2 DEF Tracked
    <3>2. f \in purging /\ f \notin files
      BY <2>2 DEF NameInv
    <3> QED
      BY <3>2 DEF NameInv, Tracked
  <2> QED
    BY <2>1, <2>2, <2>3 DEF NameInv
<1>2. CASE Crash
  <2>1. /\ files' = {} /\ found' = {} /\ inUse' = {} /\ purging' = {} /\ gensValid' = FALSE
        /\ held' = [l \in 1..4 |-> <<>>] /\ group' = [s \in Slots |-> {}]
        /\ jpc' = [s \in Slots |-> "off"]
    BY <1>2 DEF Crash
  <2>2. Tracked({}, files', generation')
    BY DEF Tracked
  <2> QED
    BY <2>1, <2>2 DEF NameInv, Planned
<1>3. CASE LoopQuit
  BY <1>3 DEF LoopQuit, NameInv
<1>4. ASSUME NEW s \in Slots, JobStep(s), ~JobInstall(s) PROVE NameInv'
  <2>1. /\ UNCHANGED <<inUse, gens, found, held, group, generation>>
        /\ \A t \in Slots \ {s} : jpc'[t] = jpc[t]
    BY <1>4, JobFrame DEF BaseInv
  <2>2. UNCHANGED <<files, purging, gensValid>>
    BY <1>4 DEF JobStep, JobBegin, JobRef, JobWrite, JobWriteFails, JobCollides, JobCheck,
         JobRename, JobRenameFails, JobLock, JobSwap, JobUntomb, JobSwapFails
  <2>3. jpc'[s] \in Planned => jpc[s] \in Planned \/ group[s] \subseteq files
    BY <1>4 DEF JobStep, JobBegin, JobRef, JobWrite, JobWriteFails, JobCollides, JobCheck,
         JobRename, JobRenameFails, JobLock, JobSwap, JobUntomb, JobSwapFails, Goto, Planned,
         BaseInv, JobType
  <2>4. \A t \in Slots : jpc'[t] \in Planned => group[t] \subseteq files
    BY <2>1, <2>3 DEF NameInv
  <2> QED
    BY <2>1, <2>2, <2>4 DEF NameInv
<1> QED
  BY <1>1, <1>2, <1>3, <1>4, Steps, FlushNames, ReopenNames, FindNames, AcquireNames, StartNames,
     ReleaseNames, InstallNames DEF Loop

(* The names of Init. *)
LEMMA NameInit ==
  ASSUME Init
  PROVE  NameInv
<1>1. /\ files = {<<g, 1>> : g \in DOMAIN Loaded}
      /\ generation = IF Loaded = <<>> THEN 0 ELSE Len(Loaded) + 1
      /\ found = {} /\ inUse = {} /\ purging = {} /\ gensValid = FALSE
      /\ held = [l \in 1..4 |-> <<>>] /\ group = [s \in Slots |-> {}]
      /\ jpc = [s \in Slots |-> "off"]
  BY DEF Init
<1>2. \A f \in files : f[1] <= generation
  BY <1>1, CompactionAssumption
<1>3. Tracked({}, files, generation)
  BY DEF Tracked
<1>4. /\ ~gensValid /\ found = {} /\ inUse = {} /\ purging = {}
      /\ \A l \in 1..4 : DOMAIN held[l] = {}
      /\ \A s \in Slots : group[s] = {} /\ jpc[s] = "off"
  BY <1>1
<1> QED
  BY <1>2, <1>3, <1>4 DEF NameInv, Planned

(* The names a compaction gives its outputs are new: its group has, of the files of the list,
   whole generations, so that the last name of the group is the last of its generation. *)
THEOREM OutputsAreNew == Spec => []NoClobber
<1>1. Init => BaseInv /\ NameInv
  BY BaseInit, NameInit
<1>2. ASSUME BaseInv /\ NameInv, [Next]_vars PROVE (BaseInv /\ NameInv)'
  <2>1. BaseInv'
    BY <1>2, BaseNext
  <2>2. CASE Next
    BY <1>2, <2>1, <2>2, NameNext
  <2>3. CASE UNCHANGED vars
    <3>1. NameInv'
      BY <1>2, <2>3 DEF vars, NameInv
    <3> QED
      BY <2>1, <3>1
  <2> QED
    BY <1>2, <2>2, <2>3
<1>3. ASSUME BaseInv /\ NameInv PROVE NoClobber
  <2>1. SUFFICES ASSUME NEW s \in Slots, jpc[s] \in {"check", "rename"} PROVE outs[s] \cap files = {}
    BY DEF NoClobber
  <2>2. Named(group[s]) /\ group[s] \subseteq files /\ Tracked(group[s], files, generation)
    BY <1>3, <2>1 DEF BaseInv, GroupInv, NameInv, Planned
  <2>3. outs[s] \in SUBSET {Output(group[s], 1), Output(group[s], 2)}
    BY <1>3, <2>1 DEF BaseInv, JobInv, JobInvOf, OutputsOf, Merging
  <2>4. Output(group[s], 1) \notin files /\ Output(group[s], 2) \notin files
    BY <1>3, <2>2, NameTypes, OutputsNew
  <2> QED
    BY <2>3, <2>4
<1> QED
  BY <1>1, <1>2, <1>3, PTL DEF Spec

(***************************************************************************)
(* Locks, gates and budgets.                                               *)
(***************************************************************************)

(* What the runs are bounded by only gets less. *)
LEMMA Monotone ==
  ASSUME TypeOK, Next
  PROVE  /\ Untorn' => Untorn
         /\ budget'.toggle = MaxToggles => budget.toggle = MaxToggles
         /\ budget'.crash = MaxCrashes => budget.crash = MaxCrashes
<1>1. /\ budget'.swap = MaxSwapFailures => budget.swap = MaxSwapFailures
      /\ budget'.toggle = MaxToggles => budget.toggle = MaxToggles
      /\ budget'.crash = MaxCrashes => budget.crash = MaxCrashes
  <2>1. /\ budget.swap \in 0..MaxSwapFailures /\ budget.toggle \in 0..MaxToggles
        /\ budget.crash \in 0..MaxCrashes
    BY DEF ClientType
  <2>2. MaxSwapFailures \in Nat /\ MaxToggles \in Nat /\ MaxCrashes \in Nat
    BY CompactionAssumption
  <2>3. CASE budget' = budget
    BY <2>3
  <2>4. ASSUME NEW w \in {"delete", "toggle", "query", "failure", "swap", "crash"}, Spend(w)
        PROVE  /\ budget'.swap = IF w = "swap" THEN budget.swap - 1 ELSE budget.swap
               /\ budget'.toggle = IF w = "toggle" THEN budget.toggle - 1 ELSE budget.toggle
               /\ budget'.crash = IF w = "crash" THEN budget.crash - 1 ELSE budget.crash
    BY <2>4 DEF Spend, ClientType
  <2> QED
    BY <2>1, <2>2, <2>3, <2>4, BudgetNext
<1>2. ~stray' => ~stray
  <2>1. CASE Crash
    BY <2>1 DEF Crash
  <2>2. CASE Loop \/ \E s \in Slots : JobStep(s) \/ JobRelease(s)
    BY <2>2, JobFrame DEF Loop, LoopQuit, FindGenerations, Acquire, Start, JobRelease
  <2>3. CASE Outside
    BY <2>3 DEF Outside, Flush, CleanupGlob, CleanupRemove, KeyCursor, CursorClose, Purge,
         FirstDone, OtherDone, DeleteBegin, DeleteStep, ApplyBegin, ApplyEnd, ApplyStamp, DeleteEnd,
         DeleteFile, SetCompactionsDisabled, SetCompactionsEnabled, Reopen
  <2> QED
    BY <2>1, <2>2, <2>3, Steps
<1> QED
  BY <1>1, <1>2 DEF Untorn

(* f.mu goes to the compaction that locks it, and back when it has swapped. *)
LEMMA LockJob ==
  ASSUME BaseInv, LockInv, NEW s \in Slots, JobStep(s)
  PROVE  /\ \A t \in Slots : fsLock' = t <=> jpc'[t] \in Swapping
         /\ Applying' => fsLock' = NoSlot
         /\ Applying => UNCHANGED files
<1> USE DEF Swapping
<1>1. NoSlot \notin Slots
  BY CompactionAssumption
<1>2. UNCHANGED spc /\ \A t \in Slots \ {s} : jpc'[t] = jpc[t]
  BY JobFrame DEF BaseInv
<1>3. Applying' <=> Applying
  BY <1>2 DEF Applying
<1>4. CASE JobLock(s)
  <2>1. /\ fsLock' = s /\ fsLock = NoSlot /\ jpc'[s] = "swap" /\ ~Applying /\ UNCHANGED files
    BY <1>4 DEF JobLock, Unlocked, Goto, BaseInv, JobType
  <2> QED
    BY <1>1, <1>2, <1>3, <2>1 DEF LockInv
<1>5. CASE JobInstall(s) \/ JobSwapFails(s)
  <2>1. fsLock' = NoSlot /\ jpc[s] \in Swapping /\ jpc'[s] = "release"
    BY <1>5 DEF JobInstall, JobSwapFails, Goto, BaseInv, JobType
  <2>2. fsLock = s /\ ~Applying
    BY <1>1, <2>1 DEF LockInv
  <2> QED
    BY <1>1, <1>2, <1>3, <2>1, <2>2 DEF LockInv
<1>6. CASE ~JobLock(s) /\ ~JobInstall(s) /\ ~JobSwapFails(s)
  <2>1. UNCHANGED <<fsLock, files>>
    BY <1>6 DEF JobStep, JobBegin, JobRef, JobWrite, JobWriteFails, JobCollides, JobCheck,
         JobRename, JobRenameFails, JobSwap, JobUntomb
  <2>2. jpc'[s] \in Swapping <=> jpc[s] \in Swapping
    BY <1>6 DEF JobStep, JobBegin, JobRef, JobWrite, JobWriteFails, JobCollides, JobCheck,
         JobRename, JobRenameFails, JobSwap, JobUntomb, Goto, BaseInv, JobType
  <2> QED
    BY <1>2, <1>3, <2>1, <2>2 DEF LockInv
<1> QED
  BY <1>4, <1>5, <1>6

(* LockInv is preserved. *)
LEMMA LockNext ==
  ASSUME BaseInv, LockInv, Next
  PROVE  LockInv'
<1>1. NoSlot \notin Slots
  BY CompactionAssumption
<1>2. CASE Crash
  BY <1>1, <1>2 DEF Crash, LockInv, Swapping, Applying, Stoppers
<1>3. ASSUME NEW s \in Slots, JobStep(s) PROVE LockInv'
  <2>1. UNCHANGED <<spc, delFiles, delKeys, asked>>
    BY <1>3, JobFrame DEF BaseInv
  <2>2. \A d \in Deleters : spc[d] = "apply" => Applying
    BY DEF Applying
  <2> QED
    BY <1>3, <2>1, <2>2, LockJob DEF LockInv
<1>4. ASSUME Loop \/ \E s \in Slots : JobRelease(s) PROVE LockInv'
  <2>1. UNCHANGED <<spc, delFiles, delKeys, asked, files, fsLock>>
    BY <1>4 DEF Loop, LoopQuit, FindGenerations, Acquire, Start, JobRelease
  <2>2. \A t \in Slots : \/ jpc'[t] = jpc[t]
                         \/ jpc'[t] \in {"begin", "off"} /\ jpc[t] \in {"off", "release"}
    BY <1>4 DEF Loop, LoopQuit, FindGenerations, Acquire, Start, JobRelease, Goto, BaseInv, JobType
  <2>3. Applying' <=> Applying
    BY <2>1 DEF Applying
  <2> QED
    BY <2>1, <2>2, <2>3 DEF LockInv, Swapping
<1>5. CASE Flush
  <2>1. /\ UNCHANGED <<spc, delFiles, delKeys, fsLock, jpc>> /\ files \subseteq files'
        /\ \E ks : /\ asked' = asked \ ks /\ ks \cap UNION Range(delKeys) = {}
    BY <1>5 DEF Flush
  <2>2. \A d \in Deleters : delKeys[d] \subseteq UNION Range(delKeys)
    BY DEF Range, BaseInv, GateType
  <2>3. \A d \in Deleters : delKeys[d] \subseteq asked'
    BY <2>1, <2>2 DEF LockInv
  <2>4. Applying' <=> Applying
    BY <2>1 DEF Applying
  <2> QED
    BY <2>1, <2>3, <2>4 DEF LockInv
<1>6. CASE Reopen
  <2>1. UNCHANGED <<spc, delFiles, delKeys, asked, fsLock, jpc>>
    BY <1>6 DEF Reopen
  <2>2. \A d \in Deleters : spc[d] = "idle"
    BY <1>6 DEF Reopen, BaseInv, DownInv, Stoppers
  <2> QED
    BY <2>1, <2>2 DEF LockInv, Applying
<1>7. ASSUME NEW d \in Deleters, DeleteBegin(d) \/ DeleteStep(d) PROVE LockInv'
  <2>1. UNCHANGED <<files, fsLock, jpc>>
    BY <1>7, OutsideFrame DEF Outside, DeleteBegin, DeleteStep, ApplyBegin, ApplyEnd, ApplyStamp,
         DeleteEnd, DeleteFile
  <2>2. \A e \in Deleters \ {d} : spc'[e] = spc[e] /\ delKeys'[e] = delKeys[e] /\ delFiles'[e] = delFiles[e]
    <3>0. USE DEF BaseInv, GateType, Stoppers
    <3>1. CASE DeleteBegin(d) \/ DeleteEnd(d)
      BY <3>1 DEF DeleteBegin, DeleteEnd, DisableLevelCompactions, EnableLevelCompactions
    <3>2. CASE ApplyBegin(d) \/ ApplyEnd(d) \/ ApplyStamp(d)
      BY <3>2 DEF ApplyBegin, ApplyEnd, ApplyStamp
    <3>3. CASE \E f \in File : DeleteFile(d, f)
      BY <3>3 DEF DeleteFile
    <3> QED
      BY <1>7, <3>1, <3>2, <3>3 DEF DeleteStep
  <2>3. asked \subseteq asked' /\ delKeys'[d] \subseteq asked'
    <3>1. CASE DeleteBegin(d)
      BY <3>1 DEF DeleteBegin, BaseInv, GateType
    <3>2. CASE DeleteStep(d)
      <4>1. asked' = asked
        BY <3>2 DEF DeleteStep, ApplyBegin, ApplyEnd, ApplyStamp, DeleteEnd, DeleteFile
      <4>2. delKeys'[d] = delKeys[d] \/ delKeys'[d] = {}
        BY <3>2 DEF DeleteStep, ApplyBegin, ApplyEnd, ApplyStamp, DeleteEnd, DeleteFile, BaseInv,
             GateType
      <4> QED
        BY <4>1, <4>2 DEF LockInv
    <3> QED
      BY <1>7, <3>1, <3>2
  <2>4. spc'[d] = "apply" => fsLock = NoSlot /\ delFiles'[d] \subseteq files
    <3>1. CASE ApplyBegin(d)
      BY <3>1 DEF ApplyBegin, Readable, BaseInv, GateType
    <3>2. ASSUME NEW f \in File, DeleteFile(d, f)
          PROVE  spc'[d] = "apply" => fsLock = NoSlot /\ delFiles'[d] \subseteq files
      <4>1. spc[d] = "apply" /\ delFiles'[d] \subseteq delFiles[d]
        BY <3>2 DEF DeleteFile, BaseInv, GateType
      <4> QED
        BY <4>1 DEF LockInv, Applying
    <3>3. CASE DeleteBegin(d) \/ ApplyEnd(d) \/ ApplyStamp(d) \/ DeleteEnd(d)
      <4>1. spc'[d] # "apply"
        BY <3>3 DEF DeleteBegin, ApplyEnd, ApplyStamp, DeleteEnd, DisableLevelCompactions,
          EnableLevelCompactions, BaseInv, GateType, Stoppers
      <4> QED
        BY <4>1
    <3> QED
      BY <1>7, <3>1, <3>2, <3>3 DEF DeleteStep
  <2>5. Applying' => fsLock' = NoSlot
    BY <2>1, <2>2, <2>4 DEF LockInv, Applying
  <2>6. \A e \in Deleters : spc'[e] = "apply" => delFiles'[e] \subseteq files'
    BY <2>1, <2>2, <2>4 DEF LockInv
  <2>7. \A e \in Deleters : delKeys'[e] \subseteq asked'
    BY <2>2, <2>3 DEF LockInv
  <2> QED
    BY <2>1, <2>5, <2>6, <2>7 DEF LockInv
<1>8. CASE \/ \E x \in Stoppers : FirstDone(x) \/ OtherDone(x)
           \/ SetCompactionsDisabled \/ SetCompactionsEnabled
  <2>1. UNCHANGED <<delFiles, delKeys, asked, files, fsLock, jpc>>
    BY <1>8 DEF FirstDone, OtherDone, SetCompactionsDisabled, SetCompactionsEnabled
  <2>2. \A d \in Deleters : spc'[d] = "apply" => spc[d] = "apply"
    BY <1>8, CompactionAssumption DEF FirstDone, OtherDone, SetCompactionsDisabled,
         SetCompactionsEnabled, DisableLevelCompactions, EnableLevelCompactions, BaseInv, GateType, Stoppers
  <2> QED
    BY <2>1, <2>2 DEF LockInv, Applying
<1>9. CASE \/ CleanupGlob \/ CleanupRemove
           \/ \E c \in Cursors : KeyCursor(c) \/ CursorClose(c)
           \/ \E f \in File : Purge(f)
  <2>1. UNCHANGED <<spc, delFiles, delKeys, asked, files, fsLock, jpc>>
    BY <1>9 DEF CleanupGlob, CleanupRemove, KeyCursor, CursorClose, Purge
  <2>2. Applying' <=> Applying
    BY <2>1 DEF Applying
  <2> QED
    BY <2>1, <2>2 DEF LockInv
<1> QED
  BY <1>2, <1>3, <1>4, <1>5, <1>6, <1>7, <1>8, <1>9, Steps DEF Outside

(* A delete that works is counted; when none is counted none works. *)
LEMMA NoneWorking ==
  ASSUME BaseInv
  PROVE  levelWorkers = 0 <=> \A d \in Deleters : spc[d] = "idle"
<1>1. levelWorkers = Cardinality(Working) /\ IsFiniteSet(Working)
  BY Finite DEF BaseInv, CountInv
<1>2. levelWorkers = 0 <=> Working = {}
  BY <1>1, FS_EmptySet
<1> QED
  BY <1>2 DEF Working

(* A delete begins: it is the first, or it finds the compactions stopped, or it waits. *)
LEMMA GateBegin ==
  ASSUME BaseInv, GateOpen, NEW d \in Deleters, DeleteBegin(d)
  PROVE  GateOpen'
<1> USE DEF GateOpen
<1>0. Toggler \notin Deleters /\ d \in Stoppers /\ Toggler \in Stoppers /\ Deleters \subseteq Stoppers
  BY CompactionAssumption DEF Stoppers
<1>1. /\ spc[d] = "idle" /\ UNCHANGED <<lpc, jpc>> /\ levelWorkers' = levelWorkers + 1
      /\ compactionDone' = IF levelWorkers = 0 /\ compactionDone = "open" THEN "closed"
                           ELSE compactionDone
  BY DEF DeleteBegin, DisableLevelCompactions
<1>2. \A x \in Stoppers :
        spc'[x] = IF x # d THEN spc[x]
                  ELSE IF levelWorkers = 0 /\ compactionDone = "open" THEN "first"
                  ELSE IF levelWorkers = 0 \/ compactionDone = "nil" THEN "in"
                  ELSE "other"
  BY <1>0 DEF DeleteBegin, DisableLevelCompactions, BaseInv, GateType
<1>3. Quiet' <=> Quiet
  BY <1>1 DEF Quiet
<1>4. compactionDone \in {"nil", "open", "closed"}
  BY DEF BaseInv, GateType
<1>5. CASE levelWorkers = 0 /\ compactionDone = "open"
  <2>1. \A e \in Deleters : spc[e] = "idle"
    BY <1>5, NoneWorking
  <2>2. spc'[d] = "first" /\ compactionDone' = "closed" /\ \A e \in Deleters \ {d} : spc'[e] = "idle"
    BY <1>0, <1>1, <1>2, <1>5, <2>1
  <2> QED
    BY <1>0, <1>2, <2>2
<1>6. CASE ~(levelWorkers = 0 /\ compactionDone = "open")
  <2>1. compactionDone # "open" /\ compactionDone' = compactionDone
    BY <1>1, <1>6
  <2>2. compactionDone = "closed" => levelWorkers # 0
    BY NoneWorking
  <2>3. /\ spc'[d] = IF compactionDone = "nil" THEN "in" ELSE "other"
        /\ \A e \in Deleters \ {d} : spc'[e] = spc[e]
    BY <1>0, <1>2, <1>4, <1>6, <2>1, <2>2
  <2> QED
    BY <1>0, <1>1, <1>2, <1>3, <2>1, <2>3
<1> QED
  BY <1>5, <1>6

(* A delete ends: the last one starts the compactions again. *)
LEMMA GateEnd ==
  ASSUME BaseInv, BaseInv', GateOpen, NEW d \in Deleters, DeleteEnd(d)
  PROVE  GateOpen'
<1> USE DEF GateOpen
<1>0. Toggler \notin Deleters /\ d \in Stoppers /\ Toggler \in Stoppers /\ Deleters \subseteq Stoppers
  BY CompactionAssumption DEF Stoppers
<1>1. /\ spc[d] = "out" /\ jpc' = jpc
      /\ IF levelWorkers' = 0 /\ compactionDone = "nil"
           THEN compactionDone' = "open" /\ lpc' = "tick"
           ELSE UNCHANGED <<compactionDone, lpc>>
  BY DEF DeleteEnd, EnableLevelCompactions
<1>2. \A x \in Stoppers : spc'[x] = IF x = d THEN "idle" ELSE spc[x]
  BY <1>0 DEF DeleteEnd, EnableLevelCompactions, BaseInv, GateType
<1>3. levelWorkers' = 0 <=> \A e \in Deleters : spc'[e] = "idle"
  <2>1. levelWorkers' = Cardinality(Working') /\ Working' \in SUBSET Deleters
    BY DEF BaseInv, CountInv, Working
  <2>2. IsFiniteSet(Working')
    BY <2>1, FS_Subset, CompactionAssumption
  <2>3. levelWorkers' = 0 <=> Working' = {}
    BY <2>1, <2>2, FS_EmptySet
  <2> QED
    BY <2>3 DEF Working
<1>4. levelWorkers # 0
  BY <1>1, NoneWorking
<1>5. CASE levelWorkers' = 0 /\ compactionDone = "nil"
  BY <1>0, <1>1, <1>2, <1>3, <1>5
<1>6. CASE ~(levelWorkers' = 0 /\ compactionDone = "nil")
  <2>1. UNCHANGED <<compactionDone, lpc>> /\ (Quiet' <=> Quiet) /\ compactionDone # "open"
    BY <1>1, <1>4, <1>6 DEF Quiet
  <2>2. \A e \in Deleters : spc'[e] = spc[e] \/ (e = d /\ spc'[e] = "idle")
    BY <1>0, <1>2
  <2> QED
    BY <1>0, <1>1, <1>2, <2>1, <2>2
<1> QED
  BY <1>5, <1>6

(* The waiting of deletes ends when the compactions have. *)
LEMMA GateWait ==
  ASSUME BaseInv, GateOpen, NEW x \in Stoppers, FirstDone(x) \/ OtherDone(x)
  PROVE  GateOpen'
<1> USE DEF GateOpen
<1>0. Toggler \notin Deleters /\ Toggler \in Stoppers /\ Deleters \subseteq Stoppers
  BY CompactionAssumption DEF Stoppers
<1>1. x \in Deleters
  BY DEF FirstDone, OtherDone, Stoppers
<1>2. UNCHANGED <<lpc, jpc, levelWorkers>> /\ (Quiet' <=> Quiet)
  BY DEF FirstDone, OtherDone, Quiet
<1>3. CASE FirstDone(x)
  <2>1. spc[x] = "first" /\ Quiet /\ compactionDone' = "nil"
    BY <1>3 DEF FirstDone
  <2>2. \A y \in Stoppers : spc'[y] = IF y = x THEN "in" ELSE IF spc[y] = "other" THEN "go" ELSE spc[y]
    BY <1>3 DEF FirstDone
  <2>3. \A e \in Deleters : spc'[e] # "first"
    BY <1>0, <1>1, <2>1, <2>2
  <2>4. spc'[Toggler] = "idle"
    BY <1>0, <1>1, <2>2
  <2> QED
    BY <1>2, <2>1, <2>3, <2>4
<1>4. CASE OtherDone(x)
  <2>1. Quiet /\ spc[x] # "first" /\ compactionDone' = compactionDone
    BY <1>1, <1>4 DEF OtherDone
  <2>2. \A y \in Stoppers : spc'[y] = IF y = x THEN "in" ELSE spc[y]
    BY <1>4 DEF OtherDone, BaseInv, GateType
  <2>3. \A e \in Deleters : spc'[e] = "first" <=> spc[e] = "first"
    BY <1>0, <2>1, <2>2
  <2>4. spc'[Toggler] = "idle"
    BY <1>0, <1>1, <2>2
  <2> QED
    BY <1>2, <2>1, <2>3, <2>4
<1> QED
  BY <1>3, <1>4

(* GateInv is preserved. *)
LEMMA GateNext ==
  ASSUME BaseInv, BaseInv', GateInv, Next
  PROVE  GateInv'
<1> SUFFICES ASSUME budget'.toggle = MaxToggles PROVE GateOpen'
  BY DEF GateInv
<1>0. budget.toggle = MaxToggles /\ GateOpen
  BY Monotone DEF BaseInv, GateInv
<1>00. Toggler \in Stoppers /\ Deleters \subseteq Stoppers
  BY DEF Stoppers
<1>1. CASE Crash
  BY <1>1, <1>00 DEF Crash, GateOpen, Quiet
<1>2. CASE Loop \/ \E s \in Slots : JobStep(s) \/ JobRelease(s)
  <2>1. ~Quiet
    BY <1>2, JobFrame DEF Quiet, BaseInv, Loop, LoopQuit, FindGenerations, Acquire, Start, JobRelease
  <2>2. UNCHANGED <<spc, compactionDone, levelWorkers>>
    BY <1>2, JobFrame DEF BaseInv, Loop, LoopQuit, FindGenerations, Acquire, Start, JobRelease
  <2> QED
    BY <1>0, <2>1, <2>2 DEF GateOpen
<1>3. CASE \/ Flush \/ CleanupGlob \/ CleanupRemove
           \/ \E c \in Cursors : KeyCursor(c) \/ CursorClose(c)
           \/ \E f \in File : Purge(f)
  <2>1. UNCHANGED <<spc, compactionDone, levelWorkers, lpc, jpc>>
    BY <1>3 DEF Flush, CleanupGlob, CleanupRemove, KeyCursor, CursorClose, Purge
  <2>2. Quiet' <=> Quiet
    BY <2>1 DEF Quiet
  <2> QED
    BY <1>0, <2>1, <2>2 DEF GateOpen
<1>4. CASE Reopen
  <2>1. /\ phase = "down" /\ compactionDone' = "open" /\ UNCHANGED <<spc, levelWorkers>>
    BY <1>4 DEF Reopen
  <2>2. levelWorkers = 0 /\ \A x \in Stoppers : spc[x] = "idle"
    BY <2>1 DEF BaseInv, DownInv
  <2> QED
    BY <1>00, <2>1, <2>2 DEF GateOpen
<1>5. ASSUME NEW d \in Deleters, DeleteStep(d), ~DeleteEnd(d) PROVE GateOpen'
  <2>1. UNCHANGED <<compactionDone, levelWorkers, lpc, jpc>>
    BY <1>5 DEF DeleteStep, ApplyBegin, ApplyEnd, ApplyStamp, DeleteFile
  <2>2. \/ spc' = spc
        \/ /\ spc[d] \in {"in", "apply", "stamp"}
           /\ \E p \in {"apply", "stamp", "out"} : spc' = [spc EXCEPT ![d] = p]
    BY <1>5 DEF DeleteStep, ApplyBegin, ApplyEnd, ApplyStamp, DeleteFile
  <2>3. Quiet' <=> Quiet
    BY <2>1 DEF Quiet
  <2>4. CASE spc' = spc
    BY <1>0, <2>1, <2>3, <2>4 DEF GateOpen
  <2>5. ASSUME spc[d] \in {"in", "apply", "stamp"}, NEW p \in {"apply", "stamp", "out"},
               spc' = [spc EXCEPT ![d] = p]
        PROVE  GateOpen'
    <3>1. Quiet
      BY <1>0, <2>5 DEF GateOpen
    <3>2. \A x \in Stoppers : spc'[x] = IF x = d THEN p ELSE spc[x]
      BY <2>5 DEF BaseInv, GateType
    <3>3. \A e \in Deleters : spc'[e] = "first" <=> spc[e] = "first"
      BY <1>00, <2>5, <3>2
    <3>4. spc'[Toggler] = "idle"
      BY <1>0, <1>00, <3>2, CompactionAssumption DEF GateOpen
    <3> QED
      BY <1>0, <2>1, <2>3, <3>1, <3>3, <3>4 DEF GateOpen
  <2> QED
    BY <2>2, <2>4, <2>5
<1>6. ~SetCompactionsEnabled
  BY <1>0 DEF GateOpen, SetCompactionsEnabled
<1>7. ~SetCompactionsDisabled
  <2>1. SUFFICES ASSUME SetCompactionsDisabled PROVE FALSE
    OBVIOUS
  <2>2. Spend("toggle")
    BY <2>1 DEF SetCompactionsDisabled
  <2>3. budget'.toggle = budget.toggle - 1 /\ budget.toggle \in Nat
    BY <2>2 DEF Spend, BaseInv, ClientType
  <2> QED
    BY <1>0, <2>3
<1> QED
  BY <1>0, <1>1, <1>2, <1>3, <1>4, <1>5, <1>6, <1>7, Steps, GateBegin, GateEnd, GateWait DEF Outside

(***************************************************************************)
(* What the files hold.                                                    *)
(***************************************************************************)
FilesInv == BaseInv /\ NameInv /\ LockInv /\ GateInv /\ MergeInv /\ LiveInv /\ StoreInv /\ DeleteInv

(* The outputs of a compaction: new names, that no other compaction makes or reads and that
   the purger does not have. *)
LEMMA OutsNew ==
  ASSUME BaseInv, NameInv, NEW s \in Slots, jpc[s] \in Merging, NEW o \in outs[s]
  PROVE  /\ o \in File /\ o \notin files /\ o \notin purging /\ o # <<generation + 1, 1>>
         /\ \A t \in Slots : jpc[t] \in Merging => o \notin group[t]
         /\ \A t \in Slots : jpc[t] \in Merging /\ t # s => o \notin outs[t]
         /\ \E n \in 1..2 : /\ o = Output(group[s], n) /\ Part(merged[s], n) # {}
                            /\ n = o[2] - Last(group[s])[2]
<1>1. ASSUME NEW t \in Slots, jpc[t] \in Merging
      PROVE  Named(group[t]) /\ group[t] \subseteq files /\ Tracked(group[t], files, generation)
  BY <1>1 DEF BaseInv, GroupInv, NameInv, Planned, Merging
<1>2. ASSUME NEW t \in Slots, jpc[t] \in Merging, NEW x \in outs[t]
      PROVE  \E n \in 1..2 : x = Output(group[t], n) /\ Part(merged[t], n) # {}
  BY <1>2 DEF BaseInv, JobInv, JobInvOf, OutputsOf
<1>3. PICK n \in 1..2 : o = Output(group[s], n) /\ Part(merged[s], n) # {}
  BY <1>2
<1>4. /\ o \in File /\ o[1] = Last(group[s])[1] /\ o[2] = Last(group[s])[2] + n
      /\ Last(group[s]) \in group[s] /\ Last(group[s]) \in File
  BY <1>1, <1>3, OutputFacts
<1>5. o \notin files /\ o[1] <= generation
  BY <1>1, <1>3, NameTypes, OutputsNew
<1>6. Last(group[s])[2] \in Nat /\ generation \in Nat /\ Last(group[s]) \in files
  BY <1>1, <1>4, NameTypes, FileFacts
<1>7. o \notin purging
  <2>1. SUFFICES ASSUME o \in purging PROVE FALSE
    OBVIOUS
  <2>2. o[2] < Last(group[s])[2]
    BY <1>4, <1>5, <1>6, <2>1 DEF NameInv, Tracked
  <2> QED
    BY <1>4, <1>6, <2>2
<1>8. o # <<generation + 1, 1>>
  BY <1>5, <1>6
<1>9. \A t \in Slots : jpc[t] \in Merging => o \notin group[t]
  BY <1>1, <1>5
<1>10. ASSUME NEW t \in Slots, jpc[t] \in Merging, t # s, o \in outs[t] PROVE FALSE
  <2>1. PICK m \in 1..2 : o = Output(group[t], m)
    BY <1>2, <1>10
  <2>2. Last(group[t])[1] = o[1] /\ Last(group[t]) \in group[t] /\ Last(group[t]) \in files
    BY <1>1, <1>10, <2>1, OutputFacts
  <2>3. Last(group[t]) \in group[s]
    BY <1>1, <1>4, <1>6, <2>2 DEF Tracked
  <2>4. group[s] \cap group[t] = {}
    BY <1>10 DEF BaseInv, GroupInv
  <2> QED
    BY <2>2, <2>3, <2>4
<1>11. n = o[2] - Last(group[s])[2]
  BY <1>4, <1>6
<1> QED
  BY <1>3, <1>4, <1>5, <1>7, <1>8, <1>9, <1>10, <1>11

(* What is renamed is an output. *)
LEMMA DoneOuts ==
  ASSUME NEW s \in Slots, NEW o \in Done(s)
  PROVE  jpc[s] \in Merging /\ jpc[s] \in {"rename", "swap", "untomb"} /\ o \in outs[s]
  BY DEF Done, Merging, Swapping

(* What a compaction has read is in its outputs. *)
LEMMA MergedOut ==
  ASSUME FilesInv, NEW s \in Slots, jpc[s] \in Swapping, NEW k \in merged[s]
  PROVE  \E o \in outs[s] : k \in data[o] /\ o \in Done(s)
<1>1. PICK n \in 1..2 : k \in Part(merged[s], n)
  <2>1. k \in Part(merged[s], 1) \/ k \in Part(merged[s], 2)
    BY DEF Part
  <2> QED
    BY <2>1
<1>2. Output(group[s], n) \in outs[s] /\ outs[s] = Done(s)
  BY <1>1 DEF FilesInv, BaseInv, JobInv, JobInvOf, OutputsOf, Merging, Swapping, Done
<1>3. Named(group[s])
  BY DEF FilesInv, BaseInv, GroupInv, Swapping
<1>4. Output(group[s], n)[2] = Last(group[s])[2] + n /\ Last(group[s]) \in File
  BY <1>3, OutputFacts
<1>5. Output(group[s], n)[2] - Last(group[s])[2] = n
  BY <1>4, FileFacts
<1>6. data[Output(group[s], n)] = Part(merged[s], n)
  BY <1>2, <1>5 DEF FilesInv, MergeInv, MergeInvOf
<1> QED
  BY <1>1, <1>2, <1>6

(* The keys nobody asked to delete are in files that a restart loads. *)
LEMMA OnDisk ==
  ASSUME FilesInv
  PROVE  Preserved
<1> SUFFICES ASSUME Untorn, NEW k \in written \ asked
             PROVE  \E f \in live : k \in data[f] \ tombs[f]
  BY DEF Preserved
<1>1. CASE phase = "down"
  BY <1>1 DEF FilesInv, StoreInv
<1>2. CASE phase # "down"
  <2>1. PICK f \in files : k \in InFile(f)
    BY <1>2 DEF FilesInv, StoreInv, InFiles
  <2>2. CASE f \in live
    BY <1>2, <2>1, <2>2 DEF FilesInv, LiveInv, InFile
  <2>3. CASE f \notin live
    <3>1. PICK s \in Slots : fsLock = s /\ f \in group[s]
      BY <2>3 DEF FilesInv, LiveInv
    <3>2. jpc[s] \in Swapping
      BY <3>1 DEF FilesInv, LockInv
    <3>3. k \in merged[s]
      BY <2>1, <3>1, <3>2 DEF FilesInv, MergeInv, MergeInvOf, Swapping, Merging
    <3>4. PICK o \in outs[s] : k \in data[o] /\ o \in Done(s)
      BY <3>2, <3>3, MergedOut
    <3>5. o \in live
      BY <3>4 DEF FilesInv, LiveInv
    <3>6. o \notin files /\ o \in File
      BY <3>2, OutsNew DEF FilesInv, Swapping, Merging
    <3>7. tombs[o] = {}
      BY <1>2, <3>6 DEF FilesInv, LiveInv
    <3> QED
      BY <3>4, <3>5, <3>7
  <2> QED
    BY <2>2, <2>3
<1> QED
  BY <1>1, <1>2

(* Queries find them too. *)
LEMMA InMemory ==
  ASSUME FilesInv
  PROVE  Served
<1> SUFFICES ASSUME Untorn, phase = "up", Readable, NEW k \in written \ asked
             PROVE  \E f \in files \cap open : k \in InFile(f)
  BY DEF Served
<1>1. PICK f \in files : k \in InFile(f)
  BY DEF FilesInv, StoreInv, InFiles
<1>2. f \in open
  BY CompactionAssumption DEF FilesInv, LiveInv, Readable
<1> QED
  BY <1>1, <1>2

(* A compaction that the step leaves alone, or that has nothing to replace after it. *)
Calm(s) == \/ jpc'[s] \notin Merging
           \/ /\ jpc'[s] = jpc[s] /\ group'[s] = group[s] /\ merged'[s] = merged[s]
              /\ outs'[s] = outs[s] /\ todo'[s] = todo[s]

(* What the compactions have done is not undone by steps that leave them and their files
   alone. *)
LEMMA CalmDone ==
  ASSUME NEW s \in Slots, Calm(s)
  PROVE  /\ Done(s)' \subseteq Done(s)
         /\ jpc'[s] \in Merging => jpc'[s] = jpc[s] /\ group'[s] = group[s] /\ merged'[s] = merged[s]
         /\ Done(s)' # {} => jpc'[s] \in Merging
  BY DEF Calm, Done, Merging, Swapping

(* A compaction keeps what it has read and renamed when its files only lose keys. *)
LEMMA CalmMerge ==
  ASSUME NEW s \in Slots, MergeInvOf(s), Calm(s),
         \A f \in group[s] : jpc[s] \in Merging => InFile(f)' \subseteq InFile(f) /\ tombs'[f] = tombs[f],
         \A o \in Done(s) : data'[o] = data[o]
  PROVE  MergeInvOf(s)'
<1>1. CASE jpc'[s] \notin Merging
  BY <1>1 DEF MergeInvOf, Done, Merging, Swapping
<1>2. CASE jpc'[s] \in Merging
  <2>1. /\ jpc'[s] = jpc[s] /\ group'[s] = group[s] /\ merged'[s] = merged[s]
        /\ outs'[s] = outs[s] /\ todo'[s] = todo[s] /\ jpc[s] \in Merging
    BY <1>2 DEF Calm
  <2>2. Done(s)' = Done(s)
    BY <2>1 DEF Done
  <2>3. jpc'[s] \in Merging => \A f \in group'[s] : InFile(f)' \subseteq merged'[s]
    BY <2>1 DEF MergeInvOf
  <2>4. \A o \in Done(s)' : data'[o] = Part(merged'[s], o[2] - Last(group'[s])[2])
    BY <2>1, <2>2 DEF MergeInvOf
  <2>5. jpc'[s] \in Swapping => \A f \in group'[s] \ todo'[s] : tombs'[f] = {}
    BY <2>1 DEF MergeInvOf
  <2> QED
    BY <2>3, <2>4, <2>5 DEF MergeInvOf
<1> QED
  BY <1>1, <1>2

(* Steps that leave the list and what is in it alone. *)
LEMMA SameFiles ==
  ASSUME FilesInv, Next, phase # "down", phase' # "down", UNCHANGED <<data, gone, files>>,
         \A f \in File : tombs'[f] \subseteq tombs[f],
         \A t \in Slots : Done(t)' \subseteq Done(t),
         Untorn' => \A f \in files : \/ f \in live' \cap open'
                                     \/ \E s \in Slots : fsLock' = s /\ f \in group'[s],
         Untorn' => \A t \in Slots : \A o \in Done(t)' : o \in live => o \in live',
         Untorn' => \A t \in Slots : \A o \in Done(t)' : o \in open => o \in open',
         written' \ asked' \subseteq written \ asked
  PROVE  LiveInv' /\ StoreInv' /\ InFiles' = InFiles
<1>1. InFiles' = InFiles
  BY DEF InFiles, InFile
<1>2. Untorn' => Untorn
  BY Monotone DEF FilesInv, BaseInv
<1>3. files \subseteq File
  BY NameTypes DEF FilesInv
<1>4. LiveInv'
  <2>1. SUFFICES ASSUME Untorn'
                 PROVE  /\ \A f \in files : tombs'[f] \subseteq gone[f]
                        /\ \A f \in File : tombs'[f] # {} => f \in files
                        /\ \A t \in Slots : \A o \in Done(t)' : o \in live' /\ o \in open' /\ gone[o] = {}
    BY DEF LiveInv
  <2>2. /\ \A f \in files : tombs[f] \subseteq gone[f]
        /\ \A f \in File : tombs[f] # {} => f \in files
        /\ \A t \in Slots : \A o \in Done(t) : o \in live /\ o \in open /\ gone[o] = {}
    BY <1>2, <2>1 DEF FilesInv, LiveInv
  <2>3. \A f \in files : tombs'[f] \subseteq gone[f]
    BY <1>3, <2>2
  <2>4. \A f \in File : tombs'[f] # {} => f \in files
    BY <2>2
  <2>5. \A t \in Slots : \A o \in Done(t)' : o \in live' /\ o \in open' /\ gone[o] = {}
    BY <2>1, <2>2
  <2> QED
    BY <2>3, <2>4, <2>5
<1>5. StoreInv'
  BY <1>1, <1>2 DEF FilesInv, StoreInv
<1> QED
  BY <1>1, <1>4, <1>5

(* Steps that bring no key into the list and let no compaction read a deleted one. *)
LEMMA SameDelete ==
  ASSUME FilesInv, Next, phase # "down", phase' # "down", InFiles' \subseteq InFiles,
         deleted' \subseteq deleted,
         \A t \in Slots : jpc'[t] \in Merging =>
           \/ jpc[t] \in Merging /\ merged'[t] = merged[t]
           \/ merged'[t] \subseteq InFiles
  PROVE  DeleteInv'
<1>1. SUFFICES ASSUME budget'.toggle = MaxToggles, budget'.crash = MaxCrashes
               PROVE  /\ deleted' \cap InFiles' = {}
                      /\ \A t \in Slots : jpc'[t] \in Merging => merged'[t] \cap deleted' = {}
  BY DEF DeleteInv, Up
<1>2. budget.toggle = MaxToggles /\ budget.crash = MaxCrashes
  BY <1>1, Monotone DEF FilesInv, BaseInv
<1>3. /\ deleted \cap InFiles = {}
      /\ \A t \in Slots : jpc[t] \in Merging => merged[t] \cap deleted = {}
  BY <1>2 DEF FilesInv, DeleteInv, Up
<1> QED
  BY <1>3

(* What the steps of one compaction have in common. *)
LEMMA JobCalm ==
  ASSUME FilesInv, NEW s \in Slots, JobStep(s)
  PROVE  /\ phase # "down" /\ phase' = phase /\ UNCHANGED <<written, asked, deleted, group>>
         /\ \A t \in Slots \ {s} : Calm(t)
<1>1. phase' = phase /\ UNCHANGED <<written, asked, deleted, group>> /\ jpc[s] # "off"
  BY JobFrame DEF FilesInv, BaseInv
<1>2. phase # "down"
  BY <1>1 DEF FilesInv, BaseInv, DownInv
<1>3. \A t \in Slots \ {s} : Calm(t)
  BY JobOthers DEF FilesInv, BaseInv, Calm
<1> QED
  BY <1>1, <1>2, <1>3

(* Steps that change nothing of the files or the compactions, or end a compaction. *)
LEMMA CalmFiles ==
  ASSUME FilesInv, Next, LockInv', phase # "down", phase' # "down",
         UNCHANGED <<data, gone, files, tombs, live, fsLock>>,
         \A t \in Slots : Calm(t),
         \A f \in files : f \in open => f \in open',
         \A t \in Slots : \A o \in Done(t) : o \in open => o \in open',
         written' \ asked' \subseteq written \ asked
  PROVE  MergeInv' /\ LiveInv' /\ StoreInv' /\ InFiles' = InFiles
<1>1. \A t \in Slots : Done(t)' \subseteq Done(t)
  BY CalmDone
<1>2. ASSUME NEW t \in Slots PROVE MergeInvOf(t)'
  <2>1. MergeInvOf(t) /\ Calm(t)
    BY DEF FilesInv, MergeInv
  <2>2. \A f \in group[t] : jpc[t] \in Merging => InFile(f)' \subseteq InFile(f) /\ tombs'[f] = tombs[f]
    BY DEF InFile
  <2> QED
    BY <2>1, <2>2, CalmMerge
<1>3. Untorn' => \A f \in files : \/ f \in live' \cap open'
                                  \/ \E s \in Slots : fsLock' = s /\ f \in group'[s]
  <2>1. SUFFICES ASSUME Untorn', NEW f \in files
                 PROVE  \/ f \in live' \cap open'
                        \/ \E s \in Slots : fsLock' = s /\ f \in group'[s]
    OBVIOUS
  <2>2. \/ f \in live \cap open
        \/ \E s \in Slots : fsLock = s /\ f \in group[s]
    BY <2>1, Monotone DEF FilesInv, LiveInv, BaseInv
  <2>3. ASSUME NEW s \in Slots, fsLock = s PROVE group'[s] = group[s]
    <3>1. jpc'[s] \in Swapping
      BY <2>3 DEF LockInv
    <3> QED
      BY <3>1, CalmDone DEF Swapping, Merging
  <2> QED
    BY <2>2, <2>3
<1>4. LiveInv' /\ StoreInv' /\ InFiles' = InFiles
  BY <1>1, <1>3, SameFiles
<1> QED
  BY <1>2, <1>4 DEF MergeInv

(* Among them the steps that leave every compaction alone. *)
LEMMA CalmDelete ==
  ASSUME FilesInv, Next, phase # "down", phase' # "down", InFiles' \subseteq InFiles,
         deleted' \subseteq deleted, \A t \in Slots : Calm(t)
  PROVE  DeleteInv'
<1>1. \A t \in Slots : jpc'[t] \in Merging => jpc[t] \in Merging /\ merged'[t] = merged[t]
  BY DEF Calm
<1> QED
  BY <1>1, SameDelete

(* The steps of the loop, and the release of a plan. *)
LEMMA LoopFiles ==
  ASSUME FilesInv, Next, LockInv', Loop \/ \E s \in Slots : JobRelease(s)
  PROVE  MergeInv' /\ LiveInv' /\ StoreInv' /\ DeleteInv'
<1>1. /\ UNCHANGED <<data, gone, files, tombs, live, fsLock, open, written, asked, deleted>>
      /\ phase' = phase
  BY DEF Loop, LoopQuit, FindGenerations, Acquire, Start, JobRelease
<1>2. phase # "down"
  BY DEF FilesInv, BaseInv, DownInv, Loop, LoopQuit, FindGenerations, Acquire, Start, JobRelease
<1>3. \A t \in Slots : Calm(t)
  <2>1. CASE LoopQuit \/ FindGenerations \/ Acquire
    BY <2>1 DEF LoopQuit, FindGenerations, Acquire, Calm
  <2>2. CASE Start
    <3>1. /\ UNCHANGED <<merged, outs, todo>>
          /\ \A t \in Slots : \/ jpc'[t] = "begin"
                              \/ jpc'[t] = jpc[t] /\ group'[t] = group[t]
      BY <2>2 DEF Start, FilesInv, BaseInv, JobType
    <3> QED
      BY <3>1 DEF Calm, Merging
  <2>3. ASSUME NEW s \in Slots, JobRelease(s) PROVE \A t \in Slots : Calm(t)
    BY <2>3 DEF JobRelease, Goto, FilesInv, BaseInv, JobType, Calm, Merging
  <2> QED
    BY <2>1, <2>2, <2>3 DEF Loop
<1> QED
  BY <1>1, <1>2, <1>3, CalmFiles, CalmDelete

(* The steps of a compaction that leave its files alone. *)
LEMMA JobAside ==
  ASSUME FilesInv, Next, LockInv', NEW s \in Slots,
         \/ JobBegin(s) \/ JobRef(s) \/ JobWriteFails(s) \/ JobCollides(s) \/ JobRenameFails(s)
  PROVE  MergeInv' /\ LiveInv' /\ StoreInv' /\ DeleteInv'
<1>1. UNCHANGED <<data, gone, files, tombs, live, fsLock, open>>
  BY DEF JobBegin, JobRef, JobWriteFails, JobCollides, JobRenameFails
<1>2. JobStep(s)
  BY DEF JobStep
<1>3. jpc'[s] \notin Merging
  BY DEF JobBegin, JobRef, JobWriteFails, JobCollides, JobRenameFails, Goto, FilesInv, BaseInv,
         JobType, Merging
<1>4. /\ phase # "down" /\ phase' # "down" /\ UNCHANGED <<written, asked, deleted>>
      /\ \A t \in Slots : Calm(t)
  BY <1>2, <1>3, JobCalm DEF Calm
<1> QED
  BY <1>1, <1>4, CalmFiles, CalmDelete

(* The steps outside, but for those that change the files or what is deleted. *)
LEMMA OutsideFiles ==
  ASSUME FilesInv, Next, LockInv', Outside, ~Flush, ~Reopen,
         ~\E d \in Deleters, f \in File : DeleteFile(d, f)
  PROVE  /\ MergeInv' /\ LiveInv' /\ StoreInv'
         /\ (~\E d \in Deleters : ApplyStamp(d)) => DeleteInv'
<1>1. UNCHANGED <<data, gone, files, tombs, live, fsLock>>
  BY DEF Outside, CleanupGlob, CleanupRemove, KeyCursor, CursorClose, Purge,
         FirstDone, OtherDone, DeleteBegin, DeleteStep, ApplyBegin, ApplyEnd, ApplyStamp, DeleteEnd,
         SetCompactionsDisabled, SetCompactionsEnabled
<1>2. phase # "down"
  BY DownStep DEF FilesInv, BaseInv
<1>3. phase' # "down"
  BY <1>2 DEF Outside, CleanupGlob, CleanupRemove, KeyCursor, CursorClose, Purge,
         FirstDone, OtherDone, DeleteBegin, DeleteStep, ApplyBegin, ApplyEnd, ApplyStamp, DeleteEnd,
         SetCompactionsDisabled, SetCompactionsEnabled
<1>4. \A t \in Slots : Calm(t)
  BY OutsideFrame DEF Calm
<1>5. open' = open \/ \E f \in purging : open' = open \ {f}
  BY DEF Outside, CleanupGlob, CleanupRemove, KeyCursor, CursorClose, Purge,
         FirstDone, OtherDone, DeleteBegin, DeleteStep, ApplyBegin, ApplyEnd, ApplyStamp, DeleteEnd,
         SetCompactionsDisabled, SetCompactionsEnabled
<1>6. \A f \in files : f \in open => f \in open'
  BY <1>5 DEF FilesInv, NameInv
<1>7. \A t \in Slots : \A o \in Done(t) : o \in open => o \in open'
  BY <1>5, DoneOuts, OutsNew DEF FilesInv
<1>8. written' \ asked' \subseteq written \ asked
  BY DEF Outside, CleanupGlob, CleanupRemove, KeyCursor, CursorClose, Purge,
         FirstDone, OtherDone, DeleteBegin, DeleteStep, ApplyBegin, ApplyEnd, ApplyStamp, DeleteEnd,
         SetCompactionsDisabled, SetCompactionsEnabled
<1>9. MergeInv' /\ LiveInv' /\ StoreInv' /\ InFiles' = InFiles
  BY <1>1, <1>2, <1>3, <1>4, <1>6, <1>7, <1>8, CalmFiles
<1>10. ASSUME ~\E d \in Deleters : ApplyStamp(d) PROVE DeleteInv'
  <2>1. deleted' = deleted
    BY <1>10 DEF Outside, CleanupGlob, CleanupRemove, KeyCursor, CursorClose, Purge,
         FirstDone, OtherDone, DeleteBegin, DeleteStep, ApplyBegin, ApplyEnd, DeleteEnd,
         SetCompactionsDisabled, SetCompactionsEnabled
  <2> QED
    BY <1>2, <1>3, <1>4, <1>9, <2>1, CalmDelete
<1> QED
  BY <1>9, <1>10

(* What a delete has removed is in no compaction: they all have ended. *)
LEMMA StampDelete ==
  ASSUME FilesInv, Next, NEW d \in Deleters, ApplyStamp(d)
  PROVE  DeleteInv'
<1>1. /\ spc[d] = "stamp" /\ UNCHANGED <<data, gone, files, jpc, phase>>
      /\ deleted' = deleted \cup (delKeys[d] \ InFiles)
  BY DEF ApplyStamp
<1>2. phase # "down"
  BY <1>1 DEF FilesInv, BaseInv, DownInv, Stoppers
<1>3. InFiles' = InFiles
  BY <1>1 DEF InFiles, InFile
<1>4. SUFFICES ASSUME budget'.toggle = MaxToggles, budget'.crash = MaxCrashes
               PROVE  /\ deleted' \cap InFiles' = {}
                      /\ \A t \in Slots : jpc'[t] \in Merging => merged'[t] \cap deleted' = {}
  BY <1>1, <1>2 DEF DeleteInv, Up
<1>5. budget.toggle = MaxToggles /\ budget.crash = MaxCrashes
  BY <1>4, Monotone DEF FilesInv, BaseInv
<1>6. Quiet
  BY <1>1, <1>5 DEF FilesInv, GateInv, GateOpen
<1>7. deleted \cap InFiles = {}
  BY <1>2, <1>5 DEF FilesInv, DeleteInv, Up
<1> QED
  BY <1>1, <1>3, <1>6, <1>7 DEF Quiet, Merging

(* A compaction reads its old files, and drops its references to them. *)
LEMMA WriteFiles ==
  ASSUME FilesInv, Next, NEW s \in Slots, JobWrite(s) \/ JobCheck(s)
  PROVE  MergeInv' /\ LiveInv' /\ StoreInv' /\ DeleteInv'
<1>1. UNCHANGED <<data, gone, files, tombs, live, fsLock, open>>
  BY DEF JobWrite, JobCheck
<1>2. JobStep(s)
  BY DEF JobStep
<1>3. /\ phase # "down" /\ phase' # "down" /\ UNCHANGED <<written, asked, deleted, group>>
      /\ \A t \in Slots \ {s} : Calm(t)
  BY <1>2, JobCalm
<1>4. Done(s)' = {}
  BY DEF JobWrite, JobCheck, Goto, FilesInv, BaseInv, JobType, Done, Swapping
<1>5. jpc'[s] \notin Swapping
  BY DEF JobWrite, JobCheck, Goto, FilesInv, BaseInv, JobType, Swapping
<1>6. jpc'[s] \in Merging =>
        \/ merged'[s] = UNION {InFile(f) : f \in group[s]} /\ group[s] \subseteq files
        \/ merged'[s] = merged[s] /\ jpc[s] \in Merging
  <2>1. CASE JobWrite(s)
    BY <2>1 DEF JobWrite, FilesInv, BaseInv, JobType, NameInv, Planned
  <2>2. CASE JobCheck(s)
    BY <2>2 DEF JobCheck, Goto, FilesInv, BaseInv, JobType, Merging
  <2> QED
    BY <2>1, <2>2
<1>7. MergeInvOf(s)'
  <2>1. jpc'[s] \in Merging => \A f \in group'[s] : InFile(f)' \subseteq merged'[s]
    BY <1>1, <1>3, <1>6 DEF InFile, FilesInv, MergeInv, MergeInvOf
  <2> QED
    BY <1>4, <1>5, <2>1 DEF MergeInvOf
<1>8. ASSUME NEW t \in Slots \ {s} PROVE MergeInvOf(t)'
  BY <1>1, <1>3, CalmMerge DEF InFile, FilesInv, MergeInv
<1>9. \A t \in Slots : Done(t)' \subseteq Done(t)
  BY <1>3, <1>4, CalmDone
<1>10. Untorn' => Untorn
  BY Monotone DEF FilesInv, BaseInv
<1>11. LiveInv' /\ StoreInv' /\ InFiles' = InFiles
  <2>1. Untorn' => \A f \in files : \/ f \in live' \cap open'
                                    \/ \E t \in Slots : fsLock' = t /\ f \in group'[t]
    BY <1>1, <1>3, <1>10 DEF FilesInv, LiveInv
  <2> QED
    BY <1>1, <1>3, <1>9, <2>1, SameFiles
<1>12. DeleteInv'
  <2>1. ASSUME NEW t \in Slots, jpc'[t] \in Merging
        PROVE  \/ jpc[t] \in Merging /\ merged'[t] = merged[t]
               \/ merged'[t] \subseteq InFiles
    <3>1. CASE t = s
      BY <1>6, <2>1, <3>1 DEF InFiles
    <3>2. CASE t # s
      BY <1>3, <2>1, <3>2 DEF Calm
    <3> QED
      BY <3>1, <3>2
  <2> QED
    BY <1>3, <1>11, <2>1, SameDelete
<1> QED
  BY <1>7, <1>8, <1>11, <1>12 DEF MergeInv

(* replace takes f.mu: every file of the store is still there. *)
LEMMA LockFiles ==
  ASSUME FilesInv, Next, NEW s \in Slots, JobLock(s)
  PROVE  MergeInv' /\ LiveInv' /\ StoreInv' /\ DeleteInv'
<1>1. /\ UNCHANGED <<data, gone, files, tombs, live, open, merged, outs>>
      /\ jpc[s] = "rename" /\ todo[s] = {} /\ fsLock = NoSlot
      /\ jpc'[s] = "swap" /\ todo'[s] = group[s] \cap files
  BY DEF JobLock, Unlocked, Goto, FilesInv, BaseInv, JobType
<1>2. JobStep(s)
  BY DEF JobStep
<1>3. /\ phase # "down" /\ phase' # "down" /\ UNCHANGED <<written, asked, deleted, group>>
      /\ \A t \in Slots \ {s} : Calm(t)
  BY <1>2, JobCalm
<1>4. Done(s)' = Done(s)
  BY <1>1 DEF Done, Swapping
<1>5. group[s] \subseteq files
  BY <1>1 DEF FilesInv, NameInv, Planned
<1>6. MergeInvOf(s)'
  <2>1. jpc'[s] \in Merging => \A f \in group'[s] : InFile(f)' \subseteq merged'[s]
    BY <1>1, <1>3 DEF InFile, FilesInv, MergeInv, MergeInvOf, Merging
  <2>2. \A o \in Done(s)' : data'[o] = Part(merged'[s], o[2] - Last(group'[s])[2])
    BY <1>1, <1>3, <1>4 DEF FilesInv, MergeInv, MergeInvOf
  <2>3. \A f \in group'[s] \ todo'[s] : tombs'[f] = {}
    BY <1>1, <1>3, <1>5
  <2> QED
    BY <2>1, <2>2, <2>3 DEF MergeInvOf
<1>7. ASSUME NEW t \in Slots \ {s} PROVE MergeInvOf(t)'
  BY <1>1, <1>3, CalmMerge DEF InFile, FilesInv, MergeInv
<1>8. \A t \in Slots : Done(t)' \subseteq Done(t)
  BY <1>3, <1>4, CalmDone
<1>9. Untorn' => Untorn
  BY Monotone DEF FilesInv, BaseInv
<1>10. LiveInv' /\ StoreInv' /\ InFiles' = InFiles
  <2>1. Untorn' => \A f \in files : f \in live' \cap open'
    BY <1>1, <1>9, CompactionAssumption DEF FilesInv, LiveInv
  <2> QED
    BY <1>1, <1>3, <1>8, <2>1, SameFiles
<1>11. DeleteInv'
  <2>1. \A t \in Slots : jpc'[t] \in Merging => jpc[t] \in Merging /\ merged'[t] = merged[t]
    BY <1>1, <1>3 DEF Calm, Merging
  <2> QED
    BY <1>3, <1>10, <2>1, SameDelete
<1> QED
  BY <1>6, <1>7, <1>10, <1>11 DEF MergeInv

(* replace removes an old file, then its tombstone file. *)
LEMMA SwapFiles ==
  ASSUME FilesInv, Next, LockInv', NEW s \in Slots, JobSwap(s) \/ JobUntomb(s)
  PROVE  MergeInv' /\ LiveInv' /\ StoreInv' /\ DeleteInv'
<1> DEFINE f == First(todo[s])
<1>0. JobStep(s) /\ jpc[s] \in Swapping
  BY DEF JobStep, JobSwap, JobUntomb, Swapping
<1>1. todo[s] \in SUBSET group[s] /\ todo[s] # {} /\ group[s] \in SUBSET File /\ group[s] \subseteq files
  <2>1. todo[s] # {} /\ todo[s] \subseteq group[s]
    BY <1>0 DEF JobSwap, JobUntomb, FilesInv, BaseInv, JobInv, JobInvOf
  <2> QED
    BY <1>0, <2>1, NameTypes DEF FilesInv, NameInv, Planned, Swapping
<1>2. f \in group[s] /\ f \in File /\ f \in files
  BY <1>1, FirstLast
<1>3. /\ UNCHANGED <<data, gone, files, fsLock, merged, outs>>
      /\ live \ {f} \subseteq live' /\ open \ {f} \subseteq open'
      /\ \A g \in File : tombs'[g] = tombs[g] \/ (g = f /\ tombs'[g] = {})
      /\ jpc'[s] \in Swapping
      /\ todo'[s] = todo[s] \/ (todo'[s] = todo[s] \ {f} /\ tombs'[f] = {})
  <2>1. CASE JobSwap(s)
    BY <2>1 DEF JobSwap, Goto, FilesInv, BaseInv, JobType, Swapping
  <2>2. CASE JobUntomb(s)
    BY <1>2, <2>2 DEF JobUntomb, Goto, FilesInv, BaseInv, JobType, DiskType, Swapping
  <2> QED
    BY <2>1, <2>2
<1>4. /\ phase # "down" /\ phase' # "down" /\ UNCHANGED <<written, asked, deleted, group>>
      /\ \A t \in Slots \ {s} : Calm(t)
  BY <1>0, JobCalm
<1>5. Done(s)' = Done(s) /\ Done(s) = outs[s]
  BY <1>0, <1>3 DEF Done, Swapping
<1>6. fsLock = s
  BY <1>0 DEF FilesInv, LockInv
<1>7. MergeInvOf(s)'
  <2>1. jpc'[s] \in Merging => \A g \in group'[s] : InFile(g)' \subseteq merged'[s]
    BY <1>0, <1>3, <1>4 DEF InFile, FilesInv, MergeInv, MergeInvOf, Merging, Swapping
  <2>2. \A o \in Done(s)' : data'[o] = Part(merged'[s], o[2] - Last(group'[s])[2])
    BY <1>3, <1>4, <1>5 DEF FilesInv, MergeInv, MergeInvOf
  <2>3. \A g \in group'[s] \ todo'[s] : tombs'[g] = {}
    <3>1. \A g \in group[s] \ todo[s] : tombs[g] = {} /\ g \in File
      BY <1>0, <1>1 DEF FilesInv, MergeInv, MergeInvOf
    <3> QED
      BY <1>2, <1>3, <1>4, <3>1
  <2> QED
    BY <2>1, <2>2, <2>3 DEF MergeInvOf
<1>8. ASSUME NEW t \in Slots \ {s} PROVE MergeInvOf(t)'
  <2>1. group[s] \cap group[t] = {} /\ group[t] \in SUBSET File
    BY NameTypes DEF FilesInv, BaseInv, GroupInv
  <2>2. \A g \in group[t] : InFile(g)' = InFile(g) /\ tombs'[g] = tombs[g]
    BY <1>2, <1>3, <2>1 DEF InFile
  <2> QED
    BY <1>3, <1>4, <2>2, CalmMerge DEF FilesInv, MergeInv
<1>9. \A t \in Slots : Done(t)' \subseteq Done(t)
  BY <1>4, <1>5, CalmDone
<1>10. Untorn' => Untorn
  BY Monotone DEF FilesInv, BaseInv
<1>11. LiveInv' /\ StoreInv' /\ InFiles' = InFiles
  <2>1. Untorn' => \A g \in files : \/ g \in live' \cap open'
                                    \/ \E t \in Slots : fsLock' = t /\ g \in group'[t]
    <3>1. SUFFICES ASSUME Untorn', NEW g \in files
                   PROVE  \/ g \in live' \cap open'
                          \/ \E t \in Slots : fsLock' = t /\ g \in group'[t]
      OBVIOUS
    <3>2. \/ g \in live \cap open
          \/ \E t \in Slots : fsLock = t /\ g \in group[t]
      BY <1>10, <3>1 DEF FilesInv, LiveInv
    <3> QED
      BY <1>2, <1>3, <1>4, <1>6, <3>2
  <2>2. \A t \in Slots : \A o \in Done(t)' : o # f
    <3>1. SUFFICES ASSUME NEW t \in Slots, NEW o \in Done(t) PROVE o # f
      BY <1>9
    <3>2. o \notin files
      BY DoneOuts, OutsNew DEF FilesInv
    <3> QED
      BY <1>2, <3>2
  <2>3. \A g \in File : tombs'[g] \subseteq tombs[g]
    BY <1>3
  <2>4. \A t \in Slots : \A o \in Done(t)' : (o \in live => o \in live') /\ (o \in open => o \in open')
    BY <1>3, <2>2
  <2> QED
    BY <1>3, <1>4, <1>9, <2>1, <2>3, <2>4, SameFiles
<1>12. DeleteInv'
  <2>1. \A t \in Slots : jpc'[t] \in Merging => jpc[t] \in Merging /\ merged'[t] = merged[t]
    BY <1>0, <1>3, <1>4 DEF Calm, Merging, Swapping
  <2> QED
    BY <1>4, <1>11, <2>1, SameDelete
<1> QED
  BY <1>7, <1>8, <1>11, <1>12 DEF MergeInv

(* replace returns in the middle: nothing is claimed of the list then. *)
LEMMA SwapFailsFiles ==
  ASSUME FilesInv, Next, NEW s \in Slots, JobSwapFails(s)
  PROVE  MergeInv' /\ LiveInv' /\ StoreInv' /\ DeleteInv'
<1>0. JobStep(s)
  BY DEF JobStep
<1>1. /\ UNCHANGED <<data, gone, files, tombs, live, merged>> /\ jpc'[s] = "release" /\ Spend("swap")
  BY DEF JobSwapFails, Goto, FilesInv, BaseInv, JobType
<1>2. /\ phase # "down" /\ phase' # "down" /\ UNCHANGED <<written, asked, deleted, group>>
      /\ \A t \in Slots \ {s} : Calm(t)
  BY <1>0, JobCalm
<1>3. \A t \in Slots : Calm(t)
  BY <1>1, <1>2 DEF Calm, Merging
<1>4. ~Untorn'
  <2>1. budget'.swap = budget.swap - 1 /\ budget.swap \in 0..MaxSwapFailures
    BY <1>1 DEF Spend, FilesInv, BaseInv, ClientType
  <2> QED
    BY <2>1, CompactionAssumption DEF Untorn
<1>5. MergeInv'
  BY <1>1, <1>3, CalmMerge DEF InFile, FilesInv, MergeInv
<1>6. InFiles' = InFiles
  BY <1>1 DEF InFiles, InFile
<1>7. DeleteInv'
  BY <1>2, <1>3, <1>6, CalmDelete
<1> QED
  BY <1>4, <1>5, <1>7 DEF LiveInv, StoreInv

(* replace gives an output its name: nobody has that name yet. *)
LEMMA RenameFiles ==
  ASSUME FilesInv, Next, NEW s \in Slots, JobRename(s)
  PROVE  MergeInv' /\ LiveInv' /\ StoreInv' /\ DeleteInv'
<1> DEFINE o == First(todo[s])
<1>0. JobStep(s) /\ jpc[s] = "rename" /\ todo[s] # {} /\ jpc[s] \in Merging
  BY DEF JobStep, JobRename, Merging
<1>1. todo[s] \subseteq outs[s] /\ outs[s] \in SUBSET File
  BY <1>0 DEF FilesInv, BaseInv, JobInv, JobInvOf, JobType
<1>2. o \in todo[s] /\ o \in outs[s]
  BY <1>0, <1>1, FirstLast
<1>3. /\ o \in File /\ o \notin files
      /\ \A t \in Slots : jpc[t] \in Merging => o \notin group[t]
      /\ \A t \in Slots : jpc[t] \in Merging /\ t # s => o \notin outs[t]
  BY <1>0, <1>2, OutsNew DEF FilesInv
<1>4. /\ UNCHANGED <<tombs, files, fsLock, jpc, group, merged, outs>>
      /\ live' = live \cup {o} /\ open' = open \cup {o}
      /\ data'[o] = Part(merged[s], o[2] - Last(group[s])[2]) /\ gone'[o] = tombs[o]
      /\ \A g \in File \ {o} : data'[g] = data[g] /\ gone'[g] = gone[g]
      /\ todo'[s] = todo[s] \ {o}
  BY <1>3 DEF JobRename, FilesInv, BaseInv, DiskType, StoreType, JobType
<1>5. /\ phase # "down" /\ phase' # "down" /\ UNCHANGED <<written, asked, deleted>>
      /\ \A t \in Slots \ {s} : Calm(t)
  BY <1>0, JobCalm
<1>6. Done(s)' = Done(s) \cup {o}
  BY <1>0, <1>2, <1>4 DEF Done
<1>7. files \in SUBSET File
  BY NameTypes DEF FilesInv
<1>8. \A g \in files : InFile(g)' = InFile(g)
  BY <1>3, <1>4, <1>7 DEF InFile
<1>9. InFiles' = InFiles
  BY <1>4, <1>8 DEF InFiles
<1>10. \A t \in Slots : jpc[t] \in Merging => \A g \in group[t] : InFile(g)' = InFile(g)
  <2>1. SUFFICES ASSUME NEW t \in Slots, jpc[t] \in Merging, NEW g \in group[t]
                 PROVE  InFile(g)' = InFile(g)
    OBVIOUS
  <2>2. g \in files
    BY <2>1 DEF FilesInv, NameInv, Planned, Merging
  <2> QED
    BY <1>8, <2>2
<1>11. MergeInvOf(s)'
  <2>1. \A g \in group'[s] : InFile(g)' \subseteq merged'[s]
    BY <1>0, <1>4, <1>10 DEF FilesInv, MergeInv, MergeInvOf
  <2>2. ASSUME NEW x \in Done(s)' PROVE data'[x] = Part(merged'[s], x[2] - Last(group'[s])[2])
    <3>1. CASE x = o
      BY <1>4, <3>1
    <3>2. CASE x # o
      <4>1. x \in Done(s) /\ x \in File
        BY <1>1, <1>6, <3>2, DoneOuts
      <4>2. data'[x] = data[x]
        BY <1>4, <3>2, <4>1
      <4> QED
        BY <1>4, <4>1, <4>2 DEF FilesInv, MergeInv, MergeInvOf
    <3> QED
      BY <3>1, <3>2
  <2> QED
    BY <1>0, <1>4, <2>1, <2>2 DEF MergeInvOf, Swapping
<1>12. ASSUME NEW t \in Slots \ {s} PROVE MergeInvOf(t)'
  <2>1. \A g \in group[t] : jpc[t] \in Merging => InFile(g)' \subseteq InFile(g) /\ tombs'[g] = tombs[g]
    BY <1>4, <1>10
  <2>2. ASSUME NEW x \in Done(t) PROVE data'[x] = data[x]
    <3>1. jpc[t] \in Merging /\ x \in outs[t] /\ x \in File
      BY <2>2, DoneOuts, OutsNew DEF FilesInv
    <3> QED
      BY <1>3, <1>4, <3>1
  <2>3. MergeInvOf(t) /\ Calm(t)
    BY <1>5 DEF FilesInv, MergeInv
  <2> QED
    BY <2>1, <2>2, <2>3, CalmMerge
<1>13. Untorn' => Untorn
  BY Monotone DEF FilesInv, BaseInv
<1>14. LiveInv'
  <2>1. SUFFICES ASSUME Untorn'
                 PROVE  /\ \A g \in files : tombs[g] \subseteq gone'[g]
                        /\ \A g \in File : tombs[g] # {} => g \in files
                        /\ \A g \in files : g \in live' \cap open'
                                            \/ \E t \in Slots : fsLock = t /\ g \in group[t]
                        /\ \A t \in Slots : \A x \in Done(t)' : x \in live' /\ x \in open' /\ gone'[x] = {}
    BY <1>4, <1>5 DEF LiveInv
  <2>2. /\ \A g \in files : tombs[g] \subseteq gone[g]
        /\ \A g \in File : tombs[g] # {} => g \in files
        /\ \A g \in files : g \in live \cap open
                            \/ \E t \in Slots : fsLock = t /\ g \in group[t]
        /\ \A t \in Slots : \A x \in Done(t) : x \in live /\ x \in open /\ gone[x] = {}
    BY <1>5, <1>13, <2>1 DEF FilesInv, LiveInv
  <2>3. \A g \in files : tombs[g] \subseteq gone'[g]
    BY <1>3, <1>4, <1>7, <2>2
  <2>4. gone'[o] = {}
    BY <1>3, <1>4, <2>2
  <2>5. ASSUME NEW t \in Slots, NEW x \in Done(t)' PROVE x \in live' /\ x \in open' /\ gone'[x] = {}
    <3>1. x = o \/ x \in Done(t)
      <4>1. CASE t = s
        BY <1>6, <2>5, <4>1
      <4>2. CASE t # s
        BY <1>5, <2>5, <4>2, CalmDone
      <4> QED
        BY <4>1, <4>2
    <3>2. x \in Done(t) => x \in File
      BY DoneOuts, OutsNew DEF FilesInv
    <3> QED
      BY <1>4, <2>2, <2>4, <3>1, <3>2
  <2>6. \A g \in files : g \in live' \cap open'
                         \/ \E t \in Slots : fsLock = t /\ g \in group[t]
    BY <1>4, <2>2
  <2> QED
    BY <2>2, <2>3, <2>5, <2>6
<1>15. StoreInv'
  BY <1>5, <1>9, <1>13 DEF FilesInv, StoreInv
<1>16. DeleteInv'
  <2>1. \A t \in Slots : jpc'[t] \in Merging => jpc[t] \in Merging /\ merged'[t] = merged[t]
    BY <1>4
  <2> QED
    BY <1>5, <1>9, <2>1, SameDelete
<1> QED
  BY <1>11, <1>12, <1>14, <1>15, <1>16 DEF MergeInv

(* replace installs the new list: the outputs have every key of the old files, and no
   other compaction has anything to do with them. *)
LEMMA InstallFiles ==
  ASSUME FilesInv, Next, NEW s \in Slots, JobInstall(s)
  PROVE  MergeInv' /\ LiveInv' /\ StoreInv' /\ DeleteInv'
<1>0. JobStep(s) /\ jpc[s] = "swap" /\ todo[s] = {} /\ jpc[s] \in Swapping /\ jpc[s] \in Merging
  BY DEF JobStep, JobInstall, Swapping, Merging
<1>1. /\ UNCHANGED <<data, gone, tombs, live, open, group, merged, outs, todo>>
      /\ files' = (files \ group[s]) \cup outs[s] /\ fsLock' = NoSlot /\ jpc'[s] = "release"
  BY DEF JobInstall, Goto, FilesInv, BaseInv, JobType
<1>2. /\ phase # "down" /\ phase' # "down" /\ UNCHANGED <<written, asked, deleted>>
      /\ \A t \in Slots \ {s} : Calm(t)
  BY <1>0, JobCalm
<1>3. \A t \in Slots : Calm(t)
  BY <1>1, <1>2 DEF Calm, Merging
<1>4. fsLock = s /\ Done(s) = outs[s]
  BY <1>0 DEF FilesInv, LockInv, Done, Swapping
<1>5. MergeInv'
  BY <1>1, <1>3, CalmMerge DEF InFile, FilesInv, MergeInv
<1>6. Untorn' => Untorn
  BY Monotone DEF FilesInv, BaseInv
<1>7. \A o \in outs[s] : o \in File /\ o \notin files
  BY <1>0, OutsNew DEF FilesInv
<1>8. \A f \in group[s] : tombs[f] = {}
  BY <1>0 DEF FilesInv, MergeInv, MergeInvOf
<1>9. LiveInv'
  <2>1. SUFFICES ASSUME Untorn'
                 PROVE  /\ \A g \in files' : tombs[g] \subseteq gone[g]
                        /\ \A g \in File : tombs[g] # {} => g \in files'
                        /\ \A g \in files' : g \in live /\ g \in open
                        /\ \A t \in Slots : \A x \in Done(t)' : x \in live /\ x \in open /\ gone[x] = {}
    BY <1>1, <1>2 DEF LiveInv
  <2>2. /\ \A g \in files : tombs[g] \subseteq gone[g]
        /\ \A g \in File : tombs[g] # {} => g \in files
        /\ \A g \in files : g \in live \cap open
                            \/ \E t \in Slots : fsLock = t /\ g \in group[t]
        /\ \A t \in Slots : \A x \in Done(t) : x \in live /\ x \in open /\ gone[x] = {}
    BY <1>2, <1>6, <2>1 DEF FilesInv, LiveInv
  <2>3. \A o \in outs[s] : tombs[o] = {} /\ o \in live /\ o \in open
    BY <1>4, <1>7, <2>2
  <2>4. \A g \in files' : tombs[g] \subseteq gone[g]
    BY <1>1, <2>2, <2>3
  <2>5. \A g \in File : tombs[g] # {} => g \in files'
    BY <1>1, <1>8, <2>2
  <2>6. \A g \in files' : g \in live /\ g \in open
    BY <1>1, <1>4, <2>2, <2>3
  <2>7. \A t \in Slots : \A x \in Done(t)' : x \in live /\ x \in open /\ gone[x] = {}
    BY <1>3, <2>2, CalmDone
  <2> QED
    BY <2>4, <2>5, <2>6, <2>7
<1>10. StoreInv'
  <2>1. SUFFICES ASSUME Untorn', NEW k \in written \ asked PROVE k \in InFiles'
    BY <1>2 DEF StoreInv
  <2>2. PICK f \in files : k \in InFile(f)
    BY <1>2, <1>6, <2>1 DEF FilesInv, StoreInv, InFiles
  <2>3. CASE f \notin group[s]
    BY <1>1, <2>2, <2>3 DEF InFiles, InFile
  <2>4. CASE f \in group[s]
    <3>1. k \in merged[s]
      BY <1>0, <2>2, <2>4 DEF FilesInv, MergeInv, MergeInvOf
    <3>2. PICK o \in outs[s] : k \in data[o] /\ o \in Done(s)
      BY <1>0, <3>1, MergedOut
    <3>3. gone[o] = {}
      BY <1>6, <2>1, <3>2 DEF FilesInv, LiveInv
    <3> QED
      BY <1>1, <3>2, <3>3 DEF InFiles, InFile
  <2> QED
    BY <2>3, <2>4
<1>11. DeleteInv'
  <2>1. SUFFICES ASSUME budget'.toggle = MaxToggles, budget'.crash = MaxCrashes
                 PROVE  /\ deleted \cap InFiles' = {}
                        /\ \A t \in Slots : jpc'[t] \in Merging => merged'[t] \cap deleted = {}
    BY <1>2 DEF DeleteInv, Up
  <2>2. budget.toggle = MaxToggles /\ budget.crash = MaxCrashes
    BY <2>1, Monotone DEF FilesInv, BaseInv
  <2>3. /\ deleted \cap InFiles = {}
        /\ \A t \in Slots : jpc[t] \in Merging => merged[t] \cap deleted = {}
    BY <1>2, <2>2 DEF FilesInv, DeleteInv, Up
  <2>4. \A o \in outs[s] : data[o] \subseteq merged[s]
    <3>1. \A n : Part(merged[s], n) \subseteq merged[s]
      BY DEF Part
    <3> QED
      BY <1>4, <3>1 DEF FilesInv, MergeInv, MergeInvOf
  <2>5. \A k \in InFiles' : k \in InFiles \/ k \in merged[s]
    BY <1>1, <2>4 DEF InFiles, InFile
  <2> QED
    BY <1>0, <1>3, <2>3, <2>5 DEF Calm
<1> QED
  BY <1>5, <1>9, <1>10, <1>11

(* The file of a flush has a new name, and no tombstone file of that name is left. *)
LEMMA FlushFiles ==
  ASSUME FilesInv, Next, Flush
  PROVE  MergeInv' /\ LiveInv' /\ StoreInv' /\ DeleteInv'
<1> DEFINE f == <<generation + 1, 1>>
<1>1. f \in File /\ f \notin files /\ files \in SUBSET File
  <2>1. generation \in Nat /\ generation < MaxGen /\ files \in SUBSET File
    BY NameTypes DEF Flush, FilesInv
  <2>2. f \notin files
    BY <2>1, FileFacts DEF FilesInv, NameInv
  <2> QED
    BY <2>1, <2>2, CompactionAssumption DEF File
<1>2. PICK ks \in SUBSET (Key \ (written \cup UNION Range(delKeys))) :
         /\ data' = [data EXCEPT ![f] = ks]
         /\ written' = written \cup ks /\ asked' = asked \ ks /\ deleted' = deleted \ ks
  BY DEF Flush
<1>3. /\ gone' = [gone EXCEPT ![f] = tombs[f]] /\ live' = live \cup {f}
      /\ files' = files \cup {f} /\ open' = open \cup {f}
      /\ UNCHANGED <<tombs, fsLock, jpc, group, merged, outs, todo, phase>> /\ phase # "down"
  BY DEF Flush, Up
<1>4. /\ data'[f] = ks /\ gone'[f] = tombs[f]
      /\ \A g \in File \ {f} : data'[g] = data[g] /\ gone'[g] = gone[g]
  BY <1>1, <1>2, <1>3 DEF FilesInv, BaseInv, DiskType, StoreType
<1>5. \A t \in Slots : Calm(t) /\ Done(t)' = Done(t)
  BY <1>3 DEF Calm, Done
<1>6. \A g \in files : InFile(g)' = InFile(g)
  BY <1>1, <1>4 DEF InFile
<1>7. ASSUME NEW t \in Slots, NEW x \in Done(t) PROVE x \in File /\ x # f
  BY <1>7, DoneOuts, OutsNew DEF FilesInv
<1>8. ASSUME NEW t \in Slots PROVE MergeInvOf(t)'
  <2>1. jpc[t] \in Merging => group[t] \subseteq files
    BY DEF FilesInv, NameInv, Planned, Merging
  <2>2. \A g \in group[t] : jpc[t] \in Merging => InFile(g)' \subseteq InFile(g) /\ tombs'[g] = tombs[g]
    BY <1>3, <1>6, <2>1
  <2>3. \A x \in Done(t) : data'[x] = data[x]
    BY <1>4, <1>7
  <2> QED
    BY <1>5, <2>2, <2>3, CalmMerge DEF FilesInv, MergeInv
<1>9. Untorn' => Untorn
  BY Monotone DEF FilesInv, BaseInv
<1>10. Untorn => tombs[f] = {}
  BY <1>1, <1>3 DEF FilesInv, LiveInv
<1>11. LiveInv'
  <2>1. SUFFICES ASSUME Untorn'
                 PROVE  /\ \A g \in files' : tombs[g] \subseteq gone'[g]
                        /\ \A g \in File : tombs[g] # {} => g \in files'
                        /\ \A g \in files' : g \in live' \cap open'
                                             \/ \E t \in Slots : fsLock = t /\ g \in group[t]
                        /\ \A t \in Slots : \A x \in Done(t) : x \in live' /\ x \in open' /\ gone'[x] = {}
    BY <1>3, <1>5 DEF LiveInv
  <2>2. /\ \A g \in files : tombs[g] \subseteq gone[g]
        /\ \A g \in File : tombs[g] # {} => g \in files
        /\ \A g \in files : g \in live \cap open
                            \/ \E t \in Slots : fsLock = t /\ g \in group[t]
        /\ \A t \in Slots : \A x \in Done(t) : x \in live /\ x \in open /\ gone[x] = {}
    BY <1>3, <1>9, <2>1 DEF FilesInv, LiveInv
  <2>3. \A g \in files' : tombs[g] \subseteq gone'[g]
    BY <1>1, <1>3, <1>4, <2>2
  <2>4. \A g \in files' : g \in live' \cap open'
                          \/ \E t \in Slots : fsLock = t /\ g \in group[t]
    BY <1>3, <2>2
  <2>5. \A t \in Slots : \A x \in Done(t) : x \in live' /\ x \in open' /\ gone'[x] = {}
    BY <1>3, <1>4, <1>7, <2>2
  <2> QED
    BY <1>3, <2>2, <2>3, <2>4, <2>5
<1>12. \A k \in InFiles : k \in InFiles'
  BY <1>3, <1>6 DEF InFiles
<1>13. StoreInv'
  <2>1. SUFFICES ASSUME Untorn', NEW k \in written' \ asked' PROVE k \in InFiles'
    BY <1>3 DEF StoreInv
  <2>2. CASE k \in ks
    BY <1>3, <1>4, <1>9, <1>10, <2>1, <2>2 DEF InFiles, InFile
  <2>3. CASE k \notin ks
    <3>1. k \in written \ asked
      BY <1>2, <2>1, <2>3
    <3>2. k \in InFiles
      BY <1>3, <1>9, <2>1, <3>1 DEF FilesInv, StoreInv
    <3> QED
      BY <1>12, <3>2
  <2> QED
    BY <2>2, <2>3
<1>14. DeleteInv'
  <2>1. SUFFICES ASSUME budget'.toggle = MaxToggles, budget'.crash = MaxCrashes
                 PROVE  /\ deleted' \cap InFiles' = {}
                        /\ \A t \in Slots : jpc'[t] \in Merging => merged'[t] \cap deleted' = {}
    BY <1>3 DEF DeleteInv, Up
  <2>2. budget.toggle = MaxToggles /\ budget.crash = MaxCrashes
    BY <2>1, Monotone DEF FilesInv, BaseInv
  <2>3. /\ deleted \cap InFiles = {}
        /\ \A t \in Slots : jpc[t] \in Merging => merged[t] \cap deleted = {}
    BY <1>3, <2>2 DEF FilesInv, DeleteInv, Up
  <2>4. \A k \in InFiles' : k \in InFiles \/ k \in ks
    <3>1. SUFFICES ASSUME NEW g \in files', NEW k \in InFile(g)' PROVE k \in InFiles \/ k \in ks
      BY DEF InFiles
    <3>2. CASE g = f
      BY <1>4, <3>1, <3>2 DEF InFile
    <3>3. CASE g # f
      BY <1>3, <1>6, <3>1, <3>3 DEF InFiles
    <3> QED
      BY <3>2, <3>3
  <2> QED
    BY <1>2, <1>3, <2>3, <2>4
<1> QED
  BY <1>8, <1>11, <1>13, <1>14 DEF MergeInv

(* A delete takes keys that it asked for out of a file, and no compaction swaps then. *)
LEMMA DeleteFileFiles ==
  ASSUME FilesInv, Next, NEW d \in Deleters, NEW f \in File, DeleteFile(d, f)
  PROVE  MergeInv' /\ LiveInv' /\ StoreInv' /\ DeleteInv'
<1>1. /\ spc[d] = "apply" /\ f \in delFiles[d]
      /\ UNCHANGED <<data, live, files, open, fsLock, jpc, group, merged, outs, todo, phase,
                     written, asked, deleted>>
  BY DEF DeleteFile
<1>2. f \in files /\ fsLock = NoSlot /\ delKeys[d] \subseteq asked /\ files \in SUBSET File
  BY <1>1, NameTypes DEF FilesInv, LockInv, Applying
<1>3. phase # "down"
  BY <1>1 DEF FilesInv, BaseInv, DownInv, Stoppers
<1>4. /\ gone[f] \subseteq gone'[f] /\ gone'[f] \ gone[f] \subseteq asked
      /\ tombs'[f] = tombs[f] \/ tombs'[f] \subseteq gone'[f]
      /\ \A g \in File \ {f} : gone'[g] = gone[g] /\ tombs'[g] = tombs[g]
  <2> DEFINE ks == delKeys[d] \cap InFile(f)
  <2>1. CASE ks = {}
    BY <2>1 DEF DeleteFile
  <2>2. CASE ks # {}
    <3>1. /\ tombs' = [tombs EXCEPT ![f] = Tombstone(f, ks)]
          /\ gone' = [gone EXCEPT ![f] = @ \cup Tombstone(f, ks)]
      BY <2>2 DEF DeleteFile
    <3>2. Tombstone(f, ks) \subseteq delKeys[d]
      BY DEF Tombstone
    <3>3. /\ tombs'[f] = Tombstone(f, ks) /\ gone'[f] = gone[f] \cup Tombstone(f, ks)
          /\ \A g \in File \ {f} : gone'[g] = gone[g] /\ tombs'[g] = tombs[g]
      BY <3>1 DEF FilesInv, BaseInv, DiskType, StoreType
    <3> QED
      BY <1>2, <3>2, <3>3
  <2> QED
    BY <2>1, <2>2
<1>5. \A t \in Slots : jpc[t] \notin Swapping
  BY <1>2, CompactionAssumption DEF FilesInv, LockInv
<1>6. \A t \in Slots : Calm(t) /\ Done(t)' = Done(t)
  BY <1>1 DEF Calm, Done
<1>7. ASSUME NEW t \in Slots, NEW x \in Done(t) PROVE x \in File /\ x # f
  BY <1>2, <1>7, DoneOuts, OutsNew DEF FilesInv
<1>8. \A g \in File : InFile(g)' \subseteq InFile(g)
  BY <1>1, <1>4 DEF InFile
<1>9. MergeInv'
  <2>1. SUFFICES ASSUME NEW t \in Slots PROVE MergeInvOf(t)'
    BY DEF MergeInv
  <2>2. group[t] \in SUBSET File
    BY NameTypes DEF FilesInv
  <2> QED
    BY <1>1, <1>5, <1>6, <1>8, <2>2 DEF FilesInv, MergeInv, MergeInvOf
<1>10. Untorn' => Untorn
  BY Monotone DEF FilesInv, BaseInv
<1>11. LiveInv'
  <2>1. SUFFICES ASSUME Untorn'
                 PROVE  /\ \A g \in files : tombs'[g] \subseteq gone'[g]
                        /\ \A g \in File : tombs'[g] # {} => g \in files
                        /\ \A g \in files : g \in live \cap open
                                            \/ \E t \in Slots : fsLock = t /\ g \in group[t]
                        /\ \A t \in Slots : \A x \in Done(t) : x \in live /\ x \in open /\ gone'[x] = {}
    BY <1>1, <1>3, <1>6 DEF LiveInv
  <2>2. /\ \A g \in files : tombs[g] \subseteq gone[g]
        /\ \A g \in File : tombs[g] # {} => g \in files
        /\ \A g \in files : g \in live \cap open
                            \/ \E t \in Slots : fsLock = t /\ g \in group[t]
        /\ \A t \in Slots : \A x \in Done(t) : x \in live /\ x \in open /\ gone[x] = {}
    BY <1>3, <1>10, <2>1 DEF FilesInv, LiveInv
  <2>3. \A g \in files : tombs'[g] \subseteq gone'[g]
    BY <1>2, <1>4, <2>2
  <2>4. \A g \in File : tombs'[g] # {} => g \in files
    BY <1>2, <1>4, <2>2
  <2>5. \A t \in Slots : \A x \in Done(t) : x \in live /\ x \in open /\ gone'[x] = {}
    BY <1>4, <1>7, <2>2
  <2> QED
    BY <2>2, <2>3, <2>4, <2>5
<1>12. StoreInv'
  <2>1. SUFFICES ASSUME Untorn', NEW k \in written \ asked PROVE k \in InFiles'
    BY <1>1, <1>3 DEF StoreInv
  <2>2. PICK g \in files : k \in InFile(g)
    BY <1>3, <1>10, <2>1 DEF FilesInv, StoreInv, InFiles
  <2>3. k \in InFile(g)'
    BY <1>1, <1>2, <1>4, <2>1, <2>2 DEF InFile
  <2> QED
    BY <1>1, <2>3 DEF InFiles
<1>13. InFiles' \subseteq InFiles
  BY <1>1, <1>2, <1>8 DEF InFiles
<1>14. DeleteInv'
  BY <1>1, <1>3, <1>6, <1>13, CalmDelete
<1> QED
  BY <1>9, <1>11, <1>12, <1>14

(* Open finds what the crash has left. *)
LEMMA ReopenFiles ==
  ASSUME FilesInv, Next, Reopen
  PROVE  MergeInv' /\ LiveInv' /\ StoreInv' /\ DeleteInv'
<1>1. /\ phase = "down" /\ phase' = "opening" /\ files' = live /\ open' = live
      /\ gone' = [f \in File |-> IF f \in live THEN tombs[f] ELSE {}]
      /\ UNCHANGED <<data, live, tombs, jpc, written, asked, stray, budget>>
  BY DEF Reopen
<1>2. live \in SUBSET File
  BY DEF FilesInv, BaseInv, DiskType
<1>3. \A t \in Slots : jpc'[t] = "off" /\ Done(t)' = {}
  BY <1>1 DEF FilesInv, BaseInv, DownInv, Done, Swapping
<1>4. MergeInv'
  BY <1>3 DEF MergeInv, MergeInvOf, Merging, Swapping
<1>5. Untorn' <=> Untorn
  BY <1>1 DEF Untorn
<1>6. \A f \in live : gone'[f] = tombs[f]
  BY <1>1, <1>2
<1>7. LiveInv'
  <2>1. Untorn' => \A f \in File : tombs[f] # {} => f \in live
    BY <1>1, <1>5 DEF FilesInv, LiveInv
  <2> QED
    BY <1>1, <1>3, <1>6, <2>1 DEF LiveInv
<1>8. StoreInv'
  <2>1. SUFFICES ASSUME Untorn', NEW k \in written \ asked PROVE k \in InFiles'
    BY <1>1 DEF StoreInv
  <2>2. PICK f \in live : k \in data[f] \ tombs[f]
    BY <1>1, <1>5, <2>1 DEF FilesInv, StoreInv
  <2> QED
    BY <1>1, <1>6, <2>2 DEF InFiles, InFile
<1>9. DeleteInv'
  BY <1>1 DEF FilesInv, DeleteInv
<1> QED
  BY <1>4, <1>7, <1>8, <1>9

(* A crash leaves what is on the disk. *)
LEMMA CrashFiles ==
  ASSUME FilesInv, Next, Crash
  PROVE  MergeInv' /\ LiveInv' /\ StoreInv' /\ DeleteInv'
<1>1. /\ phase' = "down" /\ files' = {} /\ jpc' = [s \in Slots |-> "off"]
      /\ stray' = (stray \/ \E f \in File \ live : tombs[f] # {})
      /\ UNCHANGED <<data, live, tombs, written, asked>> /\ Spend("crash")
  BY DEF Crash
<1>2. \A t \in Slots : jpc'[t] = "off" /\ Done(t)' = {}
  BY <1>1 DEF Done, Swapping
<1>3. MergeInv'
  BY <1>2 DEF MergeInv, MergeInvOf, Merging, Swapping
<1>4. Untorn' => Untorn
  BY Monotone DEF FilesInv, BaseInv
<1>5. Untorn' => \A f \in File : tombs[f] # {} => f \in live
  BY <1>1 DEF Untorn
<1>6. LiveInv'
  BY <1>1, <1>2, <1>5 DEF LiveInv
<1>7. StoreInv'
  BY <1>1, <1>4, OnDisk DEF StoreInv, Preserved
<1>8. DeleteInv'
  <2>1. budget'.crash = budget.crash - 1 /\ budget.crash \in 0..MaxCrashes
    BY <1>1 DEF Spend, FilesInv, BaseInv, ClientType
  <2> QED
    BY <1>1, <2>1, CompactionAssumption DEF DeleteInv, Up
<1> QED
  BY <1>3, <1>6, <1>7, <1>8

(* The engine is opened on files without tombstones. *)
LEMMA FilesInit ==
  ASSUME Init
  PROVE  FilesInv
<1>1. /\ live = {<<g, 1>> : g \in DOMAIN Loaded} /\ files = live /\ open = live
      /\ data = [f \in File |-> IF f[2] = 1 /\ f[1] \in DOMAIN Loaded THEN Loaded[f[1]] ELSE {}]
      /\ tombs = [f \in File |-> {}] /\ gone = [f \in File |-> {}] /\ fsLock = NoSlot
      /\ written = UNION Range(Loaded) /\ deleted = {} /\ phase = "up"
      /\ lpc = "tick" /\ levelWorkers = 0 /\ compactionDone = "open"
      /\ delKeys = [d \in Deleters |-> {}]
  BY DEF Init
<1>2. /\ \A s \in Slots : jpc[s] = "off" /\ Done(s) = {}
      /\ \A x \in Stoppers : spc[x] = "idle"
  BY DEF Init, Done, Swapping
<1>3. BaseInv /\ NameInv
  BY BaseInit, NameInit
<1>4. LockInv
  BY <1>1, <1>2, CompactionAssumption DEF LockInv, Applying, Swapping, Stoppers
<1>5. GateInv
  BY <1>1, <1>2 DEF GateInv, GateOpen, Stoppers
<1>6. MergeInv
  BY <1>2 DEF MergeInv, MergeInvOf, Merging, Swapping
<1>7. LiveInv
  BY <1>1, <1>2 DEF LiveInv
<1>8. StoreInv
  <2>1. SUFFICES ASSUME NEW k \in written PROVE k \in InFiles
    BY <1>1 DEF StoreInv
  <2>2. PICK g \in DOMAIN Loaded : k \in Loaded[g]
    BY <1>1 DEF Range
  <2>3. g \in 1..MaxGen /\ 1 \in 1..MaxSeq
    BY CompactionAssumption
  <2>4. <<g, 1>> \in File /\ <<g, 1>>[1] = g /\ <<g, 1>>[2] = 1
    BY <2>3 DEF File
  <2>5. k \in InFile(<<g, 1>>) /\ <<g, 1>> \in files
    BY <1>1, <2>2, <2>4 DEF InFile
  <2> QED
    BY <2>5 DEF InFiles
<1>9. DeleteInv
  BY <1>1, <1>2 DEF DeleteInv, Merging
<1> QED
  BY <1>3, <1>4, <1>5, <1>6, <1>7, <1>8, <1>9 DEF FilesInv

(* Every step preserves it. *)
LEMMA FilesNext ==
  ASSUME FilesInv, [Next]_vars
  PROVE  FilesInv'
<1>1. BaseInv'
  BY BaseNext DEF FilesInv
<1>2. CASE Next
  <2>1. NameInv' /\ LockInv' /\ GateInv'
    BY <1>1, <1>2, NameNext, LockNext, GateNext DEF FilesInv
  <2>2. MergeInv' /\ LiveInv' /\ StoreInv' /\ DeleteInv'
    <3>1. CASE Loop \/ \E s \in Slots : JobRelease(s)
      BY <1>2, <2>1, <3>1, LoopFiles
    <3>2. ASSUME NEW s \in Slots, JobStep(s) PROVE MergeInv' /\ LiveInv' /\ StoreInv' /\ DeleteInv'
      BY <1>2, <2>1, <3>2, JobAside, WriteFiles, LockFiles, SwapFiles, SwapFailsFiles, RenameFiles,
         InstallFiles DEF JobStep
    <3>3. CASE Crash
      BY <1>2, <3>3, CrashFiles
    <3>4. CASE Flush
      BY <1>2, <3>4, FlushFiles
    <3>5. CASE Reopen
      BY <1>2, <3>5, ReopenFiles
    <3>6. CASE \E d \in Deleters, f \in File : DeleteFile(d, f)
      BY <1>2, <3>6, DeleteFileFiles
    <3>7. CASE /\ Outside /\ ~Flush /\ ~Reopen
               /\ ~\E d \in Deleters, f \in File : DeleteFile(d, f)
      <4>1. MergeInv' /\ LiveInv' /\ StoreInv'
        BY <1>2, <2>1, <3>7, OutsideFiles
      <4>2. (~\E d \in Deleters : ApplyStamp(d)) => DeleteInv'
        BY <1>2, <2>1, <3>7, OutsideFiles
      <4>3. (\E d \in Deleters : ApplyStamp(d)) => DeleteInv'
        BY <1>2, StampDelete
      <4> QED
        BY <4>1, <4>2, <4>3
    <3> QED
      BY <1>2, <3>1, <3>2, <3>3, <3>4, <3>5, <3>6, <3>7, Steps
  <2> QED
    BY <1>1, <2>1, <2>2 DEF FilesInv
<1>3. CASE UNCHANGED vars
  <2>1. /\ UNCHANGED <<data, live, tmp, tombs, files, open, refs, gone, fsLock, purging, generation,
                       inUse, gens, gensValid, lpc, level, found, held>>
        /\ UNCHANGED <<enabled, compacting, jpc, group, merged, outs, todo,
                       levelWorkers, compactionDone, spc, delKeys, delFiles>>
        /\ UNCHANGED <<phase, globbed, cursor, written, asked, deleted, stray, budget>>
    BY <1>3 DEF vars
  <2>2. NameInv' /\ LockInv' /\ GateInv'
    BY <2>1 DEF FilesInv, NameInv, LockInv, Applying, GateInv, GateOpen, Quiet
  <2>3. MergeInv'
    BY <2>1 DEF FilesInv, MergeInv, MergeInvOf, Done, InFile
  <2>4. LiveInv' /\ StoreInv' /\ DeleteInv'
    BY <2>1 DEF FilesInv, LiveInv, StoreInv, DeleteInv, Done, InFiles, InFile, Untorn, Up
  <2> QED
    BY <1>1, <2>2, <2>3, <2>4 DEF FilesInv
<1> QED
  BY <1>2, <1>3

(* FilesInv is an invariant. *)
THEOREM FilesInvariance == Spec => []FilesInv
<1>1. Init => FilesInv
  BY FilesInit
<1>2. FilesInv /\ [Next]_vars => FilesInv'
  BY FilesNext
<1> QED
  BY <1>1, <1>2, PTL DEF Spec

(* Preserved: every key that was written, and that no delete was asked for, is in a file a
   restart would load, at every moment of a compaction, of its failure and of a crash, as
   long as replace is not cut short between an old file and what belongs to it. *)
THEOREM KeysStayOnDisk == Spec => []Preserved
<1>1. FilesInv => Preserved
  BY OnDisk
<1> QED
  BY <1>1, FilesInvariance, PTL

(* Served: a query finds every key that was written and not deleted in an open file,
   whatever compactions replace. *)
THEOREM KeysStayReadable == Spec => []Served
<1>1. FilesInv => Served
  BY InMemory
<1> QED
  BY <1>1, FilesInvariance, PTL

(* NoResurrection: no compaction brings back what a finished delete removed, as long as the
   application has not switched compactions off and the process has not crashed. *)
THEOREM DeletedStaysDeleted == Spec => []NoResurrection
<1>1. FilesInv => NoResurrection
  BY DEF FilesInv, DeleteInv, NoResurrection
<1> QED
  BY <1>1, FilesInvariance, PTL
=============================================================================
