--------------------------- MODULE MemFlush_proofs ---------------------------
(***************************************************************************)
(* Proofs about MemFlush, for any number of writers and any bounds: the     *)
(* inductive invariant IInv, one lemma per action, what follows from it,    *)
(* the refinement of DurableLog, and the order of flushes and log files.    *)
(***************************************************************************)
EXTENDS MemFlush, TLAPS, FiniteSetTheorems, FunctionTheorems

USE DEF diskVars, memVars, engineVars, flusherVars, clientVars

(* What receiving from flushCh, or dropping imm[0], does to a sequence. *)
LEMMA TailFacts ==
  ASSUME NEW S, NEW s \in Seq(S), s # <<>>
  PROVE  /\ Tail(s) \in Seq(S) /\ Len(Tail(s)) = Len(s) - 1
         /\ Head(s) \in S /\ Head(s) = s[1] /\ Len(s) \in Nat \ {0}
         /\ \A i \in 1..Len(Tail(s)) : Tail(s)[i] = s[i + 1] /\ i + 1 \in DOMAIN s
  OBVIOUS

(* Cache.Deref(f) only ever removes what belongs to f, and removes nothing while another
   reference is left. *)
LEMMA DerefFacts ==
  ASSUME TypeOK, NEW f \in Fid, refs[f] > 0, Deref(f)
  PROVE  /\ walFiles' \subseteq walFiles /\ cached' \subseteq cached
         /\ walOf' \in [Write -> Fid \cup {NoFid}]
         /\ \A g \in walFiles : g # f => g \in walFiles'
         /\ \A w \in Write : walOf'[w] = walOf[w] \/ (walOf[w] = f /\ walOf'[w] = NoFid)
         /\ \A w \in Write : walOf'[w] = f => walFiles' = walFiles
         /\ \A w \in cached : w \in cached' \/ walOf'[w] = NoFid
         /\ refs[f] > 1 => UNCHANGED <<walFiles, walOf, cached>>
<1> USE DEF TypeOK
<1>1. CASE refs[f] = 1
  <2>1. walFiles' = walFiles \ {f} /\ cached' = cached \ InTable(f)
    BY <1>1 DEF Deref
  <2>2. walOf' = [w \in Write |-> IF walOf[w] = f THEN NoFid ELSE walOf[w]]
    BY <1>1 DEF Deref
  <2>3. \A w \in Write : walOf'[w] = IF walOf[w] = f THEN NoFid ELSE walOf[w]
    BY <2>2
  <2>4. walOf' \in [Write -> Fid \cup {NoFid}]
    BY <2>2 DEF DiskType
  <2>5. \A w \in cached : w \in cached' \/ walOf'[w] = NoFid
    <3>1. \A w \in cached : w \in Write
      BY DEF CacheType
    <3> QED
      BY <2>1, <2>3, <3>1 DEF InTable
  <2>6. f # NoFid
    BY DEF Fid, NoFid
  <2>7. \A w \in Write : walOf'[w] # f
    BY <2>3, <2>6
  <2>8. ~(refs[f] > 1)
    BY <1>1
  <2> QED
    BY <2>1, <2>3, <2>4, <2>5, <2>7, <2>8
<1>2. CASE refs[f] # 1
  <2>1. UNCHANGED <<walFiles, walOf, cached>>
    BY <1>2 DEF Deref
  <2>2. walOf' \in [Write -> Fid \cup {NoFid}]
    BY <2>1 DEF DiskType
  <2> QED
    BY <2>1, <2>2
<1> QED
  BY <1>1, <1>2, Zenon

(* A memtable the manager holds is a real one. *)
LEMMA HeldType == MemType => Held \subseteq Fid /\ NoFid \notin Held
<1> SUFFICES ASSUME MemType PROVE Held \subseteq Fid /\ NoFid \notin Held
  OBVIOUS
<1>1. NoFid \notin Fid
  BY DEF NoFid, Fid
<1>2. \A i \in DOMAIN imm : imm[i] \in Fid
  BY DEF MemType
<1>3. Held \subseteq Fid
  BY <1>2 DEF Held, ImmSet, MemType
<1> QED
  BY <1>1, <1>3

(* Outside restoreMemTables there is no replay to speak of. *)
LEMMA ReplayFrame ==
  ASSUME ReplayInv, phase # "replaying", phase' # "replaying", replay' = replay
  PROVE  ReplayInv'
  BY DEF ReplayInv, NoReplay

(* The invariant implies that acknowledged records are on disk. *)
LEMMA InvDurable == IInv => Durable
<1> SUFFICES ASSUME IInv PROVE acked \ exposed \subseteq OnDisk
  BY DEF Durable
<1> USE DEF IInv, TypeOK
<1>1. NoFid \notin Held
  BY HeldType
<1>2. InFiles(files) \subseteq InFiles(sstFiles)
  BY DEF InFiles, GenerationInv
<1>3. \A w \in acked : walOf[w] # NoFid => w \in OnDisk
  BY DEF OnDisk, WriterType
<1>4. InFiles(sstFiles) \subseteq OnDisk
  BY DEF OnDisk
<1>k. acked \ exposed \subseteq Kept
  BY DEF Kept
<1>5. CASE Offline \/ phase = "replaying"
  BY <1>5 DEF StoreInv
<1>6. CASE Loading
  BY <1>1, <1>3, <1>4, <1>6, <1>k DEF StoreInv
<1>7. CASE Opened
  BY <1>1, <1>2, <1>3, <1>4, <1>7, <1>k DEF StoreInv
<1> QED
  BY <1>5, <1>6, <1>7 DEF EngineType, Phases, Offline, Loading, Opened

(* The invariant implies that acknowledged records can be read. *)
LEMMA InvVisible == IInv => Visible
<1> SUFFICES ASSUME IInv, phase \in {"up", "closing"}, NEW w \in Kept
             PROVE  (w \in cached /\ walOf[w] \in {mem} \cup ImmSet) \/ w \in InFiles(files)
  BY DEF Visible
<1>1. walOf[w] \in Held \/ w \in InFiles(files)
  BY DEF IInv, StoreInv, Opened
<1>2. walOf[w] # NoFid => w \in cached
  BY DEF IInv, StoreInv, Opened, Kept
<1>3. NoFid \notin Held
  BY HeldType DEF IInv, TypeOK
<1> QED
  BY <1>1, <1>2, <1>3 DEF Held

(* The invariant holds before the engine is opened for the first time. *)
LEMMA InitInv == Init => IInv
<1> SUFFICES ASSUME Init PROVE IInv
  OBVIOUS
<1> USE ConstantsAssumption DEF Init
<1>1. TypeOK
  <2>1. DiskType /\ CacheType /\ FlusherType
    BY DEF DiskType, CacheType, FlusherType
  <2>2. <<>> \in Seq(Fid) /\ 0 \in Nat
    OBVIOUS
  <2>3. MemType
    BY <2>2, Zenon DEF MemType
  <2>4. EngineType
    BY <2>2, Zenon DEF EngineType, Phases, NoReplay, Places
  <2>5. WriterType
    BY DEF WriterType
  <2>6. ObserverType
    BY DEF ObserverType
  <2> QED
    BY <2>1, <2>3, <2>4, <2>5, <2>6 DEF TypeOK
<1>2. OfflineInv /\ OrderInv /\ SendInv /\ QueueInv
  BY DEF OfflineInv, OrderInv, SendInv, QueueInv, Offline, Loading, Opened, NoFid, Older
<1>3. RefInv /\ WriterInv /\ WalInv
  BY DEF RefInv, WriterInv, WalInv, Held, ImmSet, NoFid
<1>4. GenerationInv /\ SnapshotInv /\ StoreInv /\ ReplayInv /\ QueryInv
  BY DEF GenerationInv, SnapshotInv, StoreInv, ReplayInv, NoReplay, QueryInv, Offline, Loading,
         Opened
<1> QED
  BY <1>1, <1>2, <1>3, <1>4 DEF IInv

(* Nothing happens. *)
LEMMA StutterInv == IInv /\ UNCHANGED vars => IInv'
<1> SUFFICES ASSUME IInv, UNCHANGED vars PROVE IInv'
  OBVIOUS
<1> USE DEF IInv, TypeOK, vars
<1>1. TypeOK'
  BY SMTT(30) DEF DiskType, MemType, CacheType, EngineType, FlusherType, WriterType, ObserverType
<1>2. OfflineInv' /\ OrderInv' /\ SendInv' /\ QueueInv' /\ RefInv'
  BY DEF OfflineInv, OrderInv, SendInv, QueueInv, RefInv, Offline, Loading, Opened, Older, Held, ImmSet
<1>3. WriterInv' /\ WalInv' /\ GenerationInv' /\ SnapshotInv'
  BY DEF WriterInv, WalInv, GenerationInv, SnapshotInv, Opened
<1>4. StoreInv' /\ QueryInv'
  BY DEF StoreInv, QueryInv, Offline, Loading, Opened, Held, ImmSet, InFiles, OnDisk, Kept
<1>5. ReplayInv'
  BY DEF ReplayInv, NoReplay, Replayed, Unread, Rewritten, LoggedIn, ImmSet
<1> QED
  BY <1>5, <1>1, <1>2, <1>3, <1>4

(* WriteBatch begins, and EnsureMemForWrite that finds room, preserve the invariant. *)
LEMMA EnterInv ==
  ASSUME IInv, NEW w \in Writers, WriteBatch(w) \/ EnsureNotFull(w)
  PROVE  IInv'
<1> USE DEF IInv, TypeOK, WriteBatch, EnsureNotFull
<1>1. WriterType'
  BY DEF WriterType
<1>2. TypeOK'
  BY ZenonT(30), <1>1 DEF DiskType, MemType, CacheType, EngineType, FlusherType, ObserverType
<1>3. OfflineInv' /\ OrderInv' /\ SendInv' /\ QueueInv' /\ RefInv'
  BY DEF OfflineInv, OrderInv, SendInv, QueueInv, RefInv, Offline, Loading, Opened, Running, Older,
         Held, ImmSet
<1>4. WriterInv'
  BY DEF WriterInv, WriterType
<1>5. WalInv' /\ GenerationInv' /\ SnapshotInv'
  BY DEF WalInv, GenerationInv, SnapshotInv, Opened
<1>6. StoreInv' /\ QueryInv'
  BY DEF StoreInv, QueryInv, Offline, Loading, Opened, Held, ImmSet, InFiles, OnDisk, Kept
<1>r. ReplayInv'
  BY ReplayFrame DEF Running
<1> QED
  BY <1>r, <1>2, <1>3, <1>4, <1>5, <1>6

(* EnsureMemForWrite that hands the memtable over preserves the invariant, whether or not
   newMemTable succeeds. *)
LEMMA RotateInv ==
  ASSUME IInv, NEW w \in Writers, Rotate(w)
  PROVE  IInv'
<1> USE DEF IInv, TypeOK
<1>1. mem \in Fid /\ mem < nextMemFid /\ phase = "up" /\ toSend = <<>>
  BY DEF Rotate, MemType, OrderInv, OfflineInv
<1>2. \A x \in Writers : wpc'[x] # "logged"
  BY DEF Rotate, MemManagerUnlocked, WriterType
<1>3. imm' = Append(imm, mem) /\ flushCh' = Append(flushCh, mem) /\ wg' = wg + 1
  BY DEF Rotate
<1>4. \/ /\ nextMemFid \in Fid /\ mem' = nextMemFid /\ nextMemFid' = nextMemFid + 1
         /\ walFiles' = walFiles \cup {nextMemFid}
         /\ refs' = [refs EXCEPT ![nextMemFid] = 1]
      \/ mem' = NoFid /\ UNCHANGED <<nextMemFid, walFiles, refs>>
  BY DEF Rotate, NewMemTable
<1>5. \/ nextMemFid \in Fid /\ mem' = nextMemFid /\ nextMemFid' = nextMemFid + 1
      \/ mem' = NoFid /\ nextMemFid' = nextMemFid
  BY <1>4
<1>6. UNCHANGED <<walOf, synced, sst, tmpFiles, sstFiles, chClosed, cached, iters, engineVars,
                   flusherVars, wid, nWrites, acked, conflicts, query, exposed>>
  BY DEF Rotate
<1>7. /\ \A i \in DOMAIN imm' : imm'[i] = IF i \in DOMAIN imm THEN imm[i] ELSE mem
      /\ \A i \in DOMAIN imm : imm'[i] = imm[i] /\ i \in DOMAIN imm'
      /\ imm'[Len(imm) + 1] = mem /\ Len(imm) + 1 \in DOMAIN imm'
      /\ \A i, j \in DOMAIN imm' : i < j => i \in DOMAIN imm
  BY <1>1, <1>3 DEF MemType
<1>8. \A i \in DOMAIN flushCh' :
        flushCh'[i] = mem \/ \E j \in DOMAIN flushCh : flushCh'[i] = flushCh[j]
  BY <1>1, <1>3 DEF MemType
<1>9. Held \subseteq Held' /\ Held' \subseteq Held \cup ({mem'} \ {NoFid})
  BY <1>1, <1>7 DEF Held, ImmSet, MemType, NoFid, Fid
<1>10. TypeOK'
  <2>1. DiskType' /\ CacheType'
    BY <1>4, <1>6 DEF DiskType, CacheType
  <2>2. mem' \in Fid \cup {NoFid} /\ nextMemFid' \in Nat /\ wg' \in Nat
    BY <1>3, <1>4 DEF MemType
  <2>3. MemType'
    BY <1>1, <1>3, <1>6, <2>2 DEF MemType
  <2>4. wpc' \in [Writers -> {"idle", "ensure", "write", "logged"}]
    BY DEF WriterType, Rotate
  <2>5. WriterType'
    BY <1>6, <2>4 DEF WriterType
  <2>6. ObserverType'
    <3>1. budget' = budget \/ Spend("failure")
      BY DEF Rotate
    <3>2. query' = query
      BY <1>6
    <3> QED
      BY <3>1, <3>2, ConstantsAssumption DEF ObserverType, Spend
  <2> QED
    BY <1>6, <2>1, <2>3, <2>5, <2>6 DEF EngineType, FlusherType
<1>11. OfflineInv'
  BY <1>1, <1>6 DEF OfflineInv, Offline, Loading
<1>12. OrderInv'
  <2> DEFINE OlderNext(f) == f < nextMemFid' /\ (mem' # NoFid => f < mem')
  <2>1. \A f \in Fid : Older(f) => OlderNext(f)
    BY <1>5 DEF Older, Fid, NoFid, MemType
  <2>2. OlderNext(mem)
    BY <1>1, <1>5 DEF Fid, NoFid, MemType
  <2> HIDE DEF OlderNext
  <2>3. \A i \in DOMAIN imm' : OlderNext(imm'[i])
    BY <1>7, <2>1, <2>2 DEF OrderInv, MemType, Rotate, Running
  <2>4. \A i, j \in DOMAIN imm' : i < j => imm'[i] < imm'[j]
    BY <1>1, <1>7 DEF OrderInv, MemType, Older, Fid, NoFid
  <2>5. \A i \in DOMAIN flushCh' : OlderNext(flushCh'[i])
    BY <1>8, <2>1, <2>2 DEF OrderInv, MemType
  <2>6. mt' # NoFid => OlderNext(mt')
    BY <1>6, <2>1 DEF OrderInv, FlusherType
  <2>7. \A f \in Fid : f >= nextMemFid' => iters'[f] = 0
    BY <1>5, <1>6 DEF OrderInv, MemType, Fid
  <2>8. mem' # NoFid => mem' < nextMemFid'
    BY <1>5 DEF MemType, NoFid, Fid
  <2> QED
    BY <2>3, <2>4, <2>5, <2>6, <2>7, <2>8, Zenon DEF OrderInv, OlderNext, Older
<1>13. SendInv'
  BY <1>1, <1>3, <1>6 DEF SendInv, Opened, MemType
<1>14. QueueInv'
  <2>1. mem \in ImmSet' /\ ImmSet \subseteq ImmSet'
    BY <1>7 DEF ImmSet
  <2>2. \A i \in DOMAIN flushCh : flushCh[i] < mem
    BY <1>1 DEF OrderInv, Older, NoFid, Fid
  <2>3. mt # NoFid => mt < mem
    BY <1>1 DEF OrderInv, Older, NoFid, Fid
  <2>4. \A i, j \in DOMAIN flushCh' : i < j => flushCh'[i] < flushCh'[j]
    <3>1. /\ \A i \in DOMAIN flushCh' : flushCh'[i] = IF i \in DOMAIN flushCh THEN flushCh[i] ELSE mem
          /\ \A i, j \in DOMAIN flushCh' : i < j => i \in DOMAIN flushCh
      BY <1>1, <1>3 DEF MemType
    <3> QED
      BY <2>2, <3>1 DEF QueueInv
  <2> QED
    BY <1>6, <1>8, <2>1, <2>2, <2>3, <2>4 DEF QueueInv
<1>15. RefInv'
  <2>1. nextMemFid \in Fid => iters[nextMemFid] = 0
    BY DEF OrderInv, Fid
  <2>2. \A f \in Fid : refs'[f] = refs[f] \/ (refs'[f] = 1 /\ f = nextMemFid)
    BY <1>4 DEF CacheType
  <2>3. \A f \in Fid : refs'[f] >= iters'[f]
    BY <1>6, <2>1, <2>2 DEF RefInv
  <2>4. \A f \in Held' : refs'[f] > iters'[f]
    <3>1. CASE mem' = NoFid /\ refs' = refs
      BY <1>6, <1>9, <3>1 DEF RefInv
    <3>2. CASE mem' = nextMemFid /\ nextMemFid \in Fid /\ refs' = [refs EXCEPT ![nextMemFid] = 1]
      BY <1>6, <1>9, <2>1, <3>2 DEF RefInv, CacheType
    <3> QED
      BY <1>4, <3>1, <3>2
  <2> QED
    BY <1>6, <2>3, <2>4 DEF RefInv
<1>16. WriterInv' /\ WalInv'
  BY <1>2, <1>4, <1>6 DEF WriterInv, WalInv
<1>17. GenerationInv' /\ SnapshotInv' /\ QueryInv'
  BY <1>6 DEF GenerationInv, SnapshotInv, QueryInv, Opened, InFiles
<1>18. StoreInv'
  BY <1>1, <1>6, <1>9 DEF StoreInv, Offline, Loading, Opened, InFiles, Kept, OnDisk
<1>r. ReplayInv'
  BY <1>1, <1>6, ReplayFrame
<1> QED
  BY <1>r, <1>10, <1>11, <1>12, <1>13, <1>14, <1>15, <1>16, <1>17, <1>18

(* Logging a record preserves the invariant: its number is fresh, so no acknowledged
   record changes its log. *)
LEMMA WriteLogInv ==
  ASSUME IInv, NEW w \in Writers, WriteLog(w)
  PROVE  IInv'
<1> USE DEF IInv, TypeOK, WriteLog
<1> DEFINE new == nWrites + 1
<1>1. new \in Write /\ new \notin acked /\ walOf[new] = NoFid
  BY ConstantsAssumption DEF WriterType, WriterInv, WalInv, Write, DiskType, NoFid
<1>2. \A v \in Write : walOf'[v] = IF v = new THEN mem ELSE walOf[v]
  BY <1>1 DEF DiskType
<1> HIDE DEF new
<1>3. TypeOK'
  <2>1. DiskType'
    BY <1>1 DEF DiskType, MemType, new
  <2>2. WriterType'
    BY <1>1, ConstantsAssumption DEF WriterType, new
  <2> QED
    BY <2>1, <2>2 DEF MemType, CacheType, EngineType, FlusherType, ObserverType
<1>4. OfflineInv' /\ OrderInv' /\ SendInv' /\ QueueInv' /\ RefInv'
  BY DEF OfflineInv, OrderInv, SendInv, QueueInv, RefInv, Offline, Loading, Opened, Running, Older,
         Held, ImmSet
<1>5. WriterInv'
  <2>1. wid'[w] = new /\ wpc' = [wpc EXCEPT ![w] = "logged"]
    BY DEF WriterType, new
  <2>2. \A x \in Writers : wpc'[x] = "logged" => x = w
    BY <2>1 DEF WriterType, MemManagerUnlocked
  <2>3. \A v \in acked : v <= nWrites'
    BY DEF WriterInv, WriterType, Write
  <2>4. ASSUME SyncWrite, NEW v \in acked \ exposed, NEW u \in Write,
               walOf'[v] # NoFid, walOf'[u] = walOf'[v], u <= v
        PROVE  u \in synced
    <3>1. v \in Write /\ v <= nWrites /\ nWrites \in Nat
      BY ConstantsAssumption DEF WriterInv, WriterType
    <3>2. u # new /\ v # new
      BY <1>1, <2>4, <3>1 DEF Write, new
    <3> QED
      BY <1>2, <2>4, <3>1, <3>2 DEF WriterInv
  <2>5. wid'[w] = nWrites'
    BY <2>1 DEF new
  <2> QED
    BY <1>1, <1>2, <2>1, <2>2, <2>3, <2>4, <2>5 DEF WriterInv
<1>6. WalInv'
  BY <1>1, <1>2 DEF WalInv, WriterType, Write, new
<1>7. GenerationInv' /\ QueryInv'
  BY DEF GenerationInv, QueryInv, Opened, InFiles
<1>8. SnapshotInv'
  <2>1. pc = "rename" => \A q \in todo : new \notin sst[<<currentGeneration, q>>]
                                      /\ sst[<<currentGeneration, q>>] \subseteq Write
    <3>1. pc = "rename" => mt # NoFid
      BY DEF SnapshotInv, Fid, NoFid
    <3>2. pc = "rename" => \A q \in todo : sst[<<currentGeneration, q>>] \subseteq Write
      BY DEF GenerationInv, DiskType, FlusherType, File
    <3> QED
      BY <1>1, <3>1, <3>2 DEF SnapshotInv
  <2>2. \A v \in acked : walOf'[v] = walOf[v]
    BY <1>1, <1>2 DEF WriterType
  <2> QED
    BY <1>2, <2>1, <2>2 DEF SnapshotInv
<1>9. StoreInv'
  BY <1>1, <1>2 DEF StoreInv, WriterType, Offline, Loading, Opened, Running, Held, ImmSet, InFiles, Kept, OnDisk
<1>r. ReplayInv'
  BY ReplayFrame DEF Running
<1> QED
  BY <1>r, <1>3, <1>4, <1>5, <1>6, <1>7, <1>8, <1>9

(* Applying and acknowledging a record preserves the invariant: the record is in the
   mutable memtable, which is never the one being flushed. *)
LEMMA WriteApplyInv ==
  ASSUME IInv, NEW w \in Writers, WriteApply(w)
  PROVE  IInv'
<1> USE DEF IInv, TypeOK, WriteApply
<1>1. /\ wid[w] \in Write \ acked /\ wid[w] <= nWrites
      /\ walOf[wid[w]] = mem /\ mem # NoFid
  BY DEF WriterInv, WalInv
<1>2. TypeOK'
  <2>1. DiskType'
    BY DEF DiskType, SyncWAL, LoggedIn
  <2>2. CacheType' /\ WriterType'
    BY <1>1 DEF CacheType, WriterType
  <2> QED
    BY <2>1, <2>2 DEF MemType, EngineType, FlusherType, ObserverType
<1>3. OfflineInv' /\ OrderInv' /\ SendInv' /\ QueueInv' /\ RefInv'
  BY DEF OfflineInv, OrderInv, SendInv, QueueInv, RefInv, Offline, Loading, Opened, Running, Older,
         Held, ImmSet
<1>4. WriterInv'
  <2>1. \A x \in Writers : wpc'[x] # "logged"
    BY DEF WriterType, WriterInv
  <2>2. ASSUME SyncWrite, NEW v \in acked' \ exposed', NEW u \in Write,
               walOf[v] # NoFid, walOf[u] = walOf[v], u <= v
        PROVE  u \in synced'
    <3>1. synced' = synced \cup LoggedIn(mem)
      BY <2>2 DEF SyncWAL
    <3>2. CASE v = wid[w]
      BY <1>1, <2>2, <3>1, <3>2 DEF LoggedIn
    <3>3. CASE v \in acked
      BY <2>2, <3>1, <3>3 DEF WriterInv
    <3> QED
      BY <2>2, <3>2, <3>3
  <2> QED
    BY <1>1, <2>1, <2>2 DEF WriterInv
<1>5. WalInv' /\ GenerationInv'
  BY DEF WalInv, GenerationInv, Opened
<1>6. SnapshotInv'
  <2>1. pc \in {"rename", "install", "flushed"} => mt # mem
    BY <1>1 DEF SnapshotInv, OrderInv, Older, MemType, Fid, NoFid
  <2> QED
    BY <1>1, <2>1 DEF SnapshotInv
<1>7. StoreInv'
  BY <1>1 DEF StoreInv, Held, ImmSet, Offline, Loading, Opened, Running, InFiles, Kept, OnDisk
<1>8. QueryInv'
  BY DEF QueryInv, InFiles
<1>r. ReplayInv'
  BY ReplayFrame DEF Running
<1> QED
  BY <1>r, <1>2, <1>3, <1>4, <1>5, <1>6, <1>7, <1>8

(* A write refused for its field type preserves the invariant. *)
LEMMA WriteConflictInv ==
  ASSUME IInv, NEW w \in Writers, WriteConflict(w)
  PROVE  IInv'
<1> USE DEF IInv, TypeOK, WriteConflict, Spend
<1>1. TypeOK'
  <2>1. WriterType'
    BY DEF WriterType, WriterInv
  <2>2. ObserverType'
    BY ConstantsAssumption DEF ObserverType
  <2> QED
    BY <2>1, <2>2 DEF DiskType, MemType, CacheType, EngineType, FlusherType
<1>2. OfflineInv' /\ OrderInv' /\ SendInv' /\ QueueInv' /\ RefInv'
  BY DEF OfflineInv, OrderInv, SendInv, QueueInv, RefInv, Offline, Loading, Opened, Running, Older,
         Held, ImmSet
<1>3. WriterInv'
  BY DEF WriterInv, WriterType
<1>4. WalInv' /\ GenerationInv' /\ SnapshotInv' /\ StoreInv' /\ QueryInv'
  BY DEF WalInv, GenerationInv, SnapshotInv, StoreInv, QueryInv, Offline, Loading, Opened,
         Held, ImmSet, InFiles, OnDisk, Kept
<1>r. ReplayInv'
  BY ReplayFrame DEF Running
<1> QED
  BY <1>r, <1>1, <1>2, <1>3, <1>4

(* The top of compactMemTable's loop preserves the invariant. *)
LEMMA FlushLoopInv ==
  ASSUME IInv, FlushLoop
  PROVE  IInv'
<1> USE DEF IInv, TypeOK, FlushLoop
<1>1. TypeOK'
  BY DEF DiskType, MemType, CacheType, EngineType, FlusherType, WriterType, ObserverType
<1>2. OfflineInv' /\ OrderInv' /\ SendInv' /\ QueueInv' /\ RefInv'
  BY DEF OfflineInv, OrderInv, SendInv, QueueInv, RefInv, Offline, Loading, Opened, Older, Held, ImmSet
<1>3. WriterInv' /\ WalInv' /\ GenerationInv' /\ SnapshotInv'
  BY DEF WriterInv, WalInv, GenerationInv, SnapshotInv, Opened
<1>4. StoreInv' /\ QueryInv'
  BY DEF StoreInv, QueryInv, Offline, Loading, Opened, Held, ImmSet, InFiles, OnDisk, Kept
<1>r. ReplayInv'
  BY ReplayFrame DEF OfflineInv
<1> QED
  BY <1>r, <1>1, <1>2, <1>3, <1>4

(* Receiving from flushCh preserves the invariant: the oldest queued memtable comes out. *)
LEMMA TakeFlushMemTableInv ==
  ASSUME IInv, TakeFlushMemTable
  PROVE  IInv'
<1> USE DEF IInv, TypeOK
<1>1. pc = "recv" /\ pc' \in {"check", "off"}
  BY DEF TakeFlushMemTable
<1>2. UNCHANGED <<diskVars, mem, imm, nextMemFid, chClosed, wg, cached, refs, iters, engineVars,
                  todo, clientVars, budget>>
  BY DEF TakeFlushMemTable
<1>3. \/ /\ flushCh # <<>> /\ mt' = Head(flushCh) /\ flushCh' = Tail(flushCh) /\ pc' = "check"
      \/ mt' = mt /\ flushCh' = flushCh /\ pc' = "off"
  BY DEF TakeFlushMemTable
<1>4. \A i \in DOMAIN flushCh' : \E j \in DOMAIN flushCh : flushCh'[i] = flushCh[j]
  BY <1>3 DEF MemType
<1>5. \/ mt' = mt
      \/ mt' \in Fid /\ 1 \in DOMAIN flushCh /\ mt' = flushCh[1]
  BY <1>3 DEF MemType
<1>6. TypeOK'
  <2>1. flushCh' \in Seq(Fid)
    BY <1>3, TailFacts DEF MemType
  <2>2. MemType'
    BY <1>2, <2>1 DEF MemType
  <2>3. FlusherType'
    BY <1>1, <1>2, <1>5 DEF FlusherType
  <2> QED
    BY <1>2, <2>2, <2>3 DEF DiskType, CacheType, EngineType, WriterType, ObserverType
<1>7. OfflineInv' /\ RefInv'
  BY <1>1, <1>2 DEF OfflineInv, RefInv, Offline, Loading, Held, ImmSet
<1>8. OrderInv'
  BY <1>2, <1>4, <1>5 DEF OrderInv, Older
<1>9. SendInv'
  BY <1>2, <1>4, <1>5 DEF SendInv, Opened
<1>10. QueueInv'
  <2>1. CASE flushCh # <<>> /\ mt' = Head(flushCh) /\ flushCh' = Tail(flushCh)
    <3>1. /\ mt' = flushCh[1] /\ 1 \in DOMAIN flushCh
          /\ \A i \in DOMAIN flushCh' : /\ flushCh'[i] = flushCh[i + 1] /\ i + 1 \in DOMAIN flushCh
                                      /\ 1 < i + 1
          /\ \A i, j \in DOMAIN flushCh' : i < j => i + 1 < j + 1
      BY <2>1, TailFacts DEF MemType
    <3> QED
      BY <1>2, <3>1 DEF QueueInv, ImmSet
  <2>2. CASE mt' = mt /\ flushCh' = flushCh
    BY <1>2, <2>2 DEF QueueInv, ImmSet
  <2> QED
    BY <1>3, <2>1, <2>2
<1>11. WriterInv' /\ WalInv' /\ GenerationInv'
  BY <1>1, <1>2 DEF WriterInv, WalInv, GenerationInv, Opened
<1>12. SnapshotInv'
  BY <1>1, <1>2, <1>3, <1>5 DEF SnapshotInv, MemType
<1>13. StoreInv' /\ QueryInv'
  BY <1>2 DEF StoreInv, QueryInv, Offline, Loading, Opened, Held, ImmSet, InFiles, OnDisk, Kept
<1>r. ReplayInv'
  BY <1>1, <1>2, ReplayFrame DEF OfflineInv
<1> QED
  BY <1>r, <1>6, <1>7, <1>8, <1>9, <1>10, <1>11, <1>12, <1>13

(* The top of doCompactMemTable's retry loop preserves the invariant. *)
LEMMA FlushCheckInv ==
  ASSUME IInv, FlushCheck
  PROVE  IInv'
<1> USE DEF IInv, TypeOK, FlushCheck
<1>1. TypeOK'
  BY DEF DiskType, MemType, CacheType, EngineType, FlusherType, WriterType, ObserverType
<1>2. OfflineInv' /\ OrderInv' /\ SendInv' /\ QueueInv' /\ RefInv'
  BY DEF OfflineInv, OrderInv, SendInv, QueueInv, RefInv, Offline, Loading, Opened, Older, Held, ImmSet
<1>3. WriterInv' /\ WalInv' /\ GenerationInv' /\ SnapshotInv'
  BY DEF WriterInv, WalInv, GenerationInv, SnapshotInv, Opened
<1>4. StoreInv' /\ QueryInv'
  BY DEF StoreInv, QueryInv, Offline, Loading, Opened, Held, ImmSet, InFiles, OnDisk, Kept
<1>r. ReplayInv'
  BY ReplayFrame DEF OfflineInv
<1> QED
  BY <1>r, <1>1, <1>2, <1>3, <1>4

(* Starting a snapshot preserves the invariant: the new generation is above every live file. *)
LEMMA SnapshotStartInv ==
  ASSUME IInv, SnapshotStart
  PROVE  IInv'
<1> USE DEF IInv, TypeOK
<1>1. pc = "snap" /\ mt \in Fid /\ Opened /\ mt < nextMemFid
  BY DEF SnapshotStart, SnapshotInv, OfflineInv, Offline, Loading, Opened, EngineType, Phases,
         OrderInv, Older, NoFid, Fid
<1>2. UNCHANGED <<walFiles, walOf, synced, sst, sstFiles, mem, imm, nextMemFid, flushCh,
                   chClosed, wg, cached, phase, toSend, globbed, snapDone, snapshotsEnabled,
                   files, mt, todo, clientVars, budget, replay>>
  BY DEF SnapshotStart
<1>r. ReplayInv'
  BY <1>1, <1>2, ReplayFrame DEF Opened
<1>3. CASE pc' = "check" /\ UNCHANGED <<refs, iters, currentGeneration, tmpFiles>>
  <2> USE <1>1, <1>2, <1>3
  <2>1. TypeOK'
    BY DEF DiskType, MemType, CacheType, EngineType, FlusherType, WriterType, ObserverType
  <2>2. OfflineInv' /\ OrderInv' /\ SendInv' /\ QueueInv' /\ RefInv'
    BY DEF OfflineInv, OrderInv, SendInv, QueueInv, RefInv, Offline, Loading, Opened, Older, Held, ImmSet
  <2>3. WriterInv' /\ WalInv' /\ GenerationInv' /\ SnapshotInv'
    BY DEF WriterInv, WalInv, GenerationInv, SnapshotInv, Opened
  <2>4. StoreInv' /\ QueryInv'
    BY DEF StoreInv, QueryInv, Offline, Loading, Opened, Held, ImmSet, InFiles, OnDisk, Kept
  <2> QED
    BY <1>r, <2>1, <2>2, <2>3, <2>4
<1>4. CASE /\ currentGeneration < MaxGen /\ currentGeneration' = currentGeneration + 1
           /\ iters' = [iters EXCEPT ![mt] = @ + 1]
           /\ refs' = [refs EXCEPT ![mt] = @ + 1]
           /\ tmpFiles' = tmpFiles \cup {<<currentGeneration + 1, 1>>}
           /\ pc' \in {"check", "encode"}
  <2> USE <1>1, <1>2, <1>4
  <2>1. TypeOK'
    <3>1. DiskType'
      BY ConstantsAssumption DEF DiskType, EngineType, File, Part
    <3>2. CacheType' /\ FlusherType'
      BY DEF CacheType, FlusherType
    <3>3. EngineType'
      BY DEF EngineType
    <3> QED
      BY <3>1, <3>2, <3>3 DEF MemType, WriterType, ObserverType
  <2>2. OfflineInv' /\ SendInv' /\ QueueInv'
    BY DEF OfflineInv, SendInv, QueueInv, ImmSet, Offline, Loading, Opened
  <2>3. OrderInv'
    BY DEF OrderInv, Older, CacheType, MemType, Fid
  <2>4. RefInv'
    BY DEF RefInv, CacheType, Held, ImmSet
  <2>5. WriterInv' /\ WalInv' /\ SnapshotInv'
    BY DEF WriterInv, WalInv, SnapshotInv
  <2>6. GenerationInv'
    BY ConstantsAssumption DEF GenerationInv, Opened, EngineType, DiskType, File
  <2>7. StoreInv' /\ QueryInv'
    BY DEF StoreInv, QueryInv, Offline, Loading, Opened, Held, ImmSet, InFiles, Kept, OnDisk
  <2> QED
    BY <1>r, <2>1, <2>2, <2>3, <2>4, <2>5, <2>6, <2>7
<1> QED
  BY <1>3, <1>4 DEF SnapshotStart, CacheSplit

(* Writing the snapshot preserves the invariant: it touches no live file and covers every
   acknowledged record of the memtable. *)
LEMMA SnapshotWrittenInv ==
  ASSUME IInv, SnapshotWritten
  PROVE  IInv'
<1> USE DEF IInv, TypeOK
<1>1. /\ pc = "encode" /\ mt \in Fid
      /\ <<currentGeneration, 1>> \in File /\ <<currentGeneration, 2>> \in File
  BY DEF SnapshotWritten, SnapshotInv, GenerationInv, File, Part
<1>2. UNCHANGED <<walFiles, walOf, synced, sstFiles, memVars, engineVars, mt, clientVars, budget>>
  BY DEF SnapshotWritten
<1>3. \A v \in acked : walOf[v] = mt => v \in InTable(mt)
  <2>1. Opened /\ mt # NoFid
    BY <1>1 DEF OfflineInv, EngineType, Phases, Offline, Loading, Opened, Fid, NoFid
  <2>2. \A v \in acked : walOf[v] # NoFid => v \in cached
    BY <2>1 DEF StoreInv
  <2> QED
    BY <2>1, <2>2 DEF InTable
<1>4. PICK q \in Part, first \in SUBSET InTable(mt) :
        /\ q = 1 => InTable(mt) \ first = {}
        /\ sst' = [sst EXCEPT ![<<currentGeneration, 1>>] = first,
                              ![<<currentGeneration, 2>>] = InTable(mt) \ first]
        /\ tmpFiles' \in {tmpFiles, tmpFiles \cup {<<currentGeneration, 2>>}}
        /\ \/ todo' = 1..q /\ pc' = "rename"
           \/ todo' = {} /\ pc' = "check"
  BY DEF SnapshotWritten
<1>5. /\ \A f \in File : f[1] # currentGeneration => sst'[f] = sst[f]
      /\ sst'[<<currentGeneration, 1>>] = first
      /\ sst'[<<currentGeneration, 2>>] = InTable(mt) \ first
  BY <1>1, <1>4 DEF DiskType
<1>6. \A f \in sstFiles : sst'[f] = sst[f]
  BY <1>1, <1>5 DEF GenerationInv, DiskType, EngineType, File
<1>7. TypeOK'
  <2>1. sst' \in [File -> SUBSET Write]
    BY <1>1, <1>4 DEF DiskType, InTable, CacheType
  <2>2. DiskType'
    BY <1>1, <1>2, <1>4, <2>1 DEF DiskType
  <2>3. FlusherType'
    BY <1>2, <1>4 DEF FlusherType, Part
  <2> QED
    BY <1>2, <2>2, <2>3 DEF MemType, CacheType, EngineType, WriterType, ObserverType
<1>8. OfflineInv' /\ OrderInv' /\ SendInv' /\ QueueInv' /\ RefInv'
  BY <1>1, <1>2, <1>4 DEF OfflineInv, OrderInv, SendInv, QueueInv, RefInv, Offline, Loading, Opened, Older,
                   Held, ImmSet
<1>9. WriterInv' /\ WalInv' /\ GenerationInv'
  BY <1>1, <1>2, <1>4 DEF WriterInv, WalInv, GenerationInv, Opened
<1>10. SnapshotInv'
  <2>1. ASSUME pc' = "rename", NEW v \in acked, walOf[v] = mt
        PROVE  \E p \in Part : v \in sst'[<<currentGeneration, p>>] /\ p \in todo'
    <3>1. v \in InTable(mt) /\ todo' = 1..q
      BY <1>3, <1>4, <2>1
    <3>2. CASE v \in first
      BY <1>5, <3>1, <3>2 DEF Part
    <3>3. CASE v \notin first
      <4>1. q = 2
        BY <1>4, <3>1, <3>3 DEF Part
      <4> QED
        BY <1>5, <3>1, <3>3, <4>1 DEF Part
    <3> QED
      BY <3>2, <3>3
  <2>2. ASSUME pc' = "rename", NEW p \in todo', NEW v \in sst'[<<currentGeneration, p>>]
        PROVE  walOf[v] = mt
    <3>1. p \in {1, 2}
      BY <1>4, <2>2 DEF Part
    <3>2. v \in InTable(mt)
      BY <1>5, <2>2, <3>1
    <3> QED
      BY <3>2 DEF InTable
  <2> QED
    BY <1>1, <1>2, <1>4, <2>1, <2>2 DEF SnapshotInv
<1>11. StoreInv'
  <2>1. InFiles(sstFiles)' = InFiles(sstFiles) /\ InFiles(files)' = InFiles(files)
    BY <1>2, <1>6 DEF InFiles, GenerationInv
  <2> QED
    BY <1>2, <2>1 DEF StoreInv, Offline, Loading, Opened, Held, ImmSet, OnDisk, Kept, OnDisk
<1>12. QueryInv'
  BY <1>2, <1>6 DEF QueryInv, InFiles, GenerationInv
<1>r. ReplayInv'
  BY <1>1, <1>2, ReplayFrame DEF OfflineInv
<1> QED
  BY <1>r, <1>7, <1>8, <1>9, <1>10, <1>11, <1>12

(* A snapshot or a replace that fails preserves the invariant: nothing was released. *)
LEMMA SnapshotAbortedInv ==
  ASSUME IInv, SnapshotFailed \/ SnapshotCollides \/ ReplaceFailed
  PROVE  IInv'
<1> USE DEF IInv, TypeOK
<1>1. UNCHANGED <<walFiles, walOf, synced, sst, sstFiles, memVars, engineVars, mt, clientVars>>
  BY DEF SnapshotFailed, SnapshotCollides, ReplaceFailed
<1>2. /\ pc \in {"encode", "rename", "install"} /\ pc' = "check"
      /\ todo' \subseteq todo /\ tmpFiles' \subseteq tmpFiles
  BY DEF SnapshotFailed, SnapshotCollides, ReplaceFailed
<1>3. TypeOK'
  <2>1. budget' = budget \/ Spend("failure")
    BY DEF SnapshotFailed, SnapshotCollides, ReplaceFailed
  <2>2. ObserverType'
    BY <1>1, <2>1, ConstantsAssumption DEF ObserverType, Spend
  <2>3. DiskType' /\ FlusherType'
    BY <1>1, <1>2 DEF DiskType, FlusherType
  <2> QED
    BY <1>1, <2>2, <2>3 DEF MemType, CacheType, EngineType, WriterType
<1>4. OfflineInv' /\ OrderInv' /\ SendInv' /\ QueueInv' /\ RefInv'
  BY <1>1, <1>2 DEF OfflineInv, OrderInv, SendInv, QueueInv, RefInv, Offline, Loading, Opened, Older,
                   Held, ImmSet
<1>5. WriterInv' /\ WalInv' /\ GenerationInv' /\ SnapshotInv'
  BY <1>1, <1>2 DEF WriterInv, WalInv, GenerationInv, SnapshotInv, Opened
<1>6. StoreInv' /\ QueryInv'
  BY <1>1 DEF StoreInv, QueryInv, Offline, Loading, Opened, Held, ImmSet, InFiles, OnDisk, Kept
<1>r. ReplayInv'
  BY <1>1, <1>2, ReplayFrame DEF OfflineInv
<1> QED
  BY <1>r, <1>3, <1>4, <1>5, <1>6

(* Renaming a temp file preserves the invariant. *)
LEMMA RenameTmpInv ==
  ASSUME IInv, RenameTmp
  PROVE  IInv'
<1> USE DEF IInv, TypeOK
<1>1. pc = "rename" /\ mt \in Fid /\ currentGeneration \in 1..MaxGen
  BY DEF RenameTmp, SnapshotInv, GenerationInv
<1>2. UNCHANGED <<walFiles, walOf, synced, sst, memVars, engineVars, mt, clientVars, budget>>
  BY DEF RenameTmp
<1>3. PICK q \in todo :
         /\ tmpFiles' = tmpFiles \ {<<currentGeneration, q>>}
         /\ sstFiles' = sstFiles \cup {<<currentGeneration, q>>}
         /\ todo' = todo \ {q}
         /\ pc' = IF todo = {q} THEN "install" ELSE "rename"
  BY DEF RenameTmp
<1>4. TypeOK'
  <2>1. q \in Part /\ <<currentGeneration, q>> \in File
    BY <1>1 DEF FlusherType, File
  <2>2. DiskType' /\ FlusherType'
    BY <1>2, <1>3, <2>1 DEF DiskType, FlusherType
  <2> QED
    BY <1>2, <2>2 DEF MemType, CacheType, EngineType, WriterType, ObserverType
<1>5. OfflineInv' /\ OrderInv' /\ SendInv' /\ QueueInv' /\ RefInv'
  BY <1>1, <1>2, <1>3 DEF OfflineInv, OrderInv, SendInv, QueueInv, RefInv, Offline, Loading, Opened, Older,
                   Held, ImmSet
<1>6. WriterInv' /\ WalInv'
  BY <1>2 DEF WriterInv, WalInv
<1>7. GenerationInv'
  BY <1>1, <1>2, <1>3 DEF GenerationInv, Opened
<1>8. SnapshotInv'
  BY <1>1, <1>2, <1>3 DEF SnapshotInv, FlusherType
<1>9. StoreInv'
  <2>1. \A w \in sst[<<currentGeneration, q>>] : walOf[w] # NoFid
    BY <1>1 DEF SnapshotInv, Fid, NoFid
  <2>2. OnDisk' = OnDisk
    BY <1>2, <1>3, <2>1 DEF OnDisk, InFiles
  <2>3. Kept' = Kept /\ Held' = Held /\ InFiles(files)' = InFiles(files)
    BY <1>2, <2>2 DEF Kept, Held, ImmSet, InFiles
  <2>4. Opened
    BY <1>1 DEF OfflineInv, EngineType, Phases, Offline, Loading, Opened
  <2> QED
    BY <1>2, <2>3, <2>4 DEF StoreInv, Offline, Loading, Opened
<1>10. QueryInv'
  BY <1>2 DEF QueryInv, InFiles
<1>r. ReplayInv'
  BY <1>1, <1>2, ReplayFrame DEF OfflineInv
<1> QED
  BY <1>r, <1>4, <1>5, <1>6, <1>7, <1>8, <1>9, <1>10

(* Installing the files preserves the invariant. *)
LEMMA InstallInv ==
  ASSUME IInv, Install
  PROVE  IInv'
<1> USE DEF IInv, TypeOK, Install
<1>1. files \subseteq files' /\ files' \subseteq sstFiles
  BY DEF GenerationInv
<1>2. TypeOK'
  <2>1. EngineType'
    BY <1>1 DEF EngineType, DiskType
  <2> QED
    BY <2>1 DEF DiskType, MemType, CacheType, FlusherType, WriterType, ObserverType
<1>3. OfflineInv' /\ OrderInv' /\ SendInv' /\ QueueInv' /\ RefInv'
  BY DEF OfflineInv, OrderInv, SendInv, QueueInv, RefInv, Offline, Loading, Opened, Older, Held, ImmSet
<1>4. WriterInv' /\ WalInv' /\ GenerationInv'
  BY <1>1 DEF WriterInv, WalInv, GenerationInv, Opened
<1>5. SnapshotInv'
  BY DEF SnapshotInv, Snapshot
<1>6. StoreInv' /\ QueryInv'
  BY <1>1 DEF StoreInv, QueryInv, OfflineInv, Offline, Loading, Opened, Held, ImmSet, InFiles, OnDisk, Kept
<1>r. ReplayInv'
  BY ReplayFrame DEF OfflineInv
<1> QED
  BY <1>r, <1>2, <1>3, <1>4, <1>5, <1>6

(* OnMemTableFlushed preserves the invariant: the records it may drop are in installed files. *)
LEMMA OnMemTableFlushedInv ==
  ASSUME IInv, OnMemTableFlushed
  PROVE  IInv'
<1> USE DEF IInv, TypeOK
<1>1. pc = "flushed" /\ mt \in Fid /\ Opened /\ mt # NoFid
  <2>1. pc = "flushed" /\ mt \in Fid
    BY DEF OnMemTableFlushed, SnapshotInv
  <2> QED
    BY <2>1 DEF OfflineInv, Offline, Loading, Opened, EngineType, Phases, Fid, NoFid
<1>2. /\ UNCHANGED <<synced, sst, tmpFiles, sstFiles, mem, nextMemFid, flushCh, chClosed, iters,
                     engineVars, todo, clientVars, budget>>
      /\ pc' = "loop" /\ mt' = NoFid
      /\ \A x \in Writers : wpc[x] # "logged"
  BY DEF OnMemTableFlushed, MemManagerUnlocked
<1>r. ReplayInv'
  BY <1>1, <1>2, ReplayFrame DEF Opened
<1>3. CASE UNCHANGED <<imm, wg, refs, walFiles, walOf, cached>>
  <2> USE <1>1, <1>2, <1>3
  <2>1. TypeOK'
    BY DEF DiskType, MemType, CacheType, EngineType, FlusherType, WriterType, ObserverType
  <2>2. OfflineInv' /\ OrderInv' /\ SendInv' /\ QueueInv' /\ RefInv'
    BY DEF OfflineInv, OrderInv, SendInv, QueueInv, RefInv, Offline, Loading, Opened, Older, Held, ImmSet
  <2>3. WriterInv' /\ WalInv' /\ GenerationInv' /\ SnapshotInv'
    BY DEF WriterInv, WalInv, GenerationInv, SnapshotInv, Opened
  <2>4. StoreInv' /\ QueryInv'
    BY DEF StoreInv, QueryInv, Offline, Loading, Opened, Held, ImmSet, InFiles, OnDisk, Kept
  <2> QED
    BY <1>r, <2>1, <2>2, <2>3, <2>4
<1>4. CASE imm # <<>> /\ Head(imm) = mt /\ imm' = Tail(imm) /\ wg' = wg - 1 /\ Deref(mt)
  <2>1. /\ imm[1] = mt /\ Len(imm) \in Nat \ {0} /\ imm' \in Seq(Fid)
        /\ Len(imm') = Len(imm) - 1
        /\ \A i \in DOMAIN imm' : imm'[i] = imm[i + 1] /\ i + 1 \in DOMAIN imm
    BY <1>4, TailFacts DEF MemType
  <2>2. DOMAIN imm = 1..Len(imm) /\ DOMAIN imm' = 1..(Len(imm) - 1)
    BY <2>1 DEF MemType
  <2>3. \A i \in DOMAIN imm : i # 1 => \E j \in DOMAIN imm' : imm'[j] = imm[i]
    <3>1. ASSUME NEW i \in DOMAIN imm, i # 1
          PROVE  i - 1 \in DOMAIN imm' /\ imm'[i - 1] = imm[i]
      BY <2>1, <2>2, <3>1
    <3> QED
      BY <3>1
  <2>4. Held' \subseteq Held \ {mt} /\ Held \ {mt} \subseteq Held'
    <3>1. \A i \in DOMAIN imm' : imm'[i] # mt
      <4>1. ASSUME NEW i \in DOMAIN imm'
            PROVE  1 \in DOMAIN imm /\ i + 1 \in DOMAIN imm /\ 1 < i + 1
        BY <2>1, <2>2
      <4>2. \A i \in DOMAIN imm : imm[i] \in Fid
        BY DEF MemType
      <4> QED
        BY <2>1, <4>1, <4>2 DEF OrderInv, Fid
    <3>2. mem # mt
      BY <1>1 DEF OrderInv, Older, MemType, Fid, NoFid
    <3> QED
      BY <1>2, <2>1, <2>3, <3>1, <3>2 DEF Held, ImmSet
  <2>5. mt \in Held /\ refs[mt] > iters[mt] /\ refs[mt] > 0
    <3>1. mt \in Held
      BY <2>1, <2>2 DEF Held, ImmSet
    <3> QED
      BY <1>1, <3>1 DEF RefInv, CacheType
  <2>6. refs' = [refs EXCEPT ![mt] = @ - 1]
    BY <1>4 DEF Deref
  <2>7.  /\ walFiles' \subseteq walFiles /\ cached' \subseteq cached
         /\ walOf' \in [Write -> Fid \cup {NoFid}]
         /\ \A g \in walFiles : g # mt => g \in walFiles'
         /\ \A w \in Write : walOf'[w] = walOf[w] \/ (walOf[w] = mt /\ walOf'[w] = NoFid)
         /\ \A w \in Write : walOf'[w] = mt => walFiles' = walFiles
         /\ \A w \in cached : w \in cached' \/ walOf'[w] = NoFid
    BY <1>1, <1>4, <2>5, DerefFacts
  <2>8. wg \in Nat \ {0} /\ Len(imm) - Len(toSend) >= 1
    BY SMTT(30), <1>1, <2>1 DEF SendInv, MemType, EngineType, Fid
  <2> USE <1>1, <1>2
  <2>9. TypeOK'
    <3>1. DiskType' /\ CacheType'
      BY <2>5, <2>6, <2>7 DEF DiskType, CacheType
    <3>2. MemType'
      BY <1>4, <2>1, <2>8 DEF MemType
    <3> QED
      BY <3>1, <3>2 DEF EngineType, FlusherType, WriterType, ObserverType
  <2>10. OfflineInv'
    BY DEF OfflineInv, Offline, Loading, Opened
  <2>11. OrderInv'
    BY <2>1 DEF OrderInv, Older, MemType
  <2>12. SendInv'
    <3>1. ASSUME NEW i \in DOMAIN toSend
          PROVE  toSend[i] = imm'[i + Len(imm') - Len(toSend)]
      <4>1. i \in 1..Len(toSend) /\ Len(toSend) \in Nat
        BY DEF EngineType
      <4>2. i + Len(imm') - Len(toSend) \in DOMAIN imm'
        BY <2>1, <2>2, <2>8, <4>1
      <4>3. (i + Len(imm') - Len(toSend)) + 1 = i + Len(imm) - Len(toSend)
        BY <2>1, <4>1
      <4> QED
        BY <2>1, <4>2, <4>3 DEF SendInv
    <3>2. wg' + Len(toSend) = Len(imm')
      BY <1>4, <2>1, <2>8 DEF SendInv, EngineType
    <3> QED
      BY <3>1, <3>2 DEF SendInv
  <2>13. QueueInv'
    <3>1. ASSUME NEW i \in DOMAIN flushCh
          PROVE  flushCh[i] \in ImmSet'
      <4>1. mt < flushCh[i] /\ flushCh[i] \in ImmSet
        BY DEF QueueInv
      <4>2. PICK k \in DOMAIN imm : imm[k] = flushCh[i]
        BY <4>1 DEF ImmSet
      <4>3. k # 1
        BY <2>1, <4>1, <4>2 DEF Fid
      <4> QED
        BY <2>3, <4>2, <4>3 DEF ImmSet
    <3> QED
      BY <3>1 DEF QueueInv
  <2>14. RefInv'
    BY <2>4, <2>5, <2>6 DEF RefInv, CacheType, Held
  <2>15. GenerationInv' /\ SnapshotInv' /\ QueryInv'
    BY DEF GenerationInv, SnapshotInv, Opened, QueryInv, InFiles
  <2>w. WriterInv'
    <3>1. \A v \in Write : walOf'[v] # NoFid => walOf'[v] = walOf[v]
      BY <2>7
    <3>2. \A x \in Writers : wpc[x] # "logged"
      BY DEF MemManagerUnlocked
    <3> QED
      BY <3>1, <3>2 DEF WriterInv, WriterType
  <2>16. WalInv'
    <3>1. mem # mt
      BY DEF OrderInv, Older, MemType, Fid, NoFid
    <3> QED
      BY <2>7, <3>1 DEF WalInv, MemType
  <2>17. StoreInv'
    <3>1. \A w \in acked : walOf[w] = mt => w \in InFiles(files)
      BY DEF SnapshotInv, InFiles, WriterType
    <3>2. \A w \in Kept' : w \in Kept
      <4>1. OnDisk' \subseteq OnDisk
        BY <2>7 DEF OnDisk, InFiles
      <4> QED
        BY <4>1 DEF Kept
    <3>5. Opened
      BY DEF OfflineInv, EngineType, Phases, Offline, Loading, Opened
    <3>6. \A w \in Kept' : walOf'[w] \in Held' \/ w \in InFiles(files)
      BY <2>4, <2>7, <3>1, <3>2, <3>5 DEF StoreInv, WriterType, Kept
    <3>3. \A w \in acked : walOf'[w] # NoFid => w \in cached'
      BY <2>7, <3>5 DEF StoreInv, WriterType
    <3>4. InFiles(files)' = InFiles(files)
      BY DEF InFiles
    <3> QED
      BY <3>3, <3>4, <3>5, <3>6 DEF StoreInv, Offline, Loading, Opened
  <2> QED
    BY <1>r, <2>9, <2>10, <2>11, <2>12, <2>13, <2>14, <2>15, <2>16, <2>17, <2>w
<1> QED
  BY <1>3, <1>4 DEF OnMemTableFlushed

(* Closing an iterator preserves the invariant: the last reference is its own only if the
   memtable is no longer held. *)
LEMMA IterCloseInv ==
  ASSUME IInv, NEW f \in Fid, IterClose(f)
  PROVE  IInv'
<1> USE DEF IInv, TypeOK
<1>1. iters[f] > 0 /\ iters[f] \in Nat /\ Opened /\ refs[f] >= iters[f] /\ refs[f] > 0
  <2>1. iters[f] > 0 /\ iters[f] \in Nat
    BY DEF IterClose, CacheType
  <2>2. Opened
    BY <2>1 DEF OfflineInv, Offline, Loading, Opened, EngineType, Phases
  <2> QED
    BY <2>1, <2>2 DEF RefInv, CacheType
<1>2. UNCHANGED <<synced, sst, tmpFiles, sstFiles, mem, imm, nextMemFid, flushCh, chClosed, wg,
                   engineVars, flusherVars, clientVars, budget>>
  BY DEF IterClose
<1>3. iters' = [iters EXCEPT ![f] = @ - 1]
  BY DEF IterClose
<1>4. refs' = [refs EXCEPT ![f] = @ - 1]
  BY DEF IterClose, Deref
<1>5.    /\ walFiles' \subseteq walFiles /\ cached' \subseteq cached
         /\ walOf' \in [Write -> Fid \cup {NoFid}]
         /\ \A g \in walFiles : g # f => g \in walFiles'
         /\ \A w \in Write : walOf'[w] = walOf[w] \/ (walOf[w] = f /\ walOf'[w] = NoFid)
         /\ \A w \in Write : walOf'[w] = f => walFiles' = walFiles
         /\ \A w \in cached : w \in cached' \/ walOf'[w] = NoFid
         /\ refs[f] > 1 => UNCHANGED <<walFiles, walOf, cached>>
  BY <1>1, DerefFacts DEF IterClose
<1>6. f \in Held => UNCHANGED <<walFiles, walOf, cached>>
  BY <1>1, <1>5 DEF RefInv, CacheType
<1> USE <1>1, <1>2
<1>7. TypeOK'
  <2>1. DiskType' /\ CacheType'
    BY <1>3, <1>4, <1>5 DEF DiskType, CacheType
  <2> QED
    BY <2>1 DEF MemType, EngineType, FlusherType, WriterType, ObserverType
<1>8. OfflineInv' /\ SendInv' /\ QueueInv'
  BY DEF OfflineInv, SendInv, QueueInv, ImmSet, Offline, Loading, Opened
<1>9. OrderInv'
  BY <1>3 DEF OrderInv, Older, CacheType
<1>10. RefInv'
  <2>1. Held' = Held
    BY DEF Held, ImmSet
  <2>2. \A g \in Fid : refs'[g] >= iters'[g]
    BY <1>3, <1>4 DEF RefInv, CacheType
  <2>3. \A g \in Held' : refs'[g] > iters'[g]
    BY <1>3, <1>4, <2>1 DEF RefInv, CacheType
  <2>4. pc' = "encode" => iters'[mt'] > 0
    BY <1>3 DEF IterClose, RefInv, CacheType, SnapshotInv
  <2> QED
    BY <2>2, <2>3, <2>4 DEF RefInv
<1>11. WriterInv'
  <2>1. \A v \in Write : walOf'[v] # NoFid => walOf'[v] = walOf[v]
    BY <1>5
  <2>2. \A x \in Writers : wpc[x] = "logged" => walOf'[wid[x]] = mem
    BY <1>5, <1>6 DEF WriterInv, Held
  <2> QED
    BY <2>1, <2>2 DEF WriterInv, WriterType
<1>12. WalInv'
  BY <1>5, <1>6 DEF WalInv, Held, MemType
<1>13. GenerationInv' /\ QueryInv'
  BY DEF GenerationInv, QueryInv, Opened, InFiles
<1>14. SnapshotInv'
  <2>1. pc \in {"rename", "install", "flushed"} => mt \in Held /\ mt # NoFid
    BY DEF SnapshotInv, QueueInv, Held, Fid, NoFid
  <2>2. pc = "rename" => \A q \in todo : sst[<<currentGeneration, q>>] \subseteq Write
    BY DEF GenerationInv, DiskType, FlusherType, File
  <2>3. ASSUME pc = "rename", NEW q \in todo, NEW w \in sst[<<currentGeneration, q>>]
        PROVE  walOf'[w] = mt
    <3>1. walOf[w] = mt /\ w \in Write
      BY <2>2, <2>3 DEF SnapshotInv
    <3> QED
      BY <1>5, <1>6, <2>1, <2>3, <3>1
  <2>4. \A w \in acked : walOf'[w] = mt /\ mt # NoFid => walOf[w] = mt
    BY <1>5 DEF WriterType
  <2> QED
    BY <2>1, <2>3, <2>4 DEF SnapshotInv
<1>15. StoreInv'
  <2>1. Held' = Held /\ InFiles(files)' = InFiles(files)
    BY DEF Held, ImmSet, InFiles
  <2>4. OnDisk' \subseteq OnDisk
    BY <1>5 DEF OnDisk, InFiles
  <2>5. \A w \in Kept' : w \in Kept /\ w \in Write
    BY <2>4 DEF Kept, WriterType
  <2>2. \A w \in Kept' : walOf'[w] \in Held \/ w \in InFiles(files)
    BY <1>5, <1>6, <2>5 DEF StoreInv
  <2>3. \A w \in acked : walOf'[w] # NoFid => w \in cached'
    BY <1>5 DEF StoreInv, Opened, WriterType
  <2> QED
    BY <2>1, <2>2, <2>3 DEF StoreInv, Offline, Loading, Opened
<1>r. ReplayInv'
  BY ReplayFrame DEF Opened
<1> QED
  BY <1>r, <1>7, <1>8, <1>9, <1>10, <1>11, <1>12, <1>13, <1>14, <1>15

(* Enabling and disabling snapshots preserves the invariant. *)
LEMMA ToggleInv ==
  ASSUME IInv, DisableSnapshots \/ DisableSnapshotsDone \/ EnableSnapshots
  PROVE  IInv'
<1> USE DEF IInv, TypeOK
<1>1. /\ UNCHANGED <<diskVars, memVars, phase, toSend, globbed, files, currentGeneration, mt, todo,
                     clientVars, replay>>
      /\ snapDone' \in {"nil", "open", "closed"}
      /\ pc' = pc \/ (pc' = "loop" /\ phase = "up")
      /\ budget' = budget \/ Spend("toggle")
  BY DEF DisableSnapshots, DisableSnapshotsDone, EnableSnapshots
<1>2. snapshotsEnabled' \in BOOLEAN
  <2>1. snapshotsEnabled' = snapshotsEnabled \/ snapshotsEnabled' = TRUE \/ snapshotsEnabled' = FALSE
    BY DEF DisableSnapshots, DisableSnapshotsDone, EnableSnapshots
  <2> QED
    BY <2>1, Zenon DEF EngineType
<1>3. TypeOK'
  <2>1. ObserverType'
    BY <1>1, ConstantsAssumption DEF ObserverType, Spend
  <2>2. EngineType'
    BY <1>1, <1>2 DEF EngineType
  <2> QED
    BY <1>1, <2>1, <2>2 DEF DiskType, MemType, CacheType, FlusherType, WriterType
<1>4. OfflineInv' /\ OrderInv' /\ SendInv' /\ QueueInv' /\ RefInv'
  BY <1>1 DEF OfflineInv, OrderInv, SendInv, QueueInv, RefInv, Offline, Loading, Opened, Older, Held, ImmSet
<1>5. WriterInv' /\ WalInv' /\ GenerationInv' /\ SnapshotInv'
  BY <1>1 DEF WriterInv, WalInv, GenerationInv, SnapshotInv, Opened
<1>6. StoreInv' /\ QueryInv'
  BY <1>1 DEF StoreInv, QueryInv, Offline, Loading, Opened, Held, ImmSet, InFiles, OnDisk, Kept
<1>r. ReplayInv'
  BY <1>1 DEF ReplayInv, Replayed, Rewritten, Unread, LoggedIn, ImmSet
<1> QED
  BY <1>r, <1>3, <1>4, <1>5, <1>6

(* While restoreMemTables runs, no other goroutine does. *)
LEMMA ReplayAlone ==
  ASSUME IInv, phase \in {"down", "replaying"}
  PROVE  /\ mem = NoFid /\ pc = "off" /\ mt = NoFid /\ flushCh = <<>> /\ toSend = <<>> /\ wg = 0
         /\ iters = [f \in Fid |-> 0] /\ query.pc = "idle"
         /\ \A x \in Writers : wpc[x] = "idle"
  BY DEF IInv, OfflineInv, Offline

(* A step of restoreMemTables preserves what is said of the flush goroutine and queries. *)
LEMMA ReplayQuiet ==
  ASSUME IInv, phase \in {"down", "replaying"}, phase' \in {"replaying", "restored", "broken"},
         phase' = "broken" => imm' = <<>>,
         UNCHANGED <<sst, tmpFiles, sstFiles, mem, flushCh, chClosed, wg, iters, toSend, globbed,
                     snapDone, snapshotsEnabled, files, currentGeneration, flusherVars, wpc, wid,
                     nWrites, acked, conflicts, query, budget>>
  PROVE  OfflineInv' /\ SendInv' /\ QueueInv' /\ GenerationInv' /\ SnapshotInv' /\ QueryInv'
<1>1. /\ mem = NoFid /\ pc = "off" /\ mt = NoFid /\ flushCh = <<>> /\ toSend = <<>> /\ wg = 0
      /\ iters = [f \in Fid |-> 0] /\ query.pc = "idle"
      /\ \A x \in Writers : wpc[x] = "idle"
  BY ReplayAlone
<1>2. OfflineInv'
  BY <1>1 DEF OfflineInv, Offline, Loading
<1>3. SendInv' /\ QueueInv'
  BY <1>1 DEF SendInv, QueueInv, Opened
<1>4. GenerationInv' /\ SnapshotInv' /\ QueryInv'
  BY <1>1 DEF IInv, GenerationInv, SnapshotInv, QueryInv, Opened
<1> QED
  BY <1>2, <1>3, <1>4

(* The types a step of restoreMemTables leaves alone. *)
LEMMA ReplayTypes ==
  ASSUME TypeOK, DiskType', MemType', CacheType', phase' \in Phases,
         replay' \in [fid : Fid \cup {NoFid}, at : Places], exposed' \subseteq Write,
         UNCHANGED <<toSend, globbed, snapDone, snapshotsEnabled, files, currentGeneration,
                     flusherVars, wpc, wid, nWrites, acked, conflicts, query, budget>>
  PROVE  TypeOK'
<1> USE DEF TypeOK
<1>1. EngineType'
  BY DEF EngineType
<1>2. WriterType' /\ FlusherType' /\ ObserverType'
  BY DEF WriterType, FlusherType, ObserverType
<1> QED
  BY <1>1, <1>2

(* NewEngine begins: nothing is replayed yet. *)
LEMMA NewEngineInv ==
  ASSUME IInv, NewEngine
  PROVE  IInv'
<1> USE DEF IInv
<1>1. /\ phase = "down" /\ phase' = "replaying" /\ replay' = NoReplay
      /\ UNCHANGED <<diskVars, memVars, toSend, globbed, snapDone, snapshotsEnabled, files,
                     currentGeneration, flusherVars, clientVars, budget>>
  BY DEF NewEngine
<1>2. imm = <<>>
  BY <1>1 DEF OfflineInv, Offline
<1>3. TypeOK'
  <2>1. replay' \in [fid : Fid \cup {NoFid}, at : Places]
    BY <1>1 DEF NoReplay, Places
  <2>2. phase' \in Phases /\ exposed' \subseteq Write
    BY <1>1 DEF Phases, TypeOK, WriterType
  <2>3. DiskType' /\ MemType' /\ CacheType'
    BY <1>1 DEF TypeOK, DiskType, MemType, CacheType
  <2> QED
    BY <1>1, <2>1, <2>2, <2>3, ReplayTypes
<1>4. OfflineInv' /\ SendInv' /\ QueueInv' /\ GenerationInv' /\ SnapshotInv' /\ QueryInv'
  BY <1>1, ReplayQuiet
<1>5. OrderInv' /\ RefInv'
  BY <1>1 DEF OrderInv, Older, RefInv, Held, ImmSet
<1>6. WriterInv' /\ WalInv'
  BY <1>1 DEF WriterInv, WalInv
<1>7. StoreInv'
  BY <1>1 DEF StoreInv, Offline, Loading, Opened, OnDisk, InFiles
<1>8. ReplayInv'
  <2>1. \A w \in Write : walOf[w] \in Fid \cup {NoFid}
    BY DEF TypeOK, DiskType
  <2>2. \A f \in Fid : ~(f < 0) /\ f # 0
    BY DEF Fid
  <2>3. ImmSet' = {}
    BY <1>1, <1>2 DEF ImmSet
  <2>4. replay'.fid = 0 /\ replay'.at = "closed"
    BY <1>1 DEF NoReplay, NoFid
  <2> QED
    BY <1>1, <2>1, <2>2, <2>3, <2>4 DEF ReplayInv, Replayed, NoFid
<1> QED
  BY <1>3, <1>4, <1>5, <1>6, <1>7, <1>8

(* OpenMemTable preserves the invariant: the WALs below the one it opens have been read. *)
LEMMA OpenMemTableInv ==
  ASSUME IInv, OpenMemTable
  PROVE  IInv'
<1> USE DEF IInv
<1>1. PICK f \in walFiles :
        /\ replay.fid < f
        /\ \A g \in walFiles : replay.fid < g => f <= g
        /\ replay' = [fid |-> f, at |-> "level"]
        /\ refs' = [refs EXCEPT ![f] = 1]
        /\ exposed' = exposed \cup Rewritten(f)
  BY DEF OpenMemTable
<1>2. /\ phase = "replaying" /\ replay.at = "closed"
      /\ UNCHANGED <<diskVars, mem, imm, nextMemFid, flushCh, chClosed, wg, cached, iters, phase,
                     toSend, globbed, snapDone, snapshotsEnabled, files, currentGeneration,
                     flusherVars, wpc, wid, nWrites, acked, conflicts, query, budget>>
  BY DEF OpenMemTable
<1>3. f \in Fid /\ replay.fid \in Fid \cup {NoFid} /\ replay'.fid = f /\ replay'.at = "level"
  BY <1>1 DEF TypeOK, DiskType, EngineType
<1>4. mem = NoFid /\ flushCh = <<>> /\ mt = NoFid /\ iters = [g \in Fid |-> 0]
      /\ \A x \in Writers : wpc[x] = "idle"
  BY <1>2, ReplayAlone
<1>5. TypeOK'
  <2>1. replay' \in [fid : Fid \cup {NoFid}, at : Places]
    BY <1>1, <1>3 DEF Places
  <2>2. phase' \in Phases /\ exposed' \subseteq Write
    BY <1>1, <1>2 DEF Phases, TypeOK, WriterType, Rewritten, LoggedIn
  <2>3. DiskType' /\ MemType' /\ CacheType'
    BY <1>1, <1>2 DEF TypeOK, DiskType, MemType, CacheType
  <2> QED
    BY <1>2, <2>1, <2>2, <2>3, ReplayTypes
<1>6. OfflineInv' /\ SendInv' /\ QueueInv' /\ GenerationInv' /\ SnapshotInv' /\ QueryInv'
  BY <1>2, ReplayQuiet
<1>7. OrderInv'
  BY <1>2, <1>4 DEF OrderInv, Older
<1>8. RefInv'
  <2>1. Held' = Held /\ Held \subseteq Fid
    BY <1>2, HeldType DEF Held, ImmSet, TypeOK
  <2> QED
    BY <1>1, <1>2, <1>3, <1>4, <2>1 DEF RefInv, TypeOK, CacheType
<1>9. WriterInv' /\ WalInv'
  BY <1>1, <1>2, <1>4 DEF WriterInv, WalInv
<1>10. StoreInv'
  BY <1>1, <1>2 DEF StoreInv, Offline, Loading, Opened, OnDisk, InFiles
<1>11. ReplayInv'
  <2>1. f \in walFiles' /\ refs'[f] = 1
    BY <1>1, <1>2, <1>3 DEF TypeOK, CacheType
  <2>2. ASSUME NEW g \in ImmSet PROVE g < f
    <3>1. g \in Fid /\ Replayed(g)
      BY <1>2 DEF ReplayInv, ImmSet, TypeOK, MemType
    <3> QED
      BY <1>1, <1>2, <1>3, <3>1 DEF Replayed, Fid, NoFid
  <2>3. ASSUME NEW w \in Write, walOf[w] # NoFid, walOf[w] < f
        PROVE  w \in cached /\ walOf[w] \in ImmSet
    <3>1. walOf[w] \in walFiles /\ walOf[w] \in Fid
      BY <2>3 DEF WalInv, TypeOK, DiskType
    <3>2. ~(replay.fid < walOf[w])
      BY <1>1, <1>3, <2>3, <3>1 DEF Fid
    <3>3. Replayed(walOf[w])
      BY <1>2, <1>3, <3>1, <3>2 DEF Replayed, Fid, NoFid
    <3> QED
      BY <1>2, <2>3, <3>3 DEF ReplayInv
  <2>4. Rewritten(f)' \subseteq exposed'
    BY <1>1, <1>2 DEF Rewritten, LoggedIn
  <2>5. ImmSet' = ImmSet /\ walOf' = walOf /\ cached' = cached /\ phase' = "replaying"
    BY <1>2 DEF ImmSet
  <2>6. \A g : Replayed(g)' <=> g < f
    BY <1>3 DEF Replayed
  <2> QED
    BY <1>3, <2>1, <2>2, <2>3, <2>4, <2>5, <2>6 DEF ReplayInv
<1> QED
  BY <1>5, <1>6, <1>7, <1>8, <1>9, <1>10, <1>11

(* Logging the next unread record again: what can be damaged by it is exposed. *)
LEMMA RelogFacts ==
  ASSUME IInv, phase = "replaying", NEW w \in Write, NextUnread(w)
  PROVE  /\ replay.at # "closed" /\ walOf[w] = replay.fid /\ replay.fid \in Fid
         /\ Relogged(w) \subseteq synced
         /\ SyncWrite => \A a \in acked \ exposed, u \in Write :
              walOf[a] # NoFid /\ walOf[u] = walOf[a] /\ u <= a => u \in Relogged(w)
         /\ \A at \in Drift(w) : at \in Places \ {"closed"}
         /\ \A at \in Drift(w) : at # "level" => Unread \subseteq Rewritten(replay.fid)
<1> USE DEF IInv
<1>1. replay.at # "closed" /\ walOf[w] = replay.fid /\ w \in Unread
  BY DEF NextUnread, Unread, LoggedIn
<1>2. replay.fid \in Fid /\ Rewritten(replay.fid) \subseteq exposed
  BY <1>1 DEF ReplayInv, TypeOK, DiskType
<1>3. replay.at \in Places
  BY DEF TypeOK, EngineType
<1>4. replay.at # "level" => Unread \subseteq Rewritten(replay.fid)
  BY <1>1, <1>3 DEF ReplayInv, Places
<1>5. \A v \in Unread : v \in Write /\ walOf[v] = replay.fid /\ w <= v
  BY <1>1 DEF NextUnread, Unread, LoggedIn
<1>6. w \in Uneven => Unread \subseteq Rewritten(replay.fid)
  BY <1>1, <1>5 DEF Rewritten, LoggedIn
<1>7. /\ \A at \in Drift(w) : at \in Places \ {"closed"}
      /\ \A at \in Drift(w) : at # "level" => Unread \subseteq Rewritten(replay.fid)
  BY <1>1, <1>3, <1>4, <1>6 DEF Drift
<1>8. ASSUME SyncWrite, NEW a \in acked \ exposed, NEW u \in Write,
             walOf[a] # NoFid, walOf[u] = walOf[a], u <= a
      PROVE  u \in Relogged(w)
  <2>1. u \in synced
    BY <1>8 DEF WriterInv
  <2>2. CASE w \in Uneven \/ replay.at # "level"
    <3>1. w \in Rewritten(replay.fid)
      BY <1>1, <1>4, <1>6, <2>2
    <3>2. SUFFICES ASSUME u = w PROVE FALSE
      BY <2>1, <2>2 DEF Relogged
    <3>3. PICK v \in Uneven \cap LoggedIn(replay.fid) : v <= w
      BY <3>1 DEF Rewritten
    <3>4. a \in LoggedIn(replay.fid) /\ v \in Nat /\ w \in Nat /\ a \in Nat
      BY <1>1, <1>8, <3>2 DEF LoggedIn, Write, TypeOK, WriterType
    <3>5. v <= a
      BY <1>8, <3>2, <3>3, <3>4
    <3> QED
      BY <1>2, <1>8, <3>3, <3>4, <3>5 DEF Rewritten
  <2>3. CASE ~(w \in Uneven \/ replay.at # "level")
    BY <2>1, <2>3 DEF Relogged
  <2> QED
    BY <2>2, <2>3
<1> QED
  BY <1>1, <1>2, <1>7, <1>8 DEF Relogged

(* Replaying a record preserves the invariant: the records its copy can damage are exposed. *)
LEMMA ReplayRecordInv ==
  ASSUME IInv, ReplayRecord
  PROVE  IInv'
<1> USE DEF IInv
<1>1. PICK w \in Write \ conflicts :
        /\ NextUnread(w)
        /\ cached' = cached \cup {w}
        /\ synced' = Relogged(w)
        /\ \E at \in Drift(w) : replay' = [replay EXCEPT !.at = at]
  BY DEF ReplayRecord
<1>2. /\ phase = "replaying"
      /\ UNCHANGED <<walFiles, walOf, sst, tmpFiles, sstFiles, mem, imm, nextMemFid, flushCh,
                     chClosed, wg, refs, iters, phase, toSend, globbed, snapDone,
                     snapshotsEnabled, files, currentGeneration, flusherVars, clientVars, budget>>
  BY DEF ReplayRecord
<1>3. /\ replay.at # "closed" /\ walOf[w] = replay.fid /\ replay.fid \in Fid
      /\ Relogged(w) \subseteq synced
      /\ SyncWrite => \A a \in acked \ exposed, u \in Write :
           walOf[a] # NoFid /\ walOf[u] = walOf[a] /\ u <= a => u \in Relogged(w)
      /\ \A at \in Drift(w) : at \in Places \ {"closed"}
      /\ \A at \in Drift(w) : at # "level" => Unread \subseteq Rewritten(replay.fid)
  BY <1>1, <1>2, RelogFacts
<1>4. PICK at \in Drift(w) : replay' = [replay EXCEPT !.at = at]
  BY <1>1
<1>5. replay'.fid = replay.fid /\ replay'.at = at /\ at # "closed"
  BY <1>3, <1>4 DEF TypeOK, EngineType
<1>6. TypeOK'
  <2>1. replay' \in [fid : Fid \cup {NoFid}, at : Places]
    <3>1. at \in Places /\ replay \in [fid : Fid \cup {NoFid}, at : Places]
      BY <1>3, <1>4 DEF TypeOK, EngineType
    <3> QED
      BY <1>4, <3>1
  <2>2. phase' \in Phases /\ exposed' \subseteq Write
    BY <1>2 DEF Phases, TypeOK, WriterType
  <2>3. DiskType' /\ MemType' /\ CacheType'
    BY <1>1, <1>2, <1>3 DEF TypeOK, DiskType, MemType, CacheType
  <2> QED
    BY <1>2, <2>1, <2>2, <2>3, ReplayTypes
<1>7. OfflineInv' /\ SendInv' /\ QueueInv' /\ GenerationInv' /\ SnapshotInv' /\ QueryInv'
  BY <1>2, ReplayQuiet
<1>8. OrderInv' /\ RefInv' /\ WalInv'
  BY <1>2 DEF OrderInv, Older, RefInv, Held, ImmSet, WalInv
<1>9. WriterInv'
  BY <1>1, <1>2, <1>3 DEF WriterInv
<1>10. StoreInv'
  BY <1>2 DEF StoreInv, Offline, Loading, Opened, OnDisk, InFiles
<1>11. ReplayInv'
  <2>1. \A f : Replayed(f)' <=> Replayed(f)
    BY <1>3, <1>5, Zenon DEF Replayed
  <2>2. Rewritten(replay.fid)' = Rewritten(replay.fid) /\ ImmSet' = ImmSet
    BY <1>2, <1>5 DEF Rewritten, LoggedIn, ImmSet
  <2>3. Unread' \subseteq Unread
    BY <1>1, <1>2, <1>3, <1>5 DEF Unread, LoggedIn
  <2>4. replay'.at \in {"behind", "ahead"} => Unread' \subseteq Rewritten(replay.fid)'
    BY <1>3, <1>5, <2>2, <2>3
  <2> QED
    BY <1>1, <1>2, <1>3, <1>5, <2>1, <2>2, <2>4 DEF ReplayInv
<1> QED
  BY <1>6, <1>7, <1>8, <1>9, <1>10, <1>11

(* What a cut removes from a log. *)
LEMMA CutFacts ==
  ASSUME DiskType, NEW lost, CutOff(lost)
  PROVE  /\ walOf' \in [Write -> Fid \cup {NoFid}]
         /\ \A w \in Write : walOf'[w] = IF w \in lost THEN NoFid ELSE walOf[w]
  BY DEF CutOff, DiskType

(* A replay that ends early preserves the invariant: all that it loses is exposed. *)
LEMMA ReplayBreaksInv ==
  ASSUME IInv, ReplayBreaks
  PROVE  IInv'
<1> USE DEF IInv
<1>1. /\ phase = "replaying" /\ replay.at = "ahead" /\ CutOff(Unread)
      /\ UNCHANGED <<walFiles, synced, sst, tmpFiles, sstFiles, memVars, engineVars, flusherVars,
                     clientVars, budget>>
  BY DEF ReplayBreaks
<1>2. /\ walOf' \in [Write -> Fid \cup {NoFid}]
      /\ \A w \in Write : walOf'[w] = IF w \in Unread THEN NoFid ELSE walOf[w]
  BY <1>1, CutFacts DEF TypeOK
<1>3. /\ Unread \subseteq Rewritten(replay.fid) /\ Rewritten(replay.fid) \subseteq exposed
      /\ replay.fid \in Fid /\ replay.fid # NoFid
  <2>1. replay.at # "closed"
    BY <1>1
  <2> QED
    <3>1. replay.fid \in Fid /\ Unread \subseteq Rewritten(replay.fid)
          /\ Rewritten(replay.fid) \subseteq exposed
      BY <1>1, <2>1 DEF ReplayInv, TypeOK, DiskType
    <3> QED
      BY <3>1 DEF Fid, NoFid
<1>4. TypeOK'
  <2>1. replay' \in [fid : Fid \cup {NoFid}, at : Places]
    BY <1>1 DEF TypeOK, EngineType
  <2>2. phase' \in Phases /\ exposed' \subseteq Write
    BY <1>1 DEF Phases, TypeOK, WriterType
  <2>3. DiskType' /\ MemType' /\ CacheType'
    BY <1>1, <1>2 DEF TypeOK, DiskType, MemType, CacheType
  <2> QED
    BY <1>1, <2>1, <2>2, <2>3, ReplayTypes
<1>5. OfflineInv' /\ SendInv' /\ QueueInv' /\ GenerationInv' /\ SnapshotInv' /\ QueryInv'
  BY <1>1, ReplayQuiet
<1>6. OrderInv' /\ RefInv' /\ WalInv'
  BY <1>1, <1>2 DEF OrderInv, Older, RefInv, Held, ImmSet, WalInv
<1>7. WriterInv'
  <2>1. \A x \in Writers : wpc[x] = "idle"
    BY <1>1, ReplayAlone
  <2> QED
    BY <1>1, <1>2, <2>1 DEF WriterInv, TypeOK, WriterType
<1>8. StoreInv'
  <2>1. \A w \in acked \ exposed : w \in Write /\ walOf'[w] = walOf[w]
    BY <1>2, <1>3 DEF TypeOK, WriterType
  <2>2. InFiles(sstFiles)' = InFiles(sstFiles)
    BY <1>1 DEF InFiles
  <2>3. acked \ exposed \subseteq OnDisk'
    BY <1>1, <2>1, <2>2 DEF StoreInv, OnDisk
  <2> QED
    BY <1>1, <2>3 DEF StoreInv, Offline, Loading, Opened
<1>9. ReplayInv'
  <2>1. Unread' = {}
    BY <1>1, <1>2, <1>3 DEF Unread, LoggedIn
  <2>2. Rewritten(replay.fid)' \subseteq Rewritten(replay.fid)
    BY <1>1, <1>2, <1>3 DEF Rewritten, LoggedIn
  <2>3. ImmSet' = ImmSet /\ \A f : Replayed(f)' <=> Replayed(f)
    BY <1>1 DEF ImmSet, Replayed
  <2> QED
    BY <1>1, <1>2, <1>3, <2>1, <2>2, <2>3 DEF ReplayInv
<1> QED
  BY <1>4, <1>5, <1>6, <1>7, <1>8, <1>9

(* A NewEngine that fails preserves the invariant: what it has damaged is exposed. *)
LEMMA RestoreFailsInv ==
  ASSUME IInv, RestoreFails
  PROVE  IInv'
<1> USE DEF IInv
<1>1. PICK w \in conflicts :
        /\ NextUnread(w)
        /\ synced' = Relogged(w)
        /\ \E at \in Drift(w) : CutOff(IF at = "level" THEN {} ELSE Unread \ {w})
  BY DEF RestoreFails
<1>2. /\ phase = "replaying" /\ phase' = "broken" /\ replay' = NoReplay
      /\ imm' = <<>> /\ cached' = {} /\ refs' = [f \in Fid |-> 0]
      /\ UNCHANGED <<walFiles, sst, tmpFiles, sstFiles, mem, nextMemFid, flushCh, chClosed, wg,
                     iters, toSend, globbed, snapDone, snapshotsEnabled, files,
                     currentGeneration, flusherVars, clientVars, budget>>
  BY DEF RestoreFails
<1>3. /\ replay.at # "closed" /\ Relogged(w) \subseteq synced
      /\ SyncWrite => \A a \in acked \ exposed, u \in Write :
           walOf[a] # NoFid /\ walOf[u] = walOf[a] /\ u <= a => u \in Relogged(w)
      /\ \A at \in Drift(w) : at # "level" => Unread \subseteq Rewritten(replay.fid)
  <2>1. w \in Write
    BY DEF TypeOK, WriterType
  <2>2. \A at \in Drift(w) : at # "level" => Unread \subseteq Rewritten(replay.fid)
    BY <1>1, <1>2, <2>1, RelogFacts
  <2> QED
    BY <1>1, <1>2, <2>1, <2>2, RelogFacts
<1>4. PICK lost \in SUBSET exposed : CutOff(lost)
  <2>1. Rewritten(replay.fid) \subseteq exposed
    BY <1>3 DEF ReplayInv
  <2> QED
    BY <1>1, <1>3, <2>1
<1>5. /\ walOf' \in [Write -> Fid \cup {NoFid}]
      /\ \A v \in Write : walOf'[v] = IF v \in lost THEN NoFid ELSE walOf[v]
  BY <1>4, CutFacts DEF TypeOK
<1>6. mem = NoFid /\ flushCh = <<>> /\ mt = NoFid /\ iters = [g \in Fid |-> 0]
      /\ \A x \in Writers : wpc[x] = "idle"
  BY <1>2, ReplayAlone
<1>7. TypeOK'
  <2>1. replay' \in [fid : Fid \cup {NoFid}, at : Places]
    BY <1>2 DEF NoReplay, Places
  <2>2. phase' \in Phases /\ exposed' \subseteq Write
    BY <1>2 DEF Phases, TypeOK, WriterType
  <2>3. DiskType' /\ MemType' /\ CacheType'
    BY <1>1, <1>2, <1>3, <1>5 DEF TypeOK, DiskType, MemType, CacheType
  <2> QED
    BY <1>2, <2>1, <2>2, <2>3, ReplayTypes
<1>8. OfflineInv' /\ SendInv' /\ QueueInv' /\ GenerationInv' /\ SnapshotInv' /\ QueryInv'
  BY <1>2, ReplayQuiet
<1>9. OrderInv' /\ RefInv' /\ WalInv'
  BY <1>2, <1>5, <1>6 DEF OrderInv, Older, RefInv, Held, ImmSet, WalInv
<1>10. WriterInv'
  <2>1. SyncWrite => \A a \in acked \ exposed, u \in Write :
          walOf'[a] # NoFid /\ walOf'[u] = walOf'[a] /\ u <= a => u \in synced'
    BY <1>1, <1>3, <1>5 DEF TypeOK, WriterType
  <2> QED
    BY <1>2, <1>6, <2>1 DEF WriterInv
<1>11. StoreInv'
  <2>1. \A v \in acked \ exposed : v \in Write /\ walOf'[v] = walOf[v]
    BY <1>5 DEF TypeOK, WriterType
  <2>2. InFiles(sstFiles)' = InFiles(sstFiles)
    BY <1>2 DEF InFiles
  <2>3. acked \ exposed \subseteq OnDisk'
    BY <1>2, <2>1, <2>2 DEF StoreInv, OnDisk
  <2> QED
    BY <1>2, <2>3 DEF StoreInv, Offline, Loading, Opened
<1>12. ReplayInv'
  BY <1>2 DEF ReplayInv, NoReplay
<1> QED
  BY <1>7, <1>8, <1>9, <1>10, <1>11, <1>12

(* Keeping or releasing a restored memtable preserves the invariant: every record of its
   log has been read. *)
LEMMA AddRestoredInv ==
  ASSUME IInv, AddRestored
  PROVE  IInv'
<1> USE DEF IInv
<1> DEFINE f == replay.fid
<1>1. /\ phase = "replaying" /\ replay.at # "closed" /\ Unread = {}
      /\ replay' = [replay EXCEPT !.at = "closed"]
      /\ UNCHANGED <<synced, sst, tmpFiles, sstFiles, mem, nextMemFid, flushCh, chClosed, wg,
                     iters, phase, toSend, globbed, snapDone, snapshotsEnabled, files,
                     currentGeneration, flusherVars, clientVars, budget>>
  BY DEF AddRestored
<1>2. f \in Fid /\ f \in walFiles /\ refs[f] > 0 /\ replay'.fid = f /\ replay'.at = "closed"
  BY <1>1 DEF ReplayInv, TypeOK, DiskType, EngineType
<1>3. mem = NoFid /\ flushCh = <<>> /\ mt = NoFid /\ iters = [g \in Fid |-> 0]
      /\ \A x \in Writers : wpc[x] = "idle"
  BY <1>1, ReplayAlone
<1>4. \A w \in Write : walOf[w] = f => w \in cached
  BY <1>1 DEF Unread, LoggedIn
<1>5. ImmSet \subseteq Fid /\ \A g \in ImmSet : g < f
  <2>1. ImmSet \subseteq Fid
    BY DEF ImmSet, TypeOK, MemType
  <2> QED
    BY <1>1, <1>2, <2>1 DEF ReplayInv, Replayed, Fid
<1>6. \A g \in Fid : Replayed(g)' <=> g <= f
  BY <1>2 DEF Replayed, Fid
<1> HIDE DEF f
<1>7. replay' \in [fid : Fid \cup {NoFid}, at : Places] /\ phase' \in Phases /\ exposed' \subseteq Write
  BY <1>1 DEF TypeOK, EngineType, Places, Phases, WriterType
<1>8. CASE InTable(f) = {} /\ Deref(f) /\ UNCHANGED imm
  <2>1. /\ walFiles' \subseteq walFiles /\ cached' \subseteq cached
        /\ walOf' \in [Write -> Fid \cup {NoFid}]
        /\ \A g \in walFiles : g # f => g \in walFiles'
        /\ \A w \in Write : walOf'[w] = walOf[w] \/ (walOf[w] = f /\ walOf'[w] = NoFid)
        /\ \A w \in cached : w \in cached' \/ walOf'[w] = NoFid
    BY <1>2, <1>8, DerefFacts
  <2>2. refs' = [refs EXCEPT ![f] = @ - 1]
    BY <1>8 DEF Deref
  <2>3. \A w \in Write : walOf[w] # f
    BY <1>4, <1>8 DEF InTable
  <2>4. \A w \in Write : walOf'[w] = walOf[w]
    BY <2>1, <2>3
  <2>5. TypeOK'
    <3>1. DiskType' /\ MemType'
      BY <1>1, <1>8, <2>1 DEF TypeOK, DiskType, MemType
    <3>2. CacheType'
      BY <1>1, <1>2, <2>1, <2>2 DEF TypeOK, CacheType
    <3> QED
      BY <1>1, <1>7, <3>1, <3>2, ReplayTypes
  <2>6. OfflineInv' /\ SendInv' /\ QueueInv' /\ GenerationInv' /\ SnapshotInv' /\ QueryInv'
    BY <1>1, ReplayQuiet
  <2>7. OrderInv'
    BY <1>1, <1>3, <1>8 DEF OrderInv, Older
  <2>8. RefInv'
    <3>1. Held' = ImmSet /\ Held = ImmSet
      BY <1>1, <1>3, <1>8 DEF Held, ImmSet
    <3>2. \A g \in Fid : refs'[g] >= 0
      BY <1>2, <2>2 DEF TypeOK, CacheType
    <3>3. \A g \in ImmSet : refs'[g] = refs[g]
      BY <1>2, <1>5, <2>2 DEF TypeOK, CacheType, Fid
    <3> QED
      BY <1>1, <1>3, <1>5, <3>1, <3>2, <3>3 DEF RefInv
  <2>9. WriterInv'
    BY <1>1, <1>3, <2>4 DEF WriterInv, TypeOK, WriterType
  <2>10. WalInv'
    BY <1>1, <1>3, <2>1, <2>3, <2>4 DEF WalInv
  <2>11. StoreInv'
    <3>1. OnDisk' = OnDisk
      BY <1>1, <2>4 DEF OnDisk, InFiles
    <3> QED
      BY <1>1, <3>1 DEF StoreInv, Offline, Loading, Opened
  <2>12. ReplayInv'
    <3>1. ImmSet' = ImmSet
      BY <1>8 DEF ImmSet
    <3>2. \A g \in ImmSet : Replayed(g)'
      BY <1>2, <1>5, <1>6 DEF Fid
    <3>3. ASSUME NEW w \in Write, walOf'[w] # NoFid, Replayed(walOf[w])'
          PROVE  w \in cached' /\ walOf'[w] \in ImmSet
      <4>1. walOf[w] \in Fid /\ walOf[w] # f /\ walOf[w] <= f
        BY <1>6, <2>3, <2>4, <3>3 DEF TypeOK, DiskType
      <4>2. Replayed(walOf[w])
        BY <1>1, <1>2, <4>1 DEF Replayed, Fid, f
      <4>3. w \in cached /\ walOf[w] \in ImmSet
        BY <1>1, <2>4, <3>3, <4>2 DEF ReplayInv
      <4> QED
        BY <2>1, <2>4, <3>3, <4>3
    <3> QED
      BY <1>1, <1>2, <3>1, <3>2, <3>3 DEF ReplayInv
  <2> QED
    BY <2>5, <2>6, <2>7, <2>8, <2>9, <2>10, <2>11, <2>12
<1>9. CASE InTable(f) # {} /\ imm' = Append(imm, f) /\ UNCHANGED <<refs, walFiles, walOf, cached>>
  <2>1. /\ imm' \in Seq(Fid)
        /\ \A i \in DOMAIN imm' : imm'[i] = IF i \in DOMAIN imm THEN imm[i] ELSE f
        /\ \A i \in DOMAIN imm : imm'[i] = imm[i] /\ i \in DOMAIN imm'
        /\ imm'[Len(imm) + 1] = f /\ Len(imm) + 1 \in DOMAIN imm'
        /\ \A i, j \in DOMAIN imm' : i < j => i \in DOMAIN imm
    BY <1>2, <1>9 DEF TypeOK, MemType
  <2>2. ImmSet' = ImmSet \cup {f}
    BY <2>1 DEF ImmSet
  <2>3. TypeOK'
    <3>1. DiskType' /\ MemType' /\ CacheType'
      BY <1>1, <1>9, <2>1 DEF TypeOK, DiskType, MemType, CacheType
    <3> QED
      BY <1>1, <1>7, <3>1, ReplayTypes
  <2>4. OfflineInv' /\ SendInv' /\ QueueInv' /\ GenerationInv' /\ SnapshotInv' /\ QueryInv'
    BY <1>1, ReplayQuiet
  <2>5. OrderInv'
    <3>1. \A i \in DOMAIN imm : imm[i] < f
      BY <1>5 DEF ImmSet
    <3>2. \A i, j \in DOMAIN imm' : i < j => imm'[i] < imm'[j]
      BY <2>1, <3>1 DEF OrderInv
    <3> QED
      BY <1>1, <1>3, <3>2 DEF OrderInv, Older
  <2>6. RefInv'
    <3>1. Held' = ImmSet \cup {f} /\ Held = ImmSet
      BY <1>1, <1>3, <2>2 DEF Held
    <3> QED
      BY <1>1, <1>2, <1>3, <1>9, <3>1 DEF RefInv
  <2>7. WriterInv' /\ WalInv'
    BY <1>1, <1>9 DEF WriterInv, WalInv
  <2>8. StoreInv'
    BY <1>1, <1>9 DEF StoreInv, Offline, Loading, Opened, OnDisk, InFiles
  <2>9. ReplayInv'
    <3>1. \A g \in ImmSet' : Replayed(g)'
      BY <1>2, <1>5, <1>6, <2>2 DEF Fid
    <3>2. ASSUME NEW w \in Write, walOf[w] # NoFid, Replayed(walOf[w])'
          PROVE  w \in cached /\ walOf[w] \in ImmSet'
      <4>1. walOf[w] \in Fid /\ walOf[w] <= f
        <5>1. walOf[w] \in Fid
          BY <3>2 DEF TypeOK, DiskType
        <5>2. Replayed(walOf[w])' <=> walOf[w] <= f
          BY <1>2, <1>9, <5>1 DEF Replayed, Fid
        <5> QED
          BY <3>2, <5>1, <5>2
      <4>2. CASE walOf[w] = f
        BY <1>4, <2>2, <4>2
      <4>3. CASE walOf[w] # f
        <5>1. Replayed(walOf[w])
          BY <1>1, <1>2, <4>1, <4>3 DEF Replayed, Fid, f
        <5> QED
          BY <1>1, <2>2, <3>2, <5>1 DEF ReplayInv
      <4> QED
        BY <4>2, <4>3
    <3> QED
      BY <1>1, <1>2, <1>9, <3>1, <3>2 DEF ReplayInv
  <2> QED
    BY <2>3, <2>4, <2>5, <2>6, <2>7, <2>8, <2>9
<1> QED
  BY <1>8, <1>9 DEF AddRestored, f

(* The end of restoreMemTables preserves the invariant: every WAL has been read. *)
LEMMA RestoreDoneInv ==
  ASSUME IInv, RestoreDone
  PROVE  IInv'
<1> USE DEF IInv
<1>1. /\ phase = "replaying" /\ replay.at = "closed" /\ phase' = "restored"
      /\ \A f \in walFiles : f <= replay.fid
      /\ nextMemFid' = replay.fid + 1 /\ replay' = NoReplay
      /\ UNCHANGED <<diskVars, mem, imm, flushCh, chClosed, wg, cached, refs, iters, toSend,
                     globbed, snapDone, snapshotsEnabled, files, currentGeneration, flusherVars,
                     clientVars, budget>>
  BY DEF RestoreDone
<1>2. replay.fid \in Nat /\ nextMemFid' \in Nat
  BY <1>1 DEF TypeOK, EngineType, Fid, NoFid
<1>3. mem = NoFid /\ flushCh = <<>> /\ mt = NoFid /\ iters = [g \in Fid |-> 0]
      /\ \A x \in Writers : wpc[x] = "idle"
  BY <1>1, ReplayAlone
<1>4. \A f \in Fid : Replayed(f) <=> f <= replay.fid
  BY <1>1, <1>2 DEF Replayed, Fid
<1>5. \A w \in Write : walOf[w] # NoFid => w \in cached /\ walOf[w] \in ImmSet
  <2>1. ASSUME NEW w \in Write, walOf[w] # NoFid
        PROVE  walOf[w] \in Fid /\ walOf[w] <= replay.fid
    BY <1>1, <2>1 DEF WalInv, TypeOK, DiskType
  <2> QED
    BY <1>1, <1>4, <2>1 DEF ReplayInv
<1>6. TypeOK'
  <2>1. replay' \in [fid : Fid \cup {NoFid}, at : Places]
    BY <1>1 DEF NoReplay, Places
  <2>2. phase' \in Phases /\ exposed' \subseteq Write
    BY <1>1 DEF Phases, TypeOK, WriterType
  <2>3. DiskType' /\ MemType' /\ CacheType'
    BY <1>1, <1>2 DEF TypeOK, DiskType, MemType, CacheType
  <2> QED
    BY <1>1, <2>1, <2>2, <2>3, ReplayTypes
<1>7. OfflineInv' /\ SendInv' /\ QueueInv' /\ GenerationInv' /\ SnapshotInv' /\ QueryInv'
  BY <1>1, ReplayQuiet
<1>8. OrderInv'
  <2>1. \A i \in DOMAIN imm : imm[i] \in ImmSet /\ imm[i] \in Fid
    BY DEF ImmSet, TypeOK, MemType
  <2>2. \A i \in DOMAIN imm : imm[i] < nextMemFid'
    BY <1>1, <1>2, <1>4, <2>1 DEF ReplayInv, Fid
  <2> QED
    BY <1>1, <1>3, <2>2 DEF OrderInv, Older
<1>9. RefInv' /\ WriterInv' /\ WalInv'
  BY <1>1 DEF RefInv, Held, ImmSet, WriterInv, WalInv
<1>10. StoreInv'
  <2>1. acked \ exposed \subseteq OnDisk
    BY <1>1 DEF StoreInv
  <2>2. \A w \in Kept : w \in Write /\ w \in OnDisk
    BY <2>1 DEF Kept, TypeOK, WriterType
  <2>3. Kept' = Kept /\ InFiles(sstFiles)' = InFiles(sstFiles)
    BY <1>1 DEF Kept, OnDisk, InFiles
  <2>4. Held' = ImmSet
    BY <1>1, <1>3 DEF Held, ImmSet
  <2>5. \A w \in Kept' : walOf'[w] \in Held' \/ w \in InFiles(sstFiles)'
    BY <1>1, <1>5, <2>2, <2>3, <2>4 DEF OnDisk
  <2>6. \A w \in acked' : walOf'[w] # NoFid => w \in cached'
    BY <1>1, <1>5 DEF TypeOK, WriterType
  <2> QED
    BY <1>1, <2>5, <2>6 DEF StoreInv, Offline, Loading, Opened
<1>11. ReplayInv'
  BY <1>1 DEF ReplayInv, NoReplay
<1> QED
  BY <1>6, <1>7, <1>8, <1>9, <1>10, <1>11

(* The end of NewMemManager preserves the invariant. *)
LEMMA NewMemManagerInv ==
  ASSUME IInv, NewMemManager
  PROVE  IInv'
<1> USE DEF IInv, TypeOK
<1>1. /\ phase = "restored" /\ phase' = "new" /\ mem = NoFid
      /\ nextMemFid \in Fid /\ mem' = nextMemFid /\ nextMemFid' = nextMemFid + 1
  BY DEF NewMemManager, NewMemTable, OfflineInv, Offline, Loading
<1>2. /\ UNCHANGED <<walOf, synced, sst, tmpFiles, sstFiles, imm, flushCh, chClosed, wg, cached,
                     iters, toSend, globbed, snapDone, snapshotsEnabled, files, currentGeneration,
                     flusherVars, clientVars, budget, replay>>
      /\ walFiles' = walFiles \cup {nextMemFid}
      /\ refs' = [refs EXCEPT ![nextMemFid] = 1]
  BY DEF NewMemManager, NewMemTable
<1>3. Held' = Held \cup {nextMemFid}
  BY <1>1, <1>2 DEF Held, ImmSet, NoFid, Fid
<1>4. TypeOK'
  <2>1. DiskType' /\ CacheType'
    BY <1>1, <1>2 DEF DiskType, CacheType
  <2>2. MemType'
    BY <1>1, <1>2 DEF MemType, Fid
  <2>3. EngineType'
    BY <1>1, <1>2 DEF EngineType, Phases
  <2> QED
    BY <1>2, <2>1, <2>2, <2>3 DEF FlusherType, WriterType, ObserverType
<1>5. OfflineInv' /\ SendInv' /\ QueueInv'
  BY <1>1, <1>2 DEF OfflineInv, SendInv, QueueInv, ImmSet, Offline, Loading, Opened
<1>6. OrderInv'
  <2>1. nextMemFid < nextMemFid' /\ nextMemFid \in Int
    BY <1>1 DEF MemType
  <2>2. \A i \in DOMAIN imm : imm[i] < nextMemFid /\ imm[i] \in Fid
    BY <1>1 DEF OrderInv, Older, MemType
  <2>3. flushCh = <<>> /\ mt = NoFid /\ iters = [f \in Fid |-> 0]
    BY <1>1 DEF OfflineInv, Loading
  <2>4. \A i \in DOMAIN imm' : imm'[i] < nextMemFid' /\ imm'[i] < mem'
    BY <1>1, <1>2, <2>1, <2>2 DEF Fid
  <2> QED
    BY <1>1, <1>2, <2>1, <2>3, <2>4 DEF OrderInv, Older
<1>7. RefInv'
  <2>1. iters[nextMemFid] = 0
    BY <1>1 DEF OrderInv, MemType
  <2> QED
    BY <1>1, <1>2, <1>3, <2>1 DEF RefInv, CacheType, OfflineInv, Loading
<1>8. WriterInv'
  BY <1>1, <1>2 DEF WriterInv, OfflineInv
<1>9. WalInv'
  BY <1>1, <1>2 DEF WalInv
<1>10. GenerationInv' /\ SnapshotInv' /\ QueryInv'
  BY <1>1, <1>2 DEF GenerationInv, SnapshotInv, QueryInv, Opened, InFiles
<1>11. StoreInv'
  BY <1>1, <1>2, <1>3 DEF StoreInv, Offline, Loading, Opened, InFiles, Kept, OnDisk
<1>r. ReplayInv'
  BY <1>1, <1>2, ReplayFrame
<1> QED
  BY <1>r, <1>4, <1>5, <1>6, <1>7, <1>8, <1>9, <1>10, <1>11

(* Engine.Open preserves the invariant: every .sst file on disk is loaded. *)
LEMMA OpenInv ==
  ASSUME IInv, Open
  PROVE  IInv'
<1> USE DEF IInv, TypeOK
<1>1. /\ phase = "new" /\ phase' = "opening" /\ files' = sstFiles /\ toSend' = imm
      /\ pc' = "loop" /\ snapDone' = "open" /\ snapshotsEnabled' = TRUE
      /\ UNCHANGED <<diskVars, memVars, globbed, mt, todo, clientVars, budget, replay>>
  BY DEF Open, FileStoreOpen
<1>2. mt = NoFid /\ flushCh = <<>> /\ wg = 0 /\ query.pc = "idle"
      /\ \A x \in Writers : wpc[x] = "idle"
  BY <1>1 DEF OfflineInv, Loading
<1>3. currentGeneration' \in Nat /\ \A f \in sstFiles : f[1] <= currentGeneration'
  BY DEF Open, FileStoreOpen, DiskType, File
<1>4. TypeOK'
  <2>1. snapshotsEnabled' \in BOOLEAN
    BY <1>1, Zenon
  <2>2. phase' \in Phases /\ toSend' \in Seq(Fid) /\ globbed' \subseteq File /\ files' \subseteq File
    BY <1>1 DEF EngineType, MemType, DiskType, Phases
  <2>3. snapDone' \in {"nil", "open", "closed"}
    BY <1>1
  <2>r. replay' \in [fid : Fid \cup {NoFid}, at : Places]
    BY <1>1 DEF Open, EngineType
  <2>4. EngineType'
    BY <1>3, <2>1, <2>2, <2>3, <2>r, Zenon DEF EngineType
  <2>5. DiskType' /\ MemType' /\ CacheType'
    BY <1>1 DEF DiskType, MemType, CacheType
  <2>6. FlusherType' /\ WriterType' /\ ObserverType'
    BY <1>1 DEF FlusherType, WriterType, ObserverType
  <2> QED
    BY <2>4, <2>5, <2>6
<1>5. OfflineInv'
  BY <1>1, <1>2 DEF OfflineInv, Offline, Loading
<1>6. OrderInv' /\ QueueInv' /\ RefInv'
  BY <1>1 DEF OrderInv, QueueInv, RefInv, Older, Held, ImmSet
<1>7. SendInv'
  BY <1>1, <1>2 DEF SendInv, Opened, MemType
<1>8. WriterInv' /\ WalInv' /\ SnapshotInv'
  BY <1>1 DEF WriterInv, WalInv, SnapshotInv
<1>9. GenerationInv'
  BY <1>1, <1>3 DEF GenerationInv
<1>10. StoreInv' /\ QueryInv'
  BY <1>1, <1>2 DEF StoreInv, QueryInv, Offline, Loading, Opened, Held, ImmSet, InFiles, Kept, OnDisk
<1>r. ReplayInv'
  BY <1>1, ReplayFrame
<1> QED
  BY <1>r, <1>4, <1>5, <1>6, <1>7, <1>8, <1>9, <1>10

(* MemManager.Open preserves the invariant: memtables are sent in the order of imm. *)
LEMMA SendRestoredInv ==
  ASSUME IInv, SendRestored
  PROVE  IInv'
<1> USE DEF IInv, TypeOK
<1>1. /\ phase = "opening" /\ toSend # <<>>
      /\ wg' = wg + 1
      /\ flushCh' = Append(flushCh, Head(toSend))
      /\ toSend' = Tail(toSend)
      /\ UNCHANGED <<diskVars, mem, imm, nextMemFid, chClosed, cached, refs, iters, phase, globbed,
                     snapDone, snapshotsEnabled, files, currentGeneration, flusherVars, clientVars,
                     budget, replay>>
  BY DEF SendRestored
<1>2. /\ toSend' \in Seq(Fid) /\ Len(toSend') = Len(toSend) - 1
      /\ toSend[1] \in Fid /\ Head(toSend) = toSend[1] /\ Len(toSend) \in Nat \ {0}
      /\ \A i \in DOMAIN toSend' : toSend'[i] = toSend[i + 1] /\ i + 1 \in DOMAIN toSend
      /\ 1 \in DOMAIN toSend
  BY <1>1, TailFacts DEF EngineType
<1>3. /\ flushCh' \in Seq(Fid)
      /\ \A i \in DOMAIN flushCh' :
           flushCh'[i] = toSend[1] \/ \E j \in DOMAIN flushCh : flushCh'[i] = flushCh[j]
  BY <1>1, <1>2 DEF MemType
<1>4. Opened /\ wg + Len(toSend) = Len(imm) /\ wg \in Nat
  BY <1>1 DEF SendInv, Opened, MemType
<1>5. /\ 1 + Len(imm) - Len(toSend) \in DOMAIN imm
      /\ toSend[1] = imm[1 + Len(imm) - Len(toSend)]
  BY <1>2, <1>4 DEF SendInv, MemType
<1>6. TypeOK'
  <2>1. MemType'
    BY <1>1, <1>3 DEF MemType
  <2>2. EngineType'
    BY <1>1, <1>2 DEF EngineType
  <2> QED
    BY <1>1, <2>1, <2>2 DEF DiskType, CacheType, FlusherType, WriterType, ObserverType
<1>7. OfflineInv' /\ RefInv'
  BY <1>1 DEF OfflineInv, RefInv, Offline, Loading, Held, ImmSet
<1>8. OrderInv'
  <2>1. Older(toSend[1])
    BY <1>1, <1>5 DEF OrderInv
  <2> QED
    BY <1>1, <1>3, <2>1 DEF OrderInv, Older
<1>9. SendInv'
  <2>1. wg' + Len(toSend') = Len(imm')
    BY <1>1, <1>2, <1>4
  <2>2. ASSUME NEW i \in DOMAIN toSend'
        PROVE  toSend'[i] = imm[i + Len(imm) - Len(toSend')]
    <3>1. i \in Nat /\ Len(toSend) \in Nat /\ Len(imm) \in Nat
      BY <1>2 DEF MemType
    <3>2. (i + 1) + Len(imm) - Len(toSend) = i + Len(imm) - Len(toSend')
      BY <1>2, <3>1
    <3> QED
      BY <1>2, <3>2 DEF SendInv
  <2>3. ASSUME NEW j \in DOMAIN toSend'
        PROVE  toSend[1] < toSend'[j]
    <3>1. j \in 1..Len(toSend') /\ Len(imm) \in Nat
      BY <1>2 DEF MemType
    <3> DEFINE a == 1 + Len(imm) - Len(toSend)
               b == j + Len(imm) - Len(toSend')
    <3>2. a \in DOMAIN imm /\ b \in DOMAIN imm /\ a < b
      BY <1>2, <1>4, <3>1 DEF MemType
    <3>3. toSend[1] = imm[a] /\ toSend'[j] = imm[b]
      BY <1>5, <2>2
    <3> QED
      BY <3>2, <3>3 DEF OrderInv
  <2>4. \A i \in DOMAIN flushCh', j \in DOMAIN toSend' : flushCh'[i] < toSend'[j]
    BY <1>2, <1>3, <2>3 DEF SendInv
  <2>5. mt # NoFid => \A j \in DOMAIN toSend' : mt < toSend'[j]
    BY <1>2 DEF SendInv
  <2> QED
    BY <1>1, <2>1, <2>2, <2>4, <2>5 DEF SendInv
<1>10. QueueInv'
  <2>1. toSend[1] \in ImmSet
    BY <1>5 DEF ImmSet
  <2>2. /\ \A i \in DOMAIN flushCh : flushCh[i] < toSend[1]
        /\ mt # NoFid => mt < toSend[1]
    BY <1>2 DEF SendInv
  <2>3. \A i, j \in DOMAIN flushCh' : i < j => flushCh'[i] < flushCh'[j]
    <3>1. /\ \A i \in DOMAIN flushCh' :
               flushCh'[i] = IF i \in DOMAIN flushCh THEN flushCh[i] ELSE toSend[1]
          /\ \A i, j \in DOMAIN flushCh' : i < j => i \in DOMAIN flushCh
      BY <1>1, <1>2 DEF MemType
    <3> QED
      BY <2>2, <3>1 DEF QueueInv
  <2> QED
    BY <1>1, <1>3, <2>1, <2>2, <2>3 DEF QueueInv, ImmSet
<1>11. WriterInv' /\ WalInv' /\ GenerationInv' /\ SnapshotInv'
  BY <1>1 DEF WriterInv, WalInv, GenerationInv, SnapshotInv, Opened
<1>12. StoreInv' /\ QueryInv'
  BY <1>1 DEF StoreInv, QueryInv, Offline, Loading, Opened, Held, ImmSet, InFiles, OnDisk, Kept
<1>r. ReplayInv'
  BY <1>1, ReplayFrame
<1> QED
  BY <1>r, <1>6, <1>7, <1>8, <1>9, <1>10, <1>11, <1>12

(* cleanupTempTSMFiles and the begin of Close preserve the invariant: neither touches a
   .sst file or a WAL. *)
LEMMA CleanupInv ==
  ASSUME IInv, CleanupGlob \/ CleanupRemove \/ CloseBegin
  PROVE  IInv'
<1> USE DEF IInv, TypeOK
<1>1. /\ UNCHANGED <<walFiles, walOf, synced, sst, sstFiles, memVars, toSend, snapDone,
                   snapshotsEnabled, files, currentGeneration, flusherVars, clientVars, replay>>
      /\ Opened /\ phase' \in {"cleaning", "up", "failed", "closing"}
      /\ tmpFiles' \subseteq tmpFiles /\ globbed' \subseteq globbed \cup tmpFiles
  BY DEF CleanupGlob, CleanupRemove, CloseBegin, Opened
<1>2. /\ toSend = <<>>
      /\ phase # "up" \/ phase' # "up" => \A x \in Writers : wpc[x] = "idle"
  BY DEF CleanupGlob, CleanupRemove, CloseBegin, OfflineInv
<1>3. TypeOK'
  <2>1. budget' = budget \/ Spend("close")
    BY DEF CleanupGlob, CleanupRemove, CloseBegin
  <2>2. ObserverType'
    BY <1>1, <2>1, ConstantsAssumption DEF ObserverType, Spend
  <2>3. DiskType' /\ EngineType'
    BY <1>1 DEF DiskType, EngineType, Phases
  <2> QED
    BY <1>1, <2>2, <2>3 DEF MemType, CacheType, FlusherType, WriterType
<1>4. OfflineInv' /\ OrderInv' /\ SendInv' /\ QueueInv' /\ RefInv'
  BY <1>1, <1>2 DEF OfflineInv, OrderInv, SendInv, QueueInv, RefInv, Offline, Loading, Opened, Older,
                    Held, ImmSet
<1>5. WriterInv' /\ WalInv' /\ GenerationInv' /\ SnapshotInv'
  BY <1>1 DEF WriterInv, WalInv, GenerationInv, SnapshotInv, Opened
<1>6. StoreInv' /\ QueryInv'
  BY <1>1 DEF StoreInv, QueryInv, Offline, Loading, Opened, Held, ImmSet, InFiles, Kept, OnDisk
<1>r. ReplayInv'
  BY <1>1, ReplayFrame DEF Opened
<1> QED
  BY <1>r, <1>3, <1>4, <1>5, <1>6

(* MemManager.Close preserves the invariant. *)
LEMMA CloseMemManagerInv ==
  ASSUME IInv, CloseMemManager
  PROVE  IInv'
<1> USE DEF IInv, TypeOK
<1>1. /\ synced \subseteq synced' /\ synced' \subseteq Write
      /\ UNCHANGED <<walFiles, walOf, sst, tmpFiles, sstFiles, mem, imm, nextMemFid, flushCh, wg,
                     cached, refs, iters, engineVars, flusherVars, clientVars, budget>>
  BY DEF CloseMemManager, LoggedIn, DiskType
<1>2. TypeOK'
  <2>1. chClosed' \in BOOLEAN
    BY Zenon DEF CloseMemManager
  <2>2. DiskType' /\ MemType'
    BY <1>1, <2>1 DEF DiskType, MemType
  <2> QED
    BY <1>1, <2>2 DEF CacheType, EngineType, FlusherType, WriterType, ObserverType
<1>3. OfflineInv' /\ OrderInv' /\ SendInv' /\ QueueInv' /\ RefInv'
  BY <1>1 DEF OfflineInv, OrderInv, SendInv, QueueInv, RefInv, Offline, Loading, Opened, Older, Held, ImmSet
<1>4. WriterInv' /\ WalInv' /\ GenerationInv' /\ SnapshotInv'
  BY <1>1 DEF WriterInv, WalInv, GenerationInv, SnapshotInv, Opened
<1>5. StoreInv' /\ QueryInv'
  BY <1>1 DEF StoreInv, QueryInv, Offline, Loading, Opened, Held, ImmSet, InFiles, OnDisk, Kept
<1>r. ReplayInv'
  BY <1>1, ReplayFrame DEF CloseMemManager
<1> QED
  BY <1>r, <1>2, <1>3, <1>4, <1>5

(* The end of the process preserves the invariant if no acknowledged record is lost with it
   but those a replay has rewritten. *)
LEMMA StopInv ==
  ASSUME IInv, Stop,
         walOf' \in [Write -> Fid \cup {NoFid}],
         \A w \in Write : walOf'[w] \in {walOf[w], NoFid},
         \A w \in acked \ exposed : walOf'[w] = walOf[w],
         budget' = budget \/ Spend("crash")
  PROVE  IInv'
<1> USE DEF IInv, TypeOK
<1>1. /\ phase' = "down" /\ mem' = NoFid /\ imm' = <<>> /\ nextMemFid' = 0 /\ flushCh' = <<>>
      /\ toSend' = <<>> /\ wg' = 0 /\ cached' = {}
      /\ refs' = [f \in Fid |-> 0] /\ iters' = [f \in Fid |-> 0]
      /\ globbed' = {} /\ files' = {} /\ snapDone' = "nil" /\ currentGeneration' = 0
      /\ pc' = "off" /\ mt' = NoFid /\ todo' = {}
  BY DEF Stop
<1>2. /\ wpc' = [w \in Writers |-> "idle"] /\ wid' = [w \in Writers |-> 0]
      /\ query' = [pc |-> "idle", before |-> {}, got |-> {}]
      /\ UNCHANGED <<walFiles, sst, tmpFiles, sstFiles, synced, nWrites, acked, conflicts, exposed>>
      /\ replay' = NoReplay
  BY DEF Stop
<1>3. TypeOK'
  <2>1. chClosed' \in BOOLEAN /\ snapshotsEnabled' \in BOOLEAN
    BY Zenon DEF Stop
  <2>2. DiskType'
    BY <1>2 DEF DiskType
  <2>3. MemType'
    BY <1>1, <2>1 DEF MemType
  <2>4. CacheType' /\ FlusherType'
    BY <1>1 DEF CacheType, FlusherType
  <2>5. EngineType'
    BY <1>1, <1>2, <2>1 DEF EngineType, Phases, NoReplay, Places
  <2>6. WriterType'
    BY <1>2 DEF WriterType
  <2>7. ObserverType'
    BY <1>2, ConstantsAssumption DEF ObserverType, Spend
  <2> QED
    BY <2>2, <2>3, <2>4, <2>5, <2>6, <2>7
<1>4. query'.pc = "idle" /\ \A x \in Writers : wpc'[x] = "idle"
  BY <1>2
<1>5. OfflineInv'
  BY <1>1, <1>4 DEF OfflineInv, Offline, Loading
<1>6. OrderInv' /\ SendInv' /\ QueueInv'
  BY <1>1 DEF OrderInv, SendInv, QueueInv, Opened, Older
<1>7. RefInv'
  BY <1>1 DEF RefInv, Held, ImmSet
<1>8. WriterInv'
  <2>1. SyncWrite => \A w \in acked \ exposed, u \in Write :
          walOf'[w] # NoFid /\ walOf'[u] = walOf'[w] /\ u <= w => u \in synced
    BY DEF WriterInv
  <2> QED
    BY <1>2, <1>4, <2>1 DEF WriterInv
<1>9. WalInv'
  BY <1>1, <1>2 DEF WalInv
<1>10. GenerationInv' /\ SnapshotInv'
  BY <1>1 DEF GenerationInv, SnapshotInv, Opened
<1>11. StoreInv'
  <2>1. acked \ exposed \subseteq OnDisk
    BY InvDurable DEF Durable
  <2>2. InFiles(sstFiles)' = InFiles(sstFiles)
    BY <1>2 DEF InFiles
  <2>3. acked' \ exposed' \subseteq OnDisk'
    BY <1>2, <2>1, <2>2 DEF OnDisk, WriterType
  <2> QED
    BY <1>1, <2>3 DEF StoreInv, Offline, Loading, Opened, Kept, OnDisk
<1>12. QueryInv'
  BY <1>4 DEF QueryInv
<1>r. ReplayInv'
  BY <1>1, <1>2 DEF ReplayInv, NoReplay
<1> QED
  BY <1>r, <1>3, <1>5, <1>6, <1>7, <1>8, <1>9, <1>10, <1>11, <1>12

(* A panic and the end of Close preserve the invariant. *)
LEMMA OrderlyStopInv ==
  ASSUME IInv, Panic \/ CloseDone
  PROVE  IInv'
<1>1. Stop /\ walOf' = walOf /\ budget' = budget
  BY DEF Panic, CloseDone
<1>2. walOf' \in [Write -> Fid \cup {NoFid}]
  BY <1>1 DEF IInv, TypeOK, DiskType
<1> QED
  BY <1>1, <1>2, StopInv

(* What a crash damages cuts nothing off but unacknowledged and rewritten records. *)
LEMMA DamageFacts ==
  ASSUME IInv, NEW a \in acked \ exposed, NEW u \in Write,
         walOf[u] # NoFid, walOf[u] = walOf[a], u <= a,
         Losable(u) \/ (replay.at # "level" /\ u \in Unread)
  PROVE  FALSE
<1> USE DEF IInv
<1>1. a \in Write /\ a <= nWrites /\ nWrites \in Nat /\ a \in Nat /\ u \in Nat
  BY ConstantsAssumption DEF TypeOK, WriterType, WriterInv, Write
<1>2. CASE \E x \in Writers : wpc[x] = "logged" /\ wid[x] = u
  <2>1. u = nWrites /\ u \notin acked
    BY <1>2 DEF WriterInv
  <2> QED
    BY <1>1, <2>1
<1>3. ASSUME replay.at # "closed", u \in Rewritten(replay.fid)
      PROVE  FALSE
  <2>1. PICK v \in Uneven \cap LoggedIn(replay.fid) : v <= u
    BY <1>3 DEF Rewritten
  <2>2. v \in Nat /\ walOf[u] = replay.fid
    BY <1>3 DEF Rewritten, LoggedIn, Write
  <2>3. v <= a
    BY <1>1, <2>1, <2>2
  <2>4. a \in Rewritten(replay.fid)
    BY <1>1, <2>1, <2>2, <2>3 DEF Rewritten, LoggedIn
  <2> QED
    BY <1>3, <2>4 DEF ReplayInv
<1>4. CASE NextUnread(u) /\ u \in Uneven
  <2>1. replay.at # "closed" /\ u \in LoggedIn(replay.fid)
    BY <1>4 DEF NextUnread, Unread
  <2>2. u \in Rewritten(replay.fid)
    BY <1>1, <1>4, <2>1 DEF Rewritten
  <2> QED
    BY <1>3, <2>1, <2>2
<1>5. CASE SyncWrite /\ u \notin synced
  BY <1>5 DEF WriterInv
<1>6. CASE replay.at # "level" /\ u \in Unread
  <2>1. replay.at # "closed"
    BY <1>6 DEF Unread
  <2>2. replay.at \in {"behind", "ahead"}
    BY <1>6, <2>1 DEF TypeOK, EngineType, Places
  <2> QED
    BY <1>3, <1>6, <2>1, <2>2 DEF ReplayInv
<1> QED
  BY <1>2, <1>4, <1>5, <1>6 DEF Losable

(* A crash and a power loss preserve the invariant: what they lose was never acknowledged,
   or a replay has rewritten it. *)
LEMMA CrashInv ==
  ASSUME IInv, Crash
  PROVE  IInv'
<1>1. Stop /\ Spend("crash")
  BY DEF Crash
<1>2. PICK lost \in SUBSET {w \in Write : walOf[w] # NoFid /\ Losable(w)} :
        CutOff({w \in Write :
                  \E u \in lost \cup IF replay.at = "level" THEN {} ELSE Unread :
                     walOf[u] = walOf[w] /\ u <= w})
  BY DEF Crash
<1> DEFINE damaged == lost \cup IF replay.at = "level" THEN {} ELSE Unread
<1> DEFINE gone == {w \in Write : \E u \in damaged : walOf[u] = walOf[w] /\ u <= w}
<1>3. \A u \in damaged : /\ u \in Write /\ walOf[u] # NoFid
                         /\ Losable(u) \/ (replay.at # "level" /\ u \in Unread)
  <2>1. \A u \in Unread : u \in Write /\ walOf[u] = replay.fid /\ replay.at # "closed"
    BY DEF Unread, LoggedIn
  <2>2. replay.at # "closed" => replay.fid # NoFid
    BY DEF IInv, ReplayInv, TypeOK, DiskType, Fid, NoFid
  <2> QED
    BY <2>1, <2>2
<1>4. CutOff(gone)
  BY <1>2
<1> HIDE DEF damaged
<1>5. \A a \in acked \ exposed : a \notin gone
  BY <1>3, DamageFacts
<1> HIDE DEF gone
<1>6. /\ walOf' \in [Write -> Fid \cup {NoFid}]
      /\ \A w \in Write : walOf'[w] = IF w \in gone THEN NoFid ELSE walOf[w]
  BY <1>4, CutFacts DEF IInv, TypeOK
<1>7. \A w \in Write : walOf'[w] \in {walOf[w], NoFid}
  BY <1>6
<1>8. \A w \in acked \ exposed : walOf'[w] = walOf[w]
  BY <1>5, <1>6 DEF IInv, TypeOK, WriterType
<1> QED
  BY <1>1, <1>6, <1>7, <1>8, StopInv

(* A query preserves the invariant: it reads the memtables before the files. *)
LEMMA QueryStepInv ==
  ASSUME IInv, QueryStep
  PROVE  IInv'
<1> USE DEF IInv, TypeOK
<1>1. /\ UNCHANGED <<diskVars, memVars, engineVars, flusherVars, wpc, wid, nWrites, acked,
                     conflicts, exposed>>
      /\ budget' = budget \/ Spend("query")
      /\ ~(Offline \/ Loading) /\ phase # "replaying"
  BY DEF QueryStep, QueryFirst, QuerySecond, Running, Offline, Loading
<1>2. \/ /\ query' = [pc |-> "memory", before |-> Kept, got |-> InMemTables]
         /\ phase = "up"
      \/ /\ query.pc = "memory"
         /\ query' = [query EXCEPT !.pc = "done", !.got = @ \cup InFiles(files)]
  BY DEF QueryStep, QueryFirst, QuerySecond
<1>3. TypeOK'
  <2>1. InMemTables \subseteq Write /\ InFiles(files) \subseteq Write
    BY DEF InMemTables, InFiles, CacheType
  <2>2. query' \in [pc : {"idle", "memory", "done"}, before : SUBSET Write, got : SUBSET Write]
    <3>1. CASE query' = [pc |-> "memory", before |-> Kept, got |-> InMemTables]
      BY <2>1, <3>1 DEF WriterType, Kept
    <3>2. CASE query' = [query EXCEPT !.pc = "done", !.got = @ \cup InFiles(files)]
      BY <2>1, <3>2 DEF ObserverType
    <3> QED
      BY <1>2, <3>1, <3>2
  <2>3. ObserverType'
    BY <1>1, <2>2, ConstantsAssumption DEF ObserverType, Spend
  <2> QED
    BY <1>1, <2>3 DEF DiskType, MemType, CacheType, EngineType, FlusherType, WriterType
<1>4. OfflineInv' /\ OrderInv' /\ SendInv' /\ QueueInv' /\ RefInv'
  BY <1>1 DEF OfflineInv, OrderInv, SendInv, QueueInv, RefInv, Offline, Loading, Opened, Older,
              Held, ImmSet
<1>5. WriterInv' /\ WalInv' /\ GenerationInv' /\ SnapshotInv'
  BY <1>1 DEF WriterInv, WalInv, GenerationInv, SnapshotInv, Opened
<1>6. StoreInv'
  BY <1>1 DEF StoreInv, Offline, Loading, Opened, Held, ImmSet, InFiles, Kept, OnDisk
<1>7. QueryInv'
  <2>1. InFiles(files)' = InFiles(files)
    BY <1>1 DEF InFiles
  <2>2. CASE /\ query' = [pc |-> "memory", before |-> Kept, got |-> InMemTables]
             /\ phase = "up"
    <3>1. NoFid \notin Held
      BY HeldType
    <3>2. \A w \in Kept : w \in InMemTables \/ w \in InFiles(files)
      BY <2>2, <3>1 DEF StoreInv, Opened, InMemTables, Held, Kept
    <3> QED
      BY <2>1, <2>2, <3>2 DEF QueryInv
  <2>3. CASE /\ query.pc = "memory"
             /\ query' = [query EXCEPT !.pc = "done", !.got = @ \cup InFiles(files)]
    <3>1. query'.pc = "done" /\ query'.before = query.before
          /\ query'.got = query.got \cup InFiles(files)
      BY <2>3 DEF ObserverType
    <3> QED
      BY <2>3, <3>1 DEF QueryInv
  <2> QED
    BY <1>2, <2>2, <2>3
<1>r. ReplayInv'
  BY <1>1, ReplayFrame
<1> QED
  BY <1>r, <1>3, <1>4, <1>5, <1>6, <1>7

(* Every step of the specification preserves the invariant. *)
LEMMA NextInv == IInv /\ [Next]_vars => IInv'
<1> SUFFICES ASSUME IInv, [Next]_vars PROVE IInv'
  OBVIOUS
<1>1. ASSUME NEW w \in Writers, WriterStep(w)
      PROVE  IInv'
  BY <1>1, EnterInv, RotateInv, WriteLogInv, WriteApplyInv, WriteConflictInv DEF WriterStep
<1>2. CASE FlusherStep
  BY <1>2, FlushLoopInv, TakeFlushMemTableInv, FlushCheckInv, SnapshotStartInv,
     SnapshotWrittenInv, SnapshotAbortedInv, RenameTmpInv, InstallInv, OnMemTableFlushedInv
     DEF FlusherStep
<1>3. CASE \E f \in Fid : IterClose(f)
  BY <1>3, IterCloseInv
<1>4. CASE OpenStep
  <2>1. CASE RestoreStep
    BY <2>1, NewEngineInv, OpenMemTableInv, ReplayRecordInv, ReplayBreaksInv, RestoreFailsInv,
       AddRestoredInv, RestoreDoneInv DEF RestoreStep
  <2> QED
    BY <1>4, <2>1, NewMemManagerInv, OpenInv, SendRestoredInv, CleanupInv DEF OpenStep
<1>5. CASE StopStep \/ EnableSnapshots \/ CloseBegin \/ Panic \/ Crash
  BY <1>5, ToggleInv, CloseMemManagerInv, OrderlyStopInv, CleanupInv, CrashInv DEF StopStep
<1>6. CASE QueryStep
  BY <1>6, QueryStepInv
<1>7. CASE UNCHANGED vars
  BY <1>7, StutterInv
<1> QED
  BY <1>1, <1>2, <1>3, <1>4, <1>5, <1>6, <1>7 DEF Next

(* The initial state is one of the abstract specification. *)
LEMMA PromiseInit == Init => Promise!Init
  BY DEF Init, Promise!Init, OnDisk, InFiles

(* InvDurable, of the state after a step. *)
LEMMA PrimedDurable == IInv' => Durable'
  BY InvDurable, PTL

(* Every step stores one record, acknowledges one, puts the records a replay rewrites at
   risk, forgets records that are unacknowledged or at risk, or is invisible to the abstract
   specification. *)
LEMMA PromiseStep ==
  ASSUME IInv, IInv', Next
  PROVE  Promise!Next \/ UNCHANGED <<OnDisk, acked, exposed>>
<1> USE DEF IInv, TypeOK
<1>1. ASSUME UNCHANGED <<walOf, sst, sstFiles, acked, exposed>>
      PROVE  UNCHANGED <<OnDisk, acked, exposed>>
  BY <1>1 DEF OnDisk, InFiles
<1>2. ASSUME UNCHANGED <<sst, sstFiles, acked, exposed>>,
             \A w \in Write : walOf'[w] \in {walOf[w], NoFid}
      PROVE  Promise!Next
  <2>1. OnDisk' \subseteq OnDisk
    BY <1>2 DEF OnDisk, InFiles
  <2>2. acked \ exposed \subseteq OnDisk'
    BY <1>2, PrimedDurable DEF Durable
  <2> QED
    BY <1>2, <2>1, <2>2 DEF Promise!Next, Promise!Forget
<1>3. ASSUME NEW w \in Writers, WriteLog(w)
      PROVE  Promise!Next \/ UNCHANGED <<OnDisk, acked, exposed>>
  <2> DEFINE new == nWrites + 1
  <2>1. new \in Write
    BY <1>3, ConstantsAssumption DEF WriteLog, WriterType, Write
  <2>2. /\ \A v \in Write : walOf'[v] = IF v = new THEN mem ELSE walOf[v]
        /\ mem # NoFid /\ UNCHANGED <<sst, sstFiles, acked, exposed>>
    BY <1>3, <2>1 DEF WriteLog, DiskType
  <2> HIDE DEF new
  <2>3. walOf[new] # NoFid => new \in OnDisk
    BY <2>1 DEF OnDisk
  <2>4. OnDisk' = OnDisk \cup {new}
    <3>1. InFiles(sstFiles)' = InFiles(sstFiles)
      BY <2>2 DEF InFiles
    <3> QED
      BY <2>1, <2>2, <3>1 DEF OnDisk
  <2>5. CASE new \in OnDisk
    BY <2>2, <2>4, <2>5
  <2>6. CASE new \notin OnDisk
    BY <2>1, <2>2, <2>4, <2>6 DEF Promise!Next, Promise!Store
  <2> QED
    BY <2>5, <2>6
<1>4. ASSUME NEW w \in Writers, WriteApply(w)
      PROVE  Promise!Next
  <2>1. wid[w] \in Write /\ walOf[wid[w]] # NoFid
    BY <1>4 DEF WriteApply, WriterInv
  <2>2. wid[w] \in OnDisk
    BY <2>1 DEF OnDisk
  <2>3. OnDisk' = OnDisk
    BY <1>4 DEF WriteApply, OnDisk, InFiles
  <2> QED
    BY <1>4, <2>1, <2>2, <2>3 DEF WriteApply, Promise!Next, Promise!Ack
<1>5. ASSUME SnapshotWritten
      PROVE  UNCHANGED <<OnDisk, acked, exposed>>
  <2>1. PICK a \in SUBSET InTable(mt), b \in SUBSET InTable(mt) :
          sst' = [sst EXCEPT ![<<currentGeneration, 1>>] = a, ![<<currentGeneration, 2>>] = b]
    BY <1>5 DEF SnapshotWritten
  <2>2. \A f \in sstFiles : sst'[f] = sst[f]
    BY <1>5, <2>1 DEF SnapshotWritten, GenerationInv, DiskType, EngineType, File
  <2>3. UNCHANGED <<walOf, sstFiles, acked, exposed>>
    BY <1>5 DEF SnapshotWritten
  <2> QED
    BY <2>2, <2>3 DEF OnDisk, InFiles
<1>6. ASSUME RenameTmp
      PROVE  UNCHANGED <<OnDisk, acked, exposed>>
  <2>1. UNCHANGED <<walOf, sst, acked, exposed>> /\ mt # NoFid
    BY <1>6 DEF RenameTmp, SnapshotInv, Fid, NoFid
  <2>2. PICK q \in todo : sstFiles' = sstFiles \cup {<<currentGeneration, q>>}
    BY <1>6 DEF RenameTmp
  <2>3. \A v \in sst[<<currentGeneration, q>>] : walOf[v] # NoFid
    BY <1>6, <2>1 DEF RenameTmp, SnapshotInv
  <2> QED
    BY <2>1, <2>2, <2>3 DEF OnDisk, InFiles
<1>7. ASSUME NEW f \in Fid, Deref(f)
      PROVE  \A w \in Write : walOf'[w] \in {walOf[w], NoFid}
  BY <1>7 DEF Deref
<1>8. ASSUME OnMemTableFlushed
      PROVE  Promise!Next
  <2>1. mt \in Fid /\ UNCHANGED <<sst, sstFiles, acked, exposed>> /\ (walOf' = walOf \/ Deref(mt))
    BY <1>8 DEF OnMemTableFlushed, SnapshotInv
  <2> QED
    BY <1>2, <1>7, <2>1
<1>9. ASSUME NEW f \in Fid, IterClose(f)
      PROVE  Promise!Next
  BY <1>2, <1>7, <1>9 DEF IterClose
<1>10. ASSUME Crash
       PROVE  Promise!Next
  <2>1. \A w \in Write : walOf'[w] \in {walOf[w], NoFid}
    BY <1>10 DEF Crash, CutOff
  <2> QED
    BY <1>2, <1>10, <2>1 DEF Crash, Stop
<1>11. ASSUME NEW w \in Writers, WriterStep(w)
       PROVE  Promise!Next \/ UNCHANGED <<OnDisk, acked, exposed>>
  <2>1. CASE WriteLog(w) \/ WriteApply(w)
    BY <1>3, <1>4, <2>1
  <2>2. CASE WriteBatch(w) \/ EnsureNotFull(w) \/ Rotate(w) \/ WriteConflict(w)
    BY <1>1, <2>2 DEF WriteBatch, EnsureNotFull, Rotate, WriteConflict
  <2> QED
    BY <1>11, <2>1, <2>2 DEF WriterStep
<1>12. ASSUME FlusherStep
       PROVE  Promise!Next \/ UNCHANGED <<OnDisk, acked, exposed>>
  <2>1. CASE SnapshotWritten \/ RenameTmp \/ OnMemTableFlushed
    BY <1>5, <1>6, <1>8, <2>1
  <2>2. CASE FlushLoop \/ TakeFlushMemTable \/ FlushCheck \/ SnapshotStart
    BY <1>1, <2>2 DEF FlushLoop, TakeFlushMemTable, FlushCheck, SnapshotStart
  <2>3. CASE SnapshotFailed \/ SnapshotCollides \/ ReplaceFailed \/ Install
    BY <1>1, <2>3 DEF SnapshotFailed, SnapshotCollides, ReplaceFailed, Install
  <2> QED
    BY <1>12, <2>1, <2>2, <2>3 DEF FlusherStep
<1>13. ASSUME OpenStep
       PROVE  Promise!Next \/ UNCHANGED <<OnDisk, acked, exposed>>
  <2>1. CASE NewEngine \/ ReplayRecord \/ RestoreDone
    BY <1>1, <2>1 DEF NewEngine, ReplayRecord, RestoreDone
  <2>2. CASE NewMemManager \/ Open \/ SendRestored \/ CleanupGlob \/ CleanupRemove
    BY <1>1, <2>2 DEF NewMemManager, Open, SendRestored, CleanupGlob, CleanupRemove
  <2>3. CASE OpenMemTable
    <3>1. PICK f \in walFiles : exposed' = exposed \cup Rewritten(f)
      BY <2>3 DEF OpenMemTable
    <3>2. Rewritten(f) \subseteq OnDisk
      BY DEF Rewritten, LoggedIn, OnDisk, DiskType, Fid, NoFid
    <3>3. UNCHANGED <<OnDisk, acked>>
      BY <2>3 DEF OpenMemTable, OnDisk, InFiles
    <3> QED
      BY <3>1, <3>2, <3>3 DEF Promise!Next, Promise!Risk
  <2>4. CASE ReplayBreaks \/ RestoreFails
    <3>1. \A w \in Write : walOf'[w] \in {walOf[w], NoFid}
      BY <2>4 DEF ReplayBreaks, RestoreFails, CutOff
    <3> QED
      BY <1>2, <2>4, <3>1 DEF ReplayBreaks, RestoreFails
  <2>5. CASE AddRestored
    <3>1. UNCHANGED <<sst, sstFiles, acked, exposed>>
      BY <2>5 DEF AddRestored
    <3>2. CASE walOf' = walOf
      BY <1>1, <3>1, <3>2
    <3>3. CASE Deref(replay.fid)
      <4>1. replay.fid \in Fid
        BY <2>5 DEF AddRestored, ReplayInv, DiskType
      <4> QED
        BY <1>2, <1>7, <3>1, <3>3, <4>1
    <3> QED
      BY <2>5, <3>2, <3>3 DEF AddRestored
  <2> QED
    BY <1>13, <2>1, <2>2, <2>3, <2>4, <2>5 DEF OpenStep, RestoreStep
<1>14. ASSUME StopStep \/ EnableSnapshots \/ CloseBegin \/ Panic \/ QueryStep
       PROVE  UNCHANGED <<OnDisk, acked, exposed>>
  BY <1>1, <1>14 DEF StopStep, DisableSnapshots, DisableSnapshotsDone, CloseMemManager, CloseDone,
                     EnableSnapshots, CloseBegin, Panic, Stop, QueryStep, QueryFirst, QuerySecond
<1> QED
  BY <1>9, <1>10, <1>11, <1>12, <1>13, <1>14 DEF Next

(* IInv is an inductive invariant of the write path. *)
THEOREM Invariance == Spec => []IInv
  BY InitInv, NextInv, PTL DEF Spec

(* Every variable keeps its type: in particular MemManager.wg, Cache.ref and the count of
   open iterators never go below zero, for any number of writers, memtables and crashes. *)
THEOREM TypeCorrect == Spec => []TypeOK
<1>1. IInv => TypeOK
  BY DEF IInv
<1> QED
  BY <1>1, Invariance, PTL

(* No acknowledged write is ever off the disk unless a restart has begun to rewrite it in
   its log: WriteMulti, the flush goroutine, replace, OnMemTableFlushed, a late iterator
   close, restoreFromWAL, crashes and power losses included. *)
THEOREM WritesAreDurable == Spec => []Durable
  BY Invariance, InvDurable, PTL

(* While the engine serves requests, every acknowledged write that no replay has overwritten
   is in a memtable that MemManager.Values reads or in a file of FileStore.files. *)
THEOREM WritesAreVisible == Spec => []Visible
  BY Invariance, InvVisible, PTL

(* Engine.Get, which reads the memtables and then the files, misses no write acknowledged
   before it began and still on disk then, whatever is flushed in between. *)
THEOREM QueriesAreComplete == Spec => []QueryComplete
<1>1. IInv => QueryComplete
  BY DEF IInv, QueryInv, QueryComplete
<1> QED
  BY <1>1, Invariance, PTL

(* The write path implements DurableLog: a record is stored, then acknowledged, and is
   forgotten by OnMemTableFlushed, an iterator close, a crash or a replay only if it was
   never acknowledged or a replay has put it at risk by logging it, or a record before it,
   again. *)
THEOREM RefinesDurableLog == Spec => ImplementsDurableLog
<1>1. IInv /\ IInv' /\ [Next]_vars => [Promise!Next]_<<OnDisk, acked, exposed>>
  <2>1. CASE Next
    BY <2>1, PromiseStep
  <2>2. CASE UNCHANGED vars
    BY <2>2 DEF vars, OnDisk, InFiles
  <2> QED
    BY <2>1, <2>2
<1> QED
  BY <1>1, PromiseInit, Invariance, PTL DEF Spec, ImplementsDurableLog, Promise!Spec
-----------------------------------------------------------------------------
(* Memtables are flushed in the order they were filled, and a WAL file lives exactly as long
   as its memtable or an iterator on it. *)

(* The flush goroutine holds a memtable only between receiving and flushing it, and runs
   only between Enable- and DisableSnapshots. *)
GoroutineInv ==
    /\ pc \in {"off", "loop", "recv"} => mt = NoFid
    /\ snapDone = "nil" => pc = "off"

(* Unless the application switched snapshots off, the goroutine is stopped by Close only,
   which has waited for every flush. *)
QuietInv ==
    /\ chClosed => phase = "closing" /\ wg = 0
    /\ budget.toggle = MaxToggles /\ Opened /\ snapDone # "open" => chClosed

(* imm is the memtable being flushed, what is in the channel, what is still to be sent. *)
AtWork == IF mt = NoFid THEN 0 ELSE 1
InOrderInv ==
    Opened /\ budget.toggle = MaxToggles =>
      /\ Len(imm) = AtWork + Len(flushCh) + Len(toSend)
      /\ mt # NoFid => imm[1] = mt
      /\ \A i \in DOMAIN flushCh : flushCh[i] = imm[i + AtWork]

(* The manager's reference to each memtable it holds, and one for each iterator: a WAL
   file exists while there is one.  During the replay the memtable being read has one as
   well, and the WALs that have been read are those of the memtables kept. *)
Restored == Loading \/ Opened
Replaying(f) == f = replay.fid /\ replay.at # "closed"
CountInv ==
    /\ Restored =>
         /\ \A f \in Fid : refs[f] = iters[f] + (IF f \in Held THEN 1 ELSE 0)
         /\ walFiles = Held \cup {f \in Fid : iters[f] > 0}
    /\ Offline => refs = [f \in Fid |-> 0]
    /\ phase = "replaying" =>
         /\ \A f \in Fid : refs[f] = IF f \in ImmSet \/ Replaying(f) THEN 1 ELSE 0
         /\ \A f \in walFiles : Replayed(f) => f \in ImmSet
         /\ ImmSet \subseteq walFiles

FlushInv == GoroutineInv /\ QuietInv /\ InOrderInv /\ CountInv


(* Before the engine is opened nothing is queued. *)
LEMMA InitFlush == Init => FlushInv
<1> SUFFICES ASSUME Init PROVE FlushInv
  OBVIOUS
<1> QED
  BY DEF Init, FlushInv, GoroutineInv, QuietInv, InOrderInv, CountInv, Restored, Loading, Opened, Offline

(* A running flush goroutine has an open engine. *)
LEMMA FlusherOpened == ASSUME IInv, pc # "off" \/ mt # NoFid \/ flushCh # <<>> PROVE Opened
  BY DEF IInv, TypeOK, OfflineInv, EngineType, Phases, Offline, Loading, Opened

(* A closed channel means there is nothing left to flush. *)
LEMMA ClosedEmpty ==
  ASSUME IInv, FlushInv, chClosed
  PROVE  imm = <<>> /\ flushCh = <<>> /\ mt = NoFid
<1> USE DEF IInv, TypeOK
<1>1. phase = "closing" /\ wg = 0
  BY DEF FlushInv, QuietInv
<1>2. toSend = <<>> /\ Opened
  BY <1>1 DEF OfflineInv, Opened
<1>3. Len(imm) = 0
  BY <1>1, <1>2 DEF SendInv, MemType
<1>4. imm = <<>> /\ ImmSet = {}
  BY <1>3 DEF MemType, ImmSet
<1>5. DOMAIN flushCh = {} /\ mt = NoFid
  BY <1>4 DEF QueueInv
<1> QED
  BY <1>4, <1>5 DEF MemType

(* A step of a restored engine that leaves the references and the WAL files alone. *)
LEMMA CountFrame ==
  ASSUME CountInv, Restored, Restored', UNCHANGED <<mem, imm, refs, iters, walFiles>>
  PROVE  CountInv'
  BY DEF CountInv, Restored, Loading, Opened, Offline, Held, ImmSet

(* The count of a restored engine is all that CountInv says of it. *)
LEMMA RestoredCount ==
  ASSUME Restored', \A f \in Fid : refs'[f] = iters'[f] + (IF f \in Held' THEN 1 ELSE 0),
         walFiles' = Held' \cup {f \in Fid : iters'[f] > 0}
  PROVE  CountInv'
  BY DEF CountInv, Restored, Loading, Opened, Offline

(* A step that leaves the queue, the references and the WAL files alone. *)
LEMMA FrameFlush ==
  ASSUME IInv, FlushInv, GoroutineInv',
         UNCHANGED <<mem, imm, flushCh, toSend, mt, wg, refs, iters, walFiles, chClosed>>,
         snapDone' = snapDone, budget'.toggle = budget.toggle,
         \/ phase' = phase /\ replay' = replay
         \/ Opened /\ Opened' /\ ~chClosed
  PROVE  FlushInv'
<1> USE DEF FlushInv
<1>1. QuietInv'
  BY DEF QuietInv, Opened
<1>2. InOrderInv'
  BY DEF InOrderInv, AtWork, Opened
<1>3. CountInv'
  <2>1. CASE phase' = phase /\ replay' = replay
    BY <2>1 DEF CountInv, Restored, Loading, Opened, Offline, Held, ImmSet, Replayed, Replaying
  <2>2. CASE Opened /\ Opened'
    BY <2>2, CountFrame DEF Restored
  <2> QED
    BY <2>1, <2>2
<1> QED
  BY <1>1, <1>2, <1>3

(* The steps of a writer that do not rotate, and of a query. *)
LEMMA ClientFlush ==
  ASSUME IInv, FlushInv,
         \/ QueryStep
         \/ \E w \in Writers : \/ WriteBatch(w) \/ EnsureNotFull(w) \/ WriteLog(w)
                               \/ WriteApply(w) \/ WriteConflict(w)
  PROVE  FlushInv'
<1>1. /\ UNCHANGED <<mem, imm, flushCh, toSend, mt, wg, refs, iters, walFiles, chClosed>>
      /\ UNCHANGED <<snapDone, phase, pc, replay>>
  BY DEF WriteBatch, EnsureNotFull, WriteLog, WriteApply, WriteConflict, QueryStep, QueryFirst,
         QuerySecond
<1>2. budget' = budget \/ Spend("conflict") \/ Spend("query")
  BY DEF WriteBatch, EnsureNotFull, WriteLog, WriteApply, WriteConflict, QueryStep, QueryFirst,
         QuerySecond
<1>3. budget'.toggle = budget.toggle
  BY <1>2 DEF IInv, TypeOK, ObserverType, Spend
<1>4. GoroutineInv'
  BY <1>1 DEF FlushInv, GoroutineInv
<1> QED
  BY <1>1, <1>3, <1>4, FrameFlush

(* EnsureMemForWrite that hands a memtable over: it goes to the end of imm and of flushCh
   in one step under the mutex, and the new memtable starts with one reference. *)
LEMMA RotateFlush ==
  ASSUME IInv, FlushInv, NEW w \in Writers, Rotate(w)
  PROVE  FlushInv'
<1> USE DEF FlushInv, IInv, TypeOK
<1>1. mem \in Fid /\ mem # NoFid /\ mem < nextMemFid /\ phase = "up" /\ toSend = <<>>
  BY DEF Rotate, MemType, OrderInv, OfflineInv
<1>2. /\ imm' = Append(imm, mem) /\ flushCh' = Append(flushCh, mem) /\ wg' = wg + 1
      /\ UNCHANGED <<chClosed, iters, phase, toSend, snapDone, pc, mt>>
      /\ budget' = budget \/ Spend("failure")
  BY DEF Rotate
<1>3. \/ /\ nextMemFid \in Fid /\ mem' = nextMemFid
         /\ walFiles' = walFiles \cup {nextMemFid}
         /\ refs' = [refs EXCEPT ![nextMemFid] = 1]
      \/ mem' = NoFid /\ UNCHANGED <<walFiles, refs>>
  BY DEF Rotate, NewMemTable
<1>4. budget'.toggle = budget.toggle
  BY <1>2 DEF ObserverType, Spend
<1>5. GoroutineInv' /\ QuietInv'
  BY <1>1, <1>2, <1>4 DEF GoroutineInv, QuietInv, Opened
<1>6. InOrderInv'
  <2> SUFFICES ASSUME budget.toggle = MaxToggles
               PROVE  /\ Len(imm)' = AtWork' + Len(flushCh)' + Len(toSend)'
                      /\ mt' # NoFid => imm'[1] = mt'
                      /\ \A i \in DOMAIN flushCh' : flushCh'[i] = imm'[i + AtWork']
    BY <1>4 DEF InOrderInv
  <2>1. /\ Len(imm) = AtWork + Len(flushCh) /\ Len(toSend') = 0
        /\ mt # NoFid => imm[1] = mt
        /\ \A i \in DOMAIN flushCh : flushCh[i] = imm[i + AtWork]
    BY <1>1, <1>2 DEF InOrderInv, Opened, AtWork, MemType
  <2>2. AtWork \in {0, 1} /\ AtWork' = AtWork /\ (mt # NoFid => AtWork = 1)
    BY <1>2 DEF AtWork
  <2>3. /\ Len(imm') = Len(imm) + 1 /\ Len(flushCh') = Len(flushCh) + 1
        /\ \A i \in 1..Len(imm) : imm'[i] = imm[i]
        /\ imm'[Len(imm) + 1] = mem
        /\ \A i \in 1..Len(flushCh) : flushCh'[i] = flushCh[i]
        /\ flushCh'[Len(flushCh) + 1] = mem
        /\ DOMAIN flushCh' = 1..(Len(flushCh) + 1)
        /\ Len(imm) \in Nat /\ Len(flushCh) \in Nat
    BY <1>1, <1>2 DEF MemType
  <2>4. Len(imm)' = AtWork' + Len(flushCh)' + Len(toSend)'
    BY <2>1, <2>2, <2>3
  <2>5. mt' # NoFid => imm'[1] = mt'
    BY <1>2, <2>1, <2>2, <2>3
  <2>6. ASSUME NEW i \in DOMAIN flushCh'
        PROVE  flushCh'[i] = imm'[i + AtWork']
    <3>1. CASE i \in 1..Len(flushCh)
      <4>1. flushCh[i] = imm[i + AtWork] /\ i + AtWork \in 1..Len(imm)
        BY <2>1, <2>2, <2>3, <3>1 DEF MemType
      <4> QED
        BY <2>2, <2>3, <3>1, <4>1
    <3>2. CASE i = Len(flushCh) + 1
      <4>1. i + AtWork = Len(imm) + 1
        BY <2>1, <2>2, <2>3, <3>2
      <4> QED
        BY <2>2, <2>3, <3>2, <4>1
    <3> QED
      BY <2>3, <2>6, <3>1, <3>2
  <2> QED
    BY <2>4, <2>5, <2>6
<1>7. CountInv'
  <2>1. /\ \A f \in Fid : refs[f] = iters[f] + (IF f \in Held THEN 1 ELSE 0)
        /\ walFiles = Held \cup {f \in Fid : iters[f] > 0}
    BY <1>1 DEF CountInv, Restored, Loading, Opened, Offline
  <2>2. ImmSet' = ImmSet \cup {mem}
    <3>1. /\ DOMAIN imm' = 1..(Len(imm) + 1) /\ DOMAIN imm = 1..Len(imm) /\ Len(imm) \in Nat
          /\ \A i \in DOMAIN imm' : imm'[i] = IF i \in DOMAIN imm THEN imm[i] ELSE mem
      BY <1>1, <1>2 DEF MemType
    <3>2. Len(imm) + 1 \in DOMAIN imm' /\ imm'[Len(imm) + 1] = mem
          /\ \A i \in DOMAIN imm : i \in DOMAIN imm' /\ imm'[i] = imm[i]
      BY <3>1
    <3>3. mem \in ImmSet' /\ ImmSet \subseteq ImmSet'
      BY <3>2 DEF ImmSet
    <3>4. ImmSet' \subseteq ImmSet \cup {mem}
      BY <3>1 DEF ImmSet
    <3> QED
      BY <3>3, <3>4
  <2>3. Held' = Held \cup ({mem'} \ {NoFid})
    BY <1>1, <2>2 DEF Held
  <2>0. Restored'
    BY <1>1, <1>2 DEF Restored, Opened
  <2>4. ASSUME mem' = NoFid, UNCHANGED <<walFiles, refs>> PROVE CountInv'
    BY <1>2, <2>0, <2>1, <2>3, <2>4, RestoredCount
  <2>5. CASE /\ nextMemFid \in Fid /\ mem' = nextMemFid
             /\ walFiles' = walFiles \cup {nextMemFid}
             /\ refs' = [refs EXCEPT ![nextMemFid] = 1]
    <3>1. iters[nextMemFid] = 0 /\ nextMemFid # NoFid
      BY <2>5 DEF OrderInv, Fid, NoFid
    <3>2. Held' = Held \cup {nextMemFid}
      BY <2>3, <2>5, <3>1
    <3>3. \A f \in Fid : refs'[f] = IF f = nextMemFid THEN 1 ELSE refs[f]
      BY <2>5 DEF CacheType
    <3>4. iters[nextMemFid] \in Nat /\ iters' = iters
      BY <1>2, <2>5 DEF CacheType
    <3>5. \A f \in Fid : refs'[f] = iters'[f] + (IF f \in Held' THEN 1 ELSE 0)
      BY <2>1, <3>1, <3>2, <3>3, <3>4
    <3>6. walFiles' = Held' \cup {f \in Fid : iters'[f] > 0}
      BY <2>1, <2>5, <3>2, <3>4
    <3> QED
      BY <2>0, <3>5, <3>6, RestoredCount
  <2> QED
    BY <1>3, <2>4, <2>5
<1> QED
  BY <1>5, <1>6, <1>7

(* Receiving a memtable moves it from the head of the channel to the goroutine. *)
LEMMA TakeFlush ==
  ASSUME IInv, FlushInv, TakeFlushMemTable
  PROVE  FlushInv'
<1> USE DEF FlushInv, IInv, TypeOK
<1>1. pc = "recv" /\ mt = NoFid /\ Opened
  BY FlusherOpened DEF TakeFlushMemTable, GoroutineInv
<1>2. UNCHANGED <<mem, imm, chClosed, wg, walFiles, refs, iters, snapDone, phase, toSend, budget,
                 replay>>
  BY DEF TakeFlushMemTable
<1>3. CASE flushCh = <<>> /\ pc' = "off" /\ UNCHANGED <<mt, flushCh>>
  BY <1>1, <1>2, <1>3, FrameFlush DEF GoroutineInv
<1>4. CASE flushCh # <<>> /\ mt' = Head(flushCh) /\ flushCh' = Tail(flushCh) /\ pc' = "check"
  <2>1. GoroutineInv' /\ QuietInv' /\ CountInv'
    BY <1>1, <1>2, <1>4 DEF GoroutineInv, QuietInv, CountInv, Held, ImmSet, Restored, Loading, Opened, Offline
  <2>2. InOrderInv'
    <3> SUFFICES ASSUME budget.toggle = MaxToggles
                 PROVE  /\ Len(imm) = AtWork' + Len(flushCh') + Len(toSend)
                        /\ mt' # NoFid => imm[1] = mt'
                        /\ \A i \in DOMAIN flushCh' : flushCh'[i] = imm[i + AtWork']
      BY <1>2 DEF InOrderInv
    <3>1. /\ Len(flushCh') = Len(flushCh) - 1 /\ mt' \in Fid /\ mt' = flushCh[1]
          /\ flushCh' \in Seq(Fid) /\ Len(flushCh) \in Nat \ {0}
          /\ \A i \in 1..Len(flushCh') : flushCh'[i] = flushCh[i + 1] /\ i + 1 \in DOMAIN flushCh
      BY <1>4, TailFacts DEF MemType
    <3>2. AtWork = 0 /\ AtWork' = 1
      BY <1>1, <3>1 DEF AtWork, Fid, NoFid
    <3>3. /\ Len(imm) = Len(flushCh) + Len(toSend)
          /\ \A i \in DOMAIN flushCh : flushCh[i] = imm[i]
      <4>1. /\ Len(imm) = 0 + Len(flushCh) + Len(toSend)
            /\ \A i \in DOMAIN flushCh : flushCh[i] = imm[i + 0]
        BY <1>1, <3>2 DEF InOrderInv
      <4> QED
        BY <4>1 DEF MemType, EngineType
    <3>4. 1 \in DOMAIN flushCh /\ DOMAIN flushCh' = 1..Len(flushCh')
      BY <3>1 DEF MemType
    <3>5. \A i \in DOMAIN flushCh' : flushCh'[i] = imm[i + 1]
      BY <3>1, <3>3, <3>4
    <3>6. Len(imm) = 1 + Len(flushCh') + Len(toSend)
      BY <3>1, <3>3 DEF EngineType
    <3> QED
      BY <3>1, <3>2, <3>3, <3>4, <3>5, <3>6
  <2> QED
    BY <2>1, <2>2
<1> QED
  BY <1>3, <1>4 DEF TakeFlushMemTable

(* Giving a memtable up on quit: with the switch untouched the quit channel is closed only
   once every memtable is flushed, so none is given up. *)
LEMMA CheckFlush ==
  ASSUME IInv, FlushInv, FlushCheck
  PROVE  FlushInv'
<1> USE DEF FlushInv, IInv, TypeOK
<1>1. pc = "check" /\ mt \in Fid /\ mt # NoFid /\ Opened
  BY FlusherOpened DEF FlushCheck, SnapshotInv, Fid, NoFid
<1>2. ~chClosed /\ snapDone # "nil"
  BY <1>1, ClosedEmpty DEF GoroutineInv
<1>3. /\ UNCHANGED <<mem, imm, flushCh, toSend, wg, refs, iters, walFiles, chClosed, snapDone>>
      /\ UNCHANGED <<phase, budget, replay>>
  BY DEF FlushCheck
<1>4. CASE pc' = "snap" /\ mt' = mt
  BY <1>2, <1>3, <1>4, FrameFlush DEF GoroutineInv
<1>5. CASE snapDone = "closed" /\ pc' = "loop" /\ mt' = NoFid
  <2>1. budget.toggle # MaxToggles
    BY <1>1, <1>2, <1>5 DEF QuietInv
  <2>2. GoroutineInv' /\ QuietInv' /\ InOrderInv'
    BY <1>2, <1>3, <1>5, <2>1 DEF GoroutineInv, QuietInv, InOrderInv, Opened
  <2>3. CountInv'
    BY <1>1, <1>3, CountFrame DEF Restored, Opened
  <2> QED
    BY <2>2, <2>3
<1> QED
  BY <1>4, <1>5 DEF FlushCheck

(* The steps of a flush that do not touch the manager. *)
LEMMA SnapshotFlush ==
  ASSUME IInv, FlushInv,
         \/ FlushLoop \/ SnapshotWritten \/ SnapshotFailed \/ SnapshotCollides \/ RenameTmp
         \/ ReplaceFailed \/ Install
  PROVE  FlushInv'
<1> USE DEF FlushInv
<1>1. /\ UNCHANGED <<mem, imm, flushCh, toSend, mt, wg, refs, iters, walFiles, chClosed>>
      /\ UNCHANGED <<snapDone, phase, replay>>
  BY DEF FlushLoop, SnapshotWritten, SnapshotFailed, SnapshotCollides, RenameTmp, ReplaceFailed,
         Install
<1>2. budget' = budget \/ Spend("failure")
  BY DEF FlushLoop, SnapshotWritten, SnapshotFailed, SnapshotCollides, RenameTmp, ReplaceFailed,
         Install
<1>3. budget'.toggle = budget.toggle
  BY <1>2 DEF IInv, TypeOK, ObserverType, Spend
<1>4. \/ pc = "loop" /\ pc' \in {"off", "recv"}
      \/ /\ pc \in {"encode", "rename", "install"}
         /\ pc' \in {"check", "rename", "install", "flushed"}
  BY DEF FlushLoop, SnapshotWritten, SnapshotFailed, SnapshotCollides, RenameTmp, ReplaceFailed,
         Install
<1>5. GoroutineInv'
  BY <1>1, <1>4 DEF GoroutineInv
<1> QED
  BY <1>1, <1>3, <1>5, FrameFlush

(* Cache.Split: the iterator brings its own reference. *)
LEMMA SplitFlush ==
  ASSUME IInv, FlushInv, SnapshotStart
  PROVE  FlushInv'
<1> USE DEF FlushInv, IInv, TypeOK
<1>1. pc = "snap" /\ mt \in Fid /\ Opened /\ mt \in Held
  BY FlusherOpened DEF SnapshotStart, SnapshotInv, QueueInv, Held, Fid, NoFid
<1>2. /\ UNCHANGED <<mem, imm, flushCh, toSend, mt, wg, walFiles, chClosed, snapDone>>
      /\ UNCHANGED <<phase, budget>> /\ pc' \in {"check", "encode"}
  BY DEF SnapshotStart
<1>3. GoroutineInv' /\ QuietInv' /\ InOrderInv'
  BY <1>1, <1>2 DEF GoroutineInv, QuietInv, InOrderInv, AtWork, Opened
<1>4. /\ \A f \in Fid : refs[f] = iters[f] + (IF f \in Held THEN 1 ELSE 0)
      /\ walFiles = Held \cup {f \in Fid : iters[f] > 0}
  BY <1>1 DEF CountInv, Restored, Loading, Opened, Offline
<1>5. Held' = Held
  BY <1>2 DEF Held, ImmSet
<1>0. Restored'
  BY <1>1, <1>2 DEF Restored, Opened
<1>6. ASSUME UNCHANGED <<refs, iters>> PROVE CountInv'
  BY <1>0, <1>2, <1>4, <1>5, <1>6, RestoredCount
<1>7. ASSUME CacheSplit PROVE CountInv'
  <2>1. \A f \in Fid : /\ refs'[f] = IF f = mt THEN refs[f] + 1 ELSE refs[f]
                       /\ iters'[f] = IF f = mt THEN iters[f] + 1 ELSE iters[f]
                       /\ refs[f] \in Nat /\ iters[f] \in Nat
    BY <1>7 DEF CacheSplit, CacheType
  <2>2. \A f \in Fid : refs'[f] = iters'[f] + (IF f \in Held' THEN 1 ELSE 0)
    BY <1>4, <1>5, <2>1
  <2>3. walFiles' = Held' \cup {f \in Fid : iters'[f] > 0}
    BY <1>1, <1>2, <1>4, <1>5, <2>1
  <2> QED
    BY <1>0, <2>2, <2>3, RestoredCount
<1> QED
  BY <1>3, <1>6, <1>7 DEF SnapshotStart

(* Cache.Deref of a reference that is counted: the WAL file goes exactly when neither the
   manager nor an iterator is left. *)
LEMMA DerefCount ==
  ASSUME IInv, CountInv, Restored, Restored', NEW f \in Fid, Deref(f),
         \A g \in Fid \ {f} : iters'[g] = iters[g] /\ (g \in Held' <=> g \in Held),
         iters'[f] + (IF f \in Held' THEN 1 ELSE 0) = refs[f] - 1,
         iters'[f] \in Nat, Held' \subseteq Fid
  PROVE  CountInv'
<1> USE DEF IInv, TypeOK
<1>1. /\ \A g \in Fid : refs[g] = iters[g] + (IF g \in Held THEN 1 ELSE 0)
      /\ walFiles = Held \cup {g \in Fid : iters[g] > 0}
  BY DEF CountInv
<1>2. Held \subseteq Fid /\ walFiles \subseteq Fid
  BY HeldType DEF DiskType
<1>3. \A g \in Fid : refs'[g] = IF g = f THEN refs[g] - 1 ELSE refs[g]
  BY DEF Deref, CacheType
<1>4. \A g \in Fid : refs'[g] = iters'[g] + (IF g \in Held' THEN 1 ELSE 0)
  BY <1>1, <1>3
<1>5. walFiles' = IF refs[f] = 1 THEN walFiles \ {f} ELSE walFiles
  BY DEF Deref
<1>6. refs[f] \in Nat
  BY DEF CacheType
<1>7. refs[f] = 1 <=> (f \notin Held' /\ ~(iters'[f] > 0))
  BY <1>6
<1>8. f \in walFiles
  BY <1>1, <1>6 DEF CacheType
<1>9. \A g \in Fid : g \in walFiles' <=> (g \in Held' \/ iters'[g] > 0)
  BY <1>1, <1>5, <1>7, <1>8
<1>10. walFiles' = Held' \cup {g \in Fid : iters'[g] > 0}
  BY <1>2, <1>5, <1>9
<1> QED
  BY <1>4, <1>10, RestoredCount

(* A flushed memtable leaves imm, from the front, with the manager's reference. *)
LEMMA FlushedFlush ==
  ASSUME IInv, IInv', FlushInv, OnMemTableFlushed
  PROVE  FlushInv'
<1> USE DEF FlushInv, IInv, TypeOK
<1>1. pc = "flushed" /\ mt \in Fid /\ Opened /\ mt # NoFid
  <2>1. pc = "flushed" /\ mt \in Fid
    BY DEF OnMemTableFlushed, SnapshotInv
  <2> QED
    BY <2>1, FlusherOpened DEF Fid, NoFid
<1>2. /\ UNCHANGED <<mem, flushCh, chClosed, iters, phase, toSend, snapDone, budget>>
      /\ pc' = "loop" /\ mt' = NoFid
  BY DEF OnMemTableFlushed
<1>3. ~chClosed /\ snapDone # "nil"
  BY <1>1, ClosedEmpty DEF GoroutineInv
<1>4. GoroutineInv' /\ QuietInv'
  BY <1>1, <1>2, <1>3 DEF GoroutineInv, QuietInv, Opened
<1>5. AtWork = 1 /\ AtWork' = 0
  BY <1>1, <1>2 DEF AtWork
<1>6. CASE imm # <<>> /\ Head(imm) = mt /\ imm' = Tail(imm) /\ Deref(mt)
  <2>1. /\ imm[1] = mt /\ Len(imm) \in Nat \ {0} /\ Len(imm') = Len(imm) - 1
        /\ \A i \in 1..Len(imm') : imm'[i] = imm[i + 1] /\ i + 1 \in DOMAIN imm
    BY <1>6, TailFacts DEF MemType
  <2>2. /\ DOMAIN imm = 1..Len(imm) /\ DOMAIN imm' = 1..Len(imm')
        /\ 1 \in DOMAIN imm
    BY <2>1 DEF MemType
  <2>3. InOrderInv'
    <3> SUFFICES ASSUME budget.toggle = MaxToggles
                 PROVE  /\ Len(imm') = 0 + Len(flushCh) + Len(toSend)
                        /\ \A i \in DOMAIN flushCh : flushCh[i] = imm'[i + 0]
      BY <1>2, <1>5 DEF InOrderInv
    <3>1. /\ Len(imm) = 1 + Len(flushCh) + Len(toSend)
          /\ \A i \in DOMAIN flushCh : flushCh[i] = imm[i + 1]
      BY <1>1, <1>5 DEF InOrderInv
    <3>2. Len(flushCh) \in Nat /\ Len(toSend) \in Nat /\ DOMAIN flushCh = 1..Len(flushCh)
      BY DEF MemType, EngineType
    <3>3. Len(imm') = 0 + Len(flushCh) + Len(toSend)
      BY <2>1, <3>1, <3>2
    <3>4. ASSUME NEW i \in DOMAIN flushCh
          PROVE  flushCh[i] = imm'[i + 0]
      <4>1. i \in 1..Len(imm') /\ i + 0 = i
        BY <3>2, <3>3, <3>4
      <4> QED
        BY <2>1, <3>1, <3>4, <4>1
    <3> QED
      BY <3>3, <3>4
  <2>4. ImmSet' = ImmSet \ {mt}
    <3>1. \A i \in DOMAIN imm' : imm'[i] \in ImmSet
      BY <2>1, <2>2 DEF ImmSet
    <3>2. \A i \in DOMAIN imm' : imm'[i] # mt
      <4>1. ASSUME NEW i \in DOMAIN imm'
            PROVE  mt < imm'[i]
        <5>1. i + 1 \in DOMAIN imm /\ 1 < i + 1 /\ imm'[i] = imm[i + 1]
          BY <2>1, <2>2, <4>1
        <5> QED
          BY <2>1, <2>2, <5>1 DEF OrderInv
      <4>2. \A i \in DOMAIN imm' : imm'[i] \in Fid
        BY <2>2 DEF MemType
      <4> QED
        BY <1>1, <4>1, <4>2 DEF Fid
    <3>3. \A i \in DOMAIN imm : imm[i] # mt => imm[i] \in ImmSet'
      <4>1. ASSUME NEW i \in DOMAIN imm, imm[i] # mt
            PROVE  i - 1 \in DOMAIN imm' /\ imm'[i - 1] = imm[i]
        BY <2>1, <2>2, <4>1
      <4> QED
        BY <4>1 DEF ImmSet
    <3> QED
      BY <3>1, <3>2, <3>3 DEF ImmSet
  <2>5. mt # mem
    BY <1>1 DEF OrderInv, Older, Fid, NoFid
  <2>6. Held' = Held \ {mt} /\ mt \in Held
    <3>1. mt \in ImmSet
      BY <2>1, <2>2 DEF ImmSet
    <3> QED
      BY <1>2, <2>4, <2>5, <3>1 DEF Held
  <2>7. /\ Restored /\ Restored'
        /\ \A g \in Fid \ {mt} : iters'[g] = iters[g] /\ (g \in Held' <=> g \in Held)
    BY <1>1, <1>2, <2>6 DEF Restored, Opened
  <2>8. refs[mt] = iters[mt] + 1 /\ iters[mt] \in Nat
    BY <1>1, <2>6, <2>7 DEF CountInv, CacheType
  <2>9. Held' \subseteq Fid
    BY <2>6, HeldType
  <2>10. CountInv'
    <3>1. iters'[mt] + (IF mt \in Held' THEN 1 ELSE 0) = refs[mt] - 1 /\ iters'[mt] \in Nat
      BY <1>2, <2>6, <2>8
    <3> HIDE DEF IInv, FlushInv, TypeOK
    <3> QED
      BY <1>1, <1>6, <2>7, <2>9, <3>1, DerefCount DEF FlushInv
  <2> QED
    BY <1>4, <2>3, <2>10
<1>7. CASE ~(imm # <<>> /\ Head(imm) = mt) /\ UNCHANGED <<imm, refs, walFiles>>
  <2>1. budget.toggle # MaxToggles
    <3> SUFFICES ASSUME budget.toggle = MaxToggles PROVE FALSE
      OBVIOUS
    <3>1. Len(imm) = 1 + Len(flushCh) + Len(toSend) /\ imm[1] = mt
      BY <1>1, <1>5 DEF InOrderInv
    <3>2. imm # <<>>
      BY <3>1 DEF MemType, EngineType
    <3> QED
      BY <1>7, <3>1, <3>2, TailFacts DEF MemType
  <2>2. InOrderInv'
    BY <1>2, <1>7, <2>1 DEF InOrderInv
  <2>3. CountInv'
    BY <1>1, <1>2, <1>7, CountFrame DEF Restored, Opened
  <2> QED
    BY <1>4, <2>2, <2>3
<1> QED
  BY <1>6, <1>7 DEF OnMemTableFlushed

(* An iterator closes and drops its reference. *)
LEMMA IterFlush ==
  ASSUME IInv, IInv', FlushInv, NEW f \in Fid, IterClose(f)
  PROVE  FlushInv'
<1>1. /\ UNCHANGED <<mem, imm, flushCh, chClosed, wg, phase, toSend, snapDone, pc, mt, budget>>
      /\ iters' = [iters EXCEPT ![f] = @ - 1] /\ Deref(f)
      /\ iters[f] > IF pc = "encode" /\ mt = f THEN 1 ELSE 0
  BY DEF IterClose
<1>2. iters \in [Fid -> Nat] /\ refs \in [Fid -> Nat]
  BY DEF IInv, TypeOK, CacheType
<1>3. iters[f] \in Nat \ {0}
  BY <1>1, <1>2
<1>4. Restored /\ Restored'
  <2>1. ~Restored => iters[f] = 0
    BY DEF IInv, OfflineInv, TypeOK, EngineType, Phases, Restored, Loading, Opened, Offline
  <2> QED
    BY <1>1, <1>3, <2>1 DEF Restored, Loading, Opened
<1>5. /\ \A g \in Fid \ {f} : iters'[g] = iters[g]
      /\ iters'[f] = iters[f] - 1 /\ iters'[f] \in Nat
  BY <1>1, <1>2, <1>3
<1>6. Held' = Held
  BY <1>1 DEF Held, ImmSet
<1>7. Held' \subseteq Fid
  BY <1>6, HeldType DEF IInv, TypeOK
<1>8. refs[f] = iters[f] + (IF f \in Held THEN 1 ELSE 0)
  BY <1>4 DEF FlushInv, CountInv
<1>9. iters'[f] + (IF f \in Held' THEN 1 ELSE 0) = refs[f] - 1
  BY <1>3, <1>5, <1>6, <1>8
<1>10. CountInv'
  BY <1>1, <1>4, <1>5, <1>6, <1>7, <1>9, DerefCount DEF FlushInv
<1>11. GoroutineInv' /\ QuietInv' /\ InOrderInv'
  BY <1>1 DEF FlushInv, GoroutineInv, QuietInv, InOrderInv, AtWork, Opened
<1> QED
  BY <1>10, <1>11 DEF FlushInv

(* A step that stays within restoreMemTables, or ends it, moves nothing else. *)
LEMMA LoadFlush ==
  ASSUME FlushInv, phase \in {"down", "replaying"}, ~Opened',
         UNCHANGED <<chClosed, wg, snapDone, pc, mt>>
  PROVE  GoroutineInv' /\ QuietInv' /\ InOrderInv'
  BY DEF FlushInv, GoroutineInv, QuietInv, InOrderInv

(* restoreMemTables starts without a reference. *)
LEMMA NewEngineFlush ==
  ASSUME IInv, FlushInv, NewEngine
  PROVE  FlushInv'
<1>1. /\ phase = "down" /\ phase' = "replaying" /\ replay' = NoReplay
      /\ UNCHANGED <<imm, refs, walFiles, chClosed, wg, snapDone, pc, mt>>
  BY DEF NewEngine
<1>2. imm = <<>> /\ refs = [f \in Fid |-> 0] /\ walFiles \subseteq Fid
  BY <1>1 DEF IInv, OfflineInv, TypeOK, DiskType, Offline, FlushInv, CountInv
<1>3. ImmSet' = {} /\ \A f \in Fid : ~Replayed(f)' /\ ~Replaying(f)'
  BY <1>1, <1>2 DEF ImmSet, Replayed, Replaying, NoReplay, NoFid, Fid
<1>4. CountInv'
  BY <1>1, <1>2, <1>3 DEF CountInv, Restored, Loading, Opened, Offline
<1> QED
  BY <1>1, <1>4, LoadFlush DEF FlushInv, Opened

(* The next WAL is opened: its memtable has its reference, and no WAL is passed over. *)
LEMMA OpenMemTableFlush ==
  ASSUME IInv, FlushInv, OpenMemTable
  PROVE  FlushInv'
<1>1. /\ phase = "replaying" /\ replay.at = "closed"
      /\ UNCHANGED <<imm, walFiles, phase, chClosed, wg, snapDone, pc, mt>>
  BY DEF OpenMemTable
<1>2. PICK f \in walFiles :
        /\ replay.fid < f
        /\ \A g \in walFiles : replay.fid < g => f <= g
        /\ replay' = [fid |-> f, at |-> "level"]
        /\ refs' = [refs EXCEPT ![f] = 1]
  BY DEF OpenMemTable
<1>3. walFiles \subseteq Fid /\ refs \in [Fid -> Nat] /\ replay.fid \in Nat
  BY DEF IInv, TypeOK, DiskType, CacheType, EngineType, Fid, NoFid
<1>4. /\ \A g \in Fid : refs[g] = IF g \in ImmSet THEN 1 ELSE 0
      /\ \A g \in walFiles : Replayed(g) => g \in ImmSet
      /\ ImmSet \subseteq walFiles
  BY <1>1 DEF FlushInv, CountInv, Replaying
<1>5. ImmSet' = ImmSet /\ replay'.fid = f /\ replay'.at = "level"
  BY <1>1, <1>2 DEF ImmSet
<1>6. \A g \in Fid : refs'[g] = IF g \in ImmSet \/ g = f THEN 1 ELSE 0
  BY <1>2, <1>3, <1>4
<1>7. ASSUME NEW g \in walFiles, Replayed(g)'
      PROVE  g \in ImmSet
  <2>1. g < f /\ g \in Nat /\ f \in Nat
    BY <1>3, <1>5, <1>7 DEF Replayed, Fid
  <2>2. g <= replay.fid
    BY <1>2, <1>3, <2>1
  <2>3. Replayed(g)
    BY <1>1, <1>3, <2>1, <2>2 DEF Replayed
  <2> QED
    BY <1>4, <2>3
<1>8. CountInv'
  BY <1>1, <1>4, <1>5, <1>6, <1>7 DEF CountInv, Restored, Loading, Opened, Offline, Replaying
<1> QED
  BY <1>1, <1>8, LoadFlush DEF FlushInv, Opened

(* Reading and logging records moves no reference. *)
LEMMA ReplayFlush ==
  ASSUME IInv, FlushInv, ReplayRecord \/ ReplayBreaks
  PROVE  FlushInv'
<1>1. /\ phase = "replaying"
      /\ UNCHANGED <<imm, refs, walFiles, phase, chClosed, wg, snapDone, pc, mt>>
  BY DEF ReplayRecord, ReplayBreaks
<1>2. replay'.fid = replay.fid /\ (replay'.at = "closed" <=> replay.at = "closed")
  <2>1. CASE ReplayBreaks
    BY <2>1 DEF ReplayBreaks
  <2>2. CASE ReplayRecord
    <3>1. PICK w \in Write \ conflicts :
            NextUnread(w) /\ \E at \in Drift(w) : replay' = [replay EXCEPT !.at = at]
      BY <2>2 DEF ReplayRecord
    <3>2. PICK at \in Drift(w) : replay' = [replay EXCEPT !.at = at]
      BY <3>1
    <3>3. replay.at # "closed"
      BY <3>1 DEF NextUnread, Unread
    <3>4. at # "closed"
      BY <3>3 DEF Drift
    <3> QED
      BY <3>2, <3>3, <3>4 DEF IInv, TypeOK, EngineType
  <2> QED
    BY <2>1, <2>2
<1>3. ImmSet' = ImmSet
  BY <1>1 DEF ImmSet
<1>4. \A f : (Replayed(f)' <=> Replayed(f)) /\ (Replaying(f)' <=> Replaying(f))
  BY <1>2 DEF Replayed, Replaying
<1>5. CountInv'
  BY <1>1, <1>3, <1>4 DEF FlushInv, CountInv, Restored, Loading, Opened, Offline
<1> QED
  BY <1>1, <1>5, LoadFlush DEF FlushInv, Opened

(* A failed NewEngine leaves no reference. *)
LEMMA RestoreFailsFlush ==
  ASSUME IInv, FlushInv, RestoreFails
  PROVE  FlushInv'
<1>1. /\ phase = "replaying" /\ phase' = "broken" /\ refs' = [f \in Fid |-> 0]
      /\ UNCHANGED <<chClosed, wg, snapDone, pc, mt>>
  BY DEF RestoreFails
<1>2. CountInv'
  BY <1>1 DEF CountInv, Restored, Loading, Opened, Offline
<1> QED
  BY <1>1, <1>2, LoadFlush DEF FlushInv, Opened

(* The count between two WALs. *)
LEMMA ReplayingCount ==
  ASSUME phase' = "replaying", \A g \in Fid : ~Replaying(g)',
         \A g \in Fid : refs'[g] = IF g \in ImmSet' THEN 1 ELSE 0,
         \A g \in walFiles' : Replayed(g)' => g \in ImmSet', ImmSet' \subseteq walFiles'
  PROVE  CountInv'
  BY DEF CountInv, Restored, Loading, Opened, Offline

(* A restored memtable keeps its reference and its WAL, or loses both. *)
LEMMA AddRestoredFlush ==
  ASSUME IInv, FlushInv, AddRestored
  PROVE  FlushInv'
<1> DEFINE f == replay.fid
<1>1. /\ phase = "replaying" /\ replay.at # "closed"
      /\ replay' = [replay EXCEPT !.at = "closed"]
      /\ UNCHANGED <<phase, chClosed, wg, snapDone, pc, mt>>
  BY DEF AddRestored
<1>2. /\ f \in Fid /\ f \in walFiles /\ replay'.fid = f /\ replay'.at = "closed"
      /\ refs \in [Fid -> Nat] /\ walFiles \subseteq Fid
  BY <1>1 DEF IInv, ReplayInv, TypeOK, DiskType, CacheType, EngineType
<1>3. /\ \A g \in Fid : refs[g] = IF g \in ImmSet \/ g = f THEN 1 ELSE 0
      /\ \A g \in walFiles : Replayed(g) => g \in ImmSet
      /\ ImmSet \subseteq walFiles
  BY <1>1 DEF FlushInv, CountInv, Replaying
<1>4. f \notin ImmSet
  BY <1>1, <1>2 DEF IInv, ReplayInv, Replayed, Fid
<1>5. \A g \in Fid : ~Replaying(g)' /\ (Replayed(g)' => g = f \/ Replayed(g))
  BY <1>1, <1>2 DEF Replayed, Replaying, Fid
<1> HIDE DEF f
<1>6. ASSUME Deref(f), UNCHANGED imm
      PROVE  CountInv'
  <2>1. refs[f] = 1
    BY <1>2, <1>3
  <2>2. walFiles' = walFiles \ {f} /\ refs' = [refs EXCEPT ![f] = @ - 1] /\ ImmSet' = ImmSet
    BY <1>6, <2>1 DEF Deref, ImmSet
  <2>3. \A g \in Fid : refs'[g] = IF g \in ImmSet THEN 1 ELSE 0
    BY <1>2, <1>3, <1>4, <2>1, <2>2
  <2>4. ImmSet \subseteq walFiles'
    BY <1>3, <1>4, <2>2
  <2>5. \A g \in walFiles' : Replayed(g)' => g \in ImmSet
    BY <1>2, <1>3, <1>5, <2>2
  <2> QED
    BY <1>1, <1>5, <2>2, <2>3, <2>4, <2>5, ReplayingCount
<1>7. ASSUME imm' = Append(imm, f), UNCHANGED <<refs, walFiles, walOf, cached>>
      PROVE  CountInv'
  <2>1. ImmSet' = ImmSet \cup {f}
    <3>1. /\ \A i \in DOMAIN imm' : imm'[i] = IF i \in DOMAIN imm THEN imm[i] ELSE f
          /\ \A i \in DOMAIN imm : imm'[i] = imm[i] /\ i \in DOMAIN imm'
          /\ imm'[Len(imm) + 1] = f /\ Len(imm) + 1 \in DOMAIN imm'
      BY <1>2, <1>7 DEF IInv, TypeOK, MemType
    <3> QED
      BY <3>1 DEF ImmSet
  <2>2. \A g \in Fid : refs'[g] = IF g \in ImmSet' THEN 1 ELSE 0
    BY <1>3, <1>7, <2>1
  <2>3. \A g \in walFiles' : Replayed(g)' => g \in ImmSet'
    BY <1>2, <1>3, <1>5, <1>7, <2>1
  <2>4. ImmSet' \subseteq walFiles'
    BY <1>2, <1>3, <1>7, <2>1
  <2> QED
    BY <1>1, <1>5, <2>2, <2>3, <2>4, ReplayingCount
<1>8. CountInv'
  <2>1. \/ Deref(f) /\ UNCHANGED imm
        \/ imm' = Append(imm, f) /\ UNCHANGED <<refs, walFiles, walOf, cached>>
    BY Zenon DEF AddRestored, f
  <2> QED
    BY <1>6, <1>7, <2>1
<1> QED
  BY <1>1, <1>8, LoadFlush DEF FlushInv, Opened

(* restoreMemTables: one reference for each restored memtable, no other WAL is left. *)
LEMMA RestoreDoneFlush ==
  ASSUME IInv, FlushInv, RestoreDone
  PROVE  FlushInv'
<1>1. /\ phase = "replaying" /\ replay.at = "closed" /\ phase' = "restored"
      /\ \A f \in walFiles : f <= replay.fid
      /\ UNCHANGED <<mem, imm, refs, iters, walFiles, chClosed, wg, snapDone, pc, mt>>
  BY DEF RestoreDone
<1>2. mem = NoFid /\ iters = [f \in Fid |-> 0]
  BY <1>1, ReplayAlone
<1>3. /\ \A g \in Fid : refs[g] = IF g \in ImmSet THEN 1 ELSE 0
      /\ \A g \in walFiles : Replayed(g) => g \in ImmSet
      /\ ImmSet \subseteq walFiles
  BY <1>1 DEF FlushInv, CountInv, Replaying
<1>4. walFiles \subseteq Fid /\ replay.fid \in Nat
  BY DEF IInv, TypeOK, DiskType, EngineType, Fid, NoFid
<1>5. \A g \in walFiles : Replayed(g)
  BY <1>1, <1>4 DEF Replayed, Fid
<1>6. Held' = walFiles' /\ Held' = ImmSet
  BY <1>1, <1>2, <1>3, <1>5 DEF Held, ImmSet
<1>7. \A f \in Fid : iters'[f] = 0
  BY <1>1, <1>2
<1>8. {f \in Fid : iters'[f] > 0} = {}
  BY <1>7
<1>9. \A f \in Fid : refs'[f] = iters'[f] + (IF f \in Held' THEN 1 ELSE 0)
  BY <1>1, <1>3, <1>6, <1>7
<1>10. CountInv'
  BY <1>1, <1>6, <1>8, <1>9 DEF CountInv, Offline
<1> QED
  BY <1>1, <1>10, LoadFlush DEF FlushInv, Opened

(* newMemTable: one reference, one WAL. *)
LEMMA NewMemManagerFlush ==
  ASSUME IInv, IInv', FlushInv, NewMemManager
  PROVE  FlushInv'
<1> USE DEF FlushInv, IInv, TypeOK
<1>1. /\ phase = "restored" /\ phase' = "new" /\ mem = NoFid
      /\ iters = [f \in Fid |-> 0]
  BY DEF NewMemManager, OfflineInv, Loading
<1>2. /\ nextMemFid \in Fid /\ mem' = nextMemFid
      /\ walFiles' = walFiles \cup {nextMemFid}
      /\ refs' = [refs EXCEPT ![nextMemFid] = 1]
      /\ UNCHANGED <<imm, chClosed, iters, snapDone, pc, mt>>
  BY DEF NewMemManager, NewMemTable
<1>3. Held' = Held \cup {nextMemFid}
  BY <1>1, <1>2 DEF Held, ImmSet, Fid, NoFid
<1>4. \A f \in Fid : iters'[f] = 0 /\ iters[f] = 0
  BY <1>1, <1>2
<1>5. /\ \A f \in Fid : refs[f] = 0 + (IF f \in Held THEN 1 ELSE 0)
      /\ walFiles = Held \cup {f \in Fid : iters[f] > 0}
  BY <1>1, <1>4 DEF CountInv, Restored, Loading, Opened, Offline
<1>6. \A f \in Fid : refs'[f] = iters'[f] + (IF f \in Held' THEN 1 ELSE 0)
  BY <1>2, <1>3, <1>4, <1>5 DEF CacheType
<1>7. walFiles' = Held' \cup {f \in Fid : iters'[f] > 0}
  BY <1>2, <1>3, <1>5
<1>8. CountInv'
  BY <1>1, <1>6, <1>7, RestoredCount DEF Restored, Loading
<1>9. GoroutineInv' /\ QuietInv' /\ InOrderInv'
  BY <1>1, <1>2 DEF GoroutineInv, QuietInv, InOrderInv, Opened
<1> QED
  BY <1>8, <1>9

(* Engine.Open: all of imm is still to be sent. *)
LEMMA OpenFlush ==
  ASSUME IInv, IInv', FlushInv, Open
  PROVE  FlushInv'
<1> USE DEF FlushInv, IInv, TypeOK
<1>1. /\ phase = "new" /\ phase' = "opening" /\ mt = NoFid /\ flushCh = <<>>
      /\ snapDone' = "open" /\ pc' = "loop" /\ toSend' = imm
      /\ UNCHANGED <<mem, imm, flushCh, chClosed, refs, iters, walFiles, mt, budget>>
  BY DEF Open, OfflineInv, Loading
<1>2. GoroutineInv' /\ CountInv'
  BY <1>1 DEF GoroutineInv, CountInv, Held, ImmSet, Restored, Loading, Opened, Offline
<1>3. ~chClosed
  BY <1>1 DEF QuietInv
<1>4. QuietInv'
  BY <1>1, <1>3 DEF QuietInv
<1>5. Len(imm') = AtWork' + Len(flushCh') + Len(toSend')
  <2>1. AtWork' = 0 /\ Len(flushCh') = 0 /\ Len(imm) \in Nat /\ Len(imm') = Len(imm)
        /\ Len(toSend') = Len(imm)
    BY <1>1 DEF AtWork, MemType
  <2> QED
    BY <2>1
<1>6. InOrderInv'
  BY <1>1, <1>5 DEF InOrderInv
<1> QED
  BY <1>2, <1>4, <1>6

(* MemManager.Open moves the next memtable from what is to be sent to the channel. *)
LEMMA SendFlush ==
  ASSUME IInv, IInv', FlushInv, SendRestored
  PROVE  FlushInv'
<1> USE DEF FlushInv, IInv, TypeOK
<1>1. /\ phase = "opening" /\ toSend # <<>>
      /\ flushCh' = Append(flushCh, Head(toSend)) /\ toSend' = Tail(toSend)
      /\ wg' = wg + 1
      /\ UNCHANGED <<mem, imm, chClosed, refs, iters, phase, snapDone, walFiles, pc, mt, budget>>
  BY DEF SendRestored
<1>2. GoroutineInv' /\ CountInv' /\ QuietInv'
  BY <1>1 DEF GoroutineInv, CountInv, QuietInv, Held, ImmSet, Restored, Loading, Opened, Offline
<1>3. InOrderInv'
  <2> SUFFICES ASSUME budget.toggle = MaxToggles
               PROVE  /\ Len(imm) = AtWork + Len(flushCh') + Len(toSend')
                      /\ mt # NoFid => imm[1] = mt
                      /\ \A i \in DOMAIN flushCh' : flushCh'[i] = imm[i + AtWork]
    BY <1>1 DEF InOrderInv, AtWork
  <2>1. /\ Len(imm) = AtWork + Len(flushCh) + Len(toSend)
        /\ mt # NoFid => imm[1] = mt
        /\ \A i \in DOMAIN flushCh : flushCh[i] = imm[i + AtWork]
        /\ AtWork \in {0, 1}
    BY <1>1 DEF InOrderInv, Opened, AtWork
  <2>2. /\ Len(toSend') = Len(toSend) - 1 /\ Len(toSend) \in Nat \ {0}
        /\ Head(toSend) \in Fid /\ Head(toSend) = toSend[1] /\ 1 \in DOMAIN toSend
    BY <1>1, TailFacts DEF EngineType
  <2>3. toSend[1] = imm[1 + Len(imm) - Len(toSend)]
    BY <2>2 DEF SendInv
  <2>4. /\ Len(flushCh) \in Nat /\ Len(flushCh') = Len(flushCh) + 1
        /\ DOMAIN flushCh' = 1..(Len(flushCh) + 1) /\ DOMAIN flushCh = 1..Len(flushCh)
        /\ \A i \in 1..Len(flushCh) : flushCh'[i] = flushCh[i]
        /\ flushCh'[Len(flushCh) + 1] = Head(toSend)
    BY <1>1, <2>2 DEF MemType
  <2>5. 1 + Len(imm) - Len(toSend) = Len(flushCh) + 1 + AtWork
    BY <2>1, <2>2, <2>4
  <2>6. flushCh'[Len(flushCh) + 1] = imm[Len(flushCh) + 1 + AtWork]
    BY <2>2, <2>3, <2>4, <2>5
  <2>7. \A i \in DOMAIN flushCh' : flushCh'[i] = imm[i + AtWork]
    BY <2>1, <2>4, <2>6
  <2>8. Len(imm) = AtWork + Len(flushCh') + Len(toSend')
    BY <2>1, <2>2, <2>4
  <2> QED
    BY <2>1, <2>7, <2>8
<1> QED
  BY <1>2, <1>3

(* The other steps of opening and closing. *)
LEMMA CleanupFlush ==
  ASSUME IInv, IInv', FlushInv, CleanupGlob \/ CleanupRemove \/ CloseBegin
  PROVE  FlushInv'
<1>1. /\ UNCHANGED <<mem, imm, flushCh, toSend, mt, wg, refs, iters, walFiles, chClosed>>
      /\ UNCHANGED <<snapDone, pc>>
      /\ budget' = budget \/ Spend("close")
  BY DEF CleanupGlob, CleanupRemove, CloseBegin
<1>2. budget'.toggle = budget.toggle
  BY <1>1 DEF IInv, TypeOK, ObserverType, Spend
<1>3. phase # "closing"
  BY DEF CleanupGlob, CleanupRemove, CloseBegin
<1>4. ~chClosed
  BY <1>3 DEF FlushInv, QuietInv
<1>5. Opened /\ Opened'
  BY DEF CleanupGlob, CleanupRemove, CloseBegin, Opened
<1>6. GoroutineInv'
  BY <1>1 DEF FlushInv, GoroutineInv
<1> QED
  BY <1>1, <1>2, <1>4, <1>5, <1>6, FrameFlush

(* Switching snapshots off and on, and MemManager.Close. *)
LEMMA SwitchFlush ==
  ASSUME IInv, IInv', FlushInv,
         DisableSnapshots \/ DisableSnapshotsDone \/ EnableSnapshots \/ CloseMemManager
  PROVE  FlushInv'
<1> USE DEF FlushInv
<1>1. /\ UNCHANGED <<mem, imm, flushCh, toSend, mt, wg, refs, iters, walFiles, phase>>
      /\ CountInv'
  <2>1. UNCHANGED <<mem, imm, flushCh, toSend, mt, wg, refs, iters, walFiles, phase, replay>>
    BY DEF DisableSnapshots, DisableSnapshotsDone, EnableSnapshots, CloseMemManager
  <2> QED
    BY <2>1 DEF CountInv, Held, ImmSet, Restored, Loading, Opened, Offline, Replayed, Replaying
<1>2. budget' = budget \/ Spend("toggle")
  BY DEF DisableSnapshots, DisableSnapshotsDone, EnableSnapshots, CloseMemManager
<1>3. budget.toggle \in 0..MaxToggles
  BY DEF IInv, TypeOK, ObserverType
<1>4. budget'.toggle = MaxToggles => budget.toggle = MaxToggles
  <2>1. CASE Spend("toggle")
    <3>1. budget.toggle > 0 /\ budget'.toggle = budget.toggle - 1
      BY <2>1 DEF Spend, IInv, TypeOK, ObserverType
    <3> QED
      BY <1>3, <3>1, ConstantsAssumption
  <2> QED
    BY <1>2, <2>1
<1>5. InOrderInv'
  BY <1>1, <1>4 DEF InOrderInv, AtWork, Opened
<1>6. CASE DisableSnapshots
  <2>1. chClosed' = chClosed /\ snapDone' = "closed" /\ pc' = pc
    BY <1>6 DEF DisableSnapshots
  <2>2. budget'.toggle = MaxToggles => chClosed
    <3>1. phase = "up" /\ Spend("toggle") => budget'.toggle # MaxToggles
      BY <1>3, ConstantsAssumption DEF Spend, IInv, TypeOK, ObserverType
    <3> QED
      BY <1>6, <3>1 DEF DisableSnapshots
  <2>3. GoroutineInv' /\ QuietInv'
    BY <1>1, <2>1, <2>2 DEF GoroutineInv, QuietInv
  <2> QED
    BY <1>1, <1>5, <2>3
<1>7. CASE DisableSnapshotsDone
  <2>1. /\ chClosed' = chClosed /\ pc = "off" /\ pc' = pc /\ snapDone = "closed"
        /\ budget' = budget
    BY <1>7 DEF DisableSnapshotsDone
  <2>2. GoroutineInv' /\ QuietInv'
    BY <1>1, <2>1 DEF GoroutineInv, QuietInv, Opened
  <2> QED
    BY <1>1, <1>5, <2>2
<1>8. CASE EnableSnapshots
  <2>1. /\ chClosed' = chClosed /\ pc' = "loop" /\ snapDone = "nil" /\ snapDone' = "open"
        /\ phase = "up" /\ budget' = budget
    BY <1>8 DEF EnableSnapshots
  <2>2. GoroutineInv' /\ QuietInv'
    BY <1>1, <2>1 DEF GoroutineInv, QuietInv, Opened
  <2> QED
    BY <1>1, <1>5, <2>2
<1>9. CASE CloseMemManager
  <2>1. chClosed' = TRUE /\ phase = "closing" /\ wg = 0 /\ UNCHANGED <<snapDone, pc, budget>>
    BY <1>9 DEF CloseMemManager
  <2>2. GoroutineInv' /\ QuietInv'
    BY <1>1, <2>1 DEF GoroutineInv, QuietInv
  <2> QED
    BY <1>1, <1>5, <2>2
<1> QED
  BY <1>6, <1>7, <1>8, <1>9

(* The process ends. *)
LEMMA StopFlush ==
  ASSUME IInv, IInv', FlushInv, Panic \/ CloseDone \/ Crash
  PROVE  FlushInv'
<1>1. /\ phase' = "down" /\ mt' = NoFid /\ chClosed' = FALSE /\ pc' = "off" /\ snapDone' = "nil"
      /\ refs' = [f \in Fid |-> 0]
  BY DEF Panic, CloseDone, Crash, Stop
<1> QED
  BY <1>1 DEF FlushInv, GoroutineInv, QuietInv, InOrderInv, CountInv, Restored, Loading, Opened, Offline

(* Every step preserves the invariant. *)
LEMMA NextFlush == IInv /\ IInv' /\ FlushInv /\ [Next]_vars => FlushInv'
<1> SUFFICES ASSUME IInv, IInv', FlushInv, [Next]_vars PROVE FlushInv'
  OBVIOUS
<1>1. ASSUME NEW w \in Writers, WriterStep(w)
      PROVE  FlushInv'
  BY <1>1, ClientFlush, RotateFlush DEF WriterStep
<1>2. CASE FlusherStep
  BY <1>2, SnapshotFlush, TakeFlush, CheckFlush, SplitFlush, FlushedFlush DEF FlusherStep
<1>3. CASE \E f \in Fid : IterClose(f)
  BY <1>3, IterFlush
<1>4. CASE OpenStep
  <2>1. CASE RestoreStep
    BY <2>1, NewEngineFlush, OpenMemTableFlush, ReplayFlush, RestoreFailsFlush, AddRestoredFlush,
       RestoreDoneFlush DEF RestoreStep
  <2> QED
    BY <1>4, <2>1, CleanupFlush, NewMemManagerFlush, OpenFlush, SendFlush DEF OpenStep
<1>5. CASE StopStep \/ EnableSnapshots \/ CloseBegin \/ Panic \/ Crash
  BY <1>5, SwitchFlush, CleanupFlush, StopFlush DEF StopStep
<1>6. CASE QueryStep
  BY <1>6, ClientFlush
<1>7. CASE UNCHANGED vars
  <2>1. GoroutineInv'
    BY <1>7 DEF FlushInv, GoroutineInv, vars
  <2> QED
    BY <1>7, <2>1, FrameFlush DEF vars
<1> QED
  BY <1>1, <1>2, <1>3, <1>4, <1>5, <1>6, <1>7 DEF Next

(* FlushInv is an invariant, inductive together with IInv. *)
THEOREM FlushInvariance == Spec => []FlushInv
  BY InitFlush, NextFlush, Invariance, PTL DEF Spec

(* As long as the application leaves compactions on, MemManager.imm is the memtable that
   doCompactMemTable holds, followed by flushCh, followed by what MemManager.Open has still
   to send: OnMemTableFlushed finds the memtable it was called for at imm[0], and
   MemManager.wg counts the ones handed over. *)
THEOREM MemTablesAreFlushedInOrder == Spec => []FlushInOrder
<1>1. IInv /\ FlushInv => FlushInOrder
  <2> SUFFICES ASSUME IInv, FlushInv, Running, budget.toggle = MaxToggles
               PROVE  imm = Queue /\ wg + Len(toSend) = Len(imm)
    BY DEF FlushInOrder
  <2> USE DEF IInv, TypeOK
  <2>1. wg + Len(toSend) = Len(imm)
    BY DEF SendInv, Running, Opened
  <2>2. /\ Len(imm) = AtWork + Len(flushCh) + Len(toSend)
        /\ mt # NoFid => imm[1] = mt
        /\ \A i \in DOMAIN flushCh : flushCh[i] = imm[i + AtWork]
    BY DEF FlushInv, InOrderInv, Running, Opened
  <2>3. \A i \in DOMAIN toSend : toSend[i] = imm[i + Len(imm) - Len(toSend)]
    BY DEF SendInv
  <2>4. imm \in Seq(Fid) /\ flushCh \in Seq(Fid) /\ toSend \in Seq(Fid) /\ mt \in Fid \cup {NoFid}
    BY DEF MemType, EngineType, FlusherType
  <2> DEFINE front == IF mt = NoFid THEN <<>> ELSE <<mt>>
  <2>5. front \in Seq(Fid) /\ Len(front) = AtWork /\ (mt # NoFid => front[1] = mt)
        /\ AtWork \in {0, 1} /\ (mt = NoFid => AtWork = 0)
    BY <2>4 DEF AtWork
  <2> HIDE DEF front
  <2>6. /\ front \o flushCh \in Seq(Fid) /\ Len(front \o flushCh) = AtWork + Len(flushCh)
        /\ \A i \in 1..AtWork : (front \o flushCh)[i] = front[i]
        /\ \A i \in (AtWork + 1)..(AtWork + Len(flushCh)) :
             (front \o flushCh)[i] = flushCh[i - AtWork]
    BY <2>4, <2>5
  <2> DEFINE queue == front \o flushCh \o toSend
  <2> DEFINE k == AtWork + Len(flushCh)
  <2>7. /\ queue \in Seq(Fid) /\ Len(queue) = k + Len(toSend)
        /\ \A i \in 1..k : queue[i] = (front \o flushCh)[i]
        /\ \A i \in (k + 1)..(k + Len(toSend)) : queue[i] = toSend[i - k]
    BY <2>4, <2>6
  <2>8. Len(queue) = Len(imm)
    BY <2>2, <2>7
  <2> HIDE DEF queue, k
  <2>9. k \in Nat /\ Len(flushCh) \in Nat /\ Len(toSend) \in Nat /\ Len(imm) = k + Len(toSend)
    BY <2>2, <2>4, <2>5 DEF k
  <2>10. ASSUME NEW i \in 1..Len(imm)
         PROVE  queue[i] = imm[i]
    <3>1. CASE i \in 1..AtWork
      <4>1. i = 1 /\ mt # NoFid
        BY <2>5, <3>1
      <4>2. i \in 1..k
        BY <2>5, <2>9, <3>1 DEF k
      <4>3. queue[i] = front[i]
        BY <2>6, <2>7, <3>1, <4>2
      <4> QED
        BY <2>2, <2>5, <4>1, <4>3
    <3>2. CASE i \in (AtWork + 1)..k
      <4>1. i \in 1..k /\ i - AtWork \in DOMAIN flushCh /\ (i - AtWork) + AtWork = i
        BY <2>4, <2>5, <2>9, <3>2 DEF k
      <4>2. queue[i] = flushCh[i - AtWork]
        BY <2>6, <2>7, <3>2, <4>1 DEF k
      <4> QED
        BY <2>2, <4>1, <4>2
    <3>3. CASE i \in (k + 1)..(k + Len(toSend))
      <4>1. i - k \in DOMAIN toSend /\ (i - k) + Len(imm) - Len(toSend) = i
        BY <2>4, <2>9, <3>3
      <4>2. queue[i] = toSend[i - k]
        BY <2>7, <3>3
      <4> QED
        BY <2>3, <4>1, <4>2
    <3> QED
      BY <2>5, <2>9, <2>10, <3>1, <3>2, <3>3
  <2>11. queue = imm
    BY <2>4, <2>7, <2>8, <2>10
  <2> QED
    BY <2>1, <2>11 DEF Queue, queue, front
<1> QED
  BY <1>1, Invariance, FlushInvariance, PTL

(* While the engine runs its WAL files are those of its memtables and of the caches that an
   unfinished iterator of Cache.Split still holds: Cache.Deref deletes none early, and none
   is left behind after the last reference. *)
THEOREM WalFilesAreReclaimed == Spec => []WalReclaimed
<1>1. FlushInv => WalReclaimed
  BY DEF FlushInv, CountInv, WalReclaimed, Running, Restored, Opened, Held
<1> QED
  BY <1>1, FlushInvariance, PTL
=============================================================================
