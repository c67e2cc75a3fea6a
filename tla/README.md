# A verification development for EquinoxDB

EquinoxDB is an embedded time-series store in Go: an LSM engine in the line of InfluxDB's
TSM, with the values of a block optionally kept apart from the index in value files. This
directory holds TLA+ modules of its storage engine, TLC configurations, and TLAPS proofs.
Paths below are relative to `src/storage/` unless they start with `src/`.

## 1. Inventory

| Part | State it keeps | Operations | Who calls it, and how |
|---|---|---|---|
| `Engine` (`engine*.go`, `types.go`) | phase, `snapDone`/`snapWG`, `compactionDone`/`compactionWG`, `levelWorkers`, GC worker | `WriteBatch`, `Get`, `DeleteRangeBatch`, `NewEngine`, `Open`, `Close`, `SetCompactionsEnabled`, the flush goroutine, the compaction loop, the GC loop | clients, from any goroutine |
| `MemManager`, `MemTable`, `Cache` (`memory/`) | the mutable memtable, `imm`, `flushCh`, a wait group, reference counts | rotation, write, read, flush hand-over, restore | engine; a mutex around each call |
| Write-ahead log (`store/wal_*.go`, `mmap_*.go`) | one file per memtable, its write offset | append, msync, replay, truncate, delete | memtable; deleted by the last dereference of the cache |
| `Compactor` (`compactor/compactor.go`, iterators) | `snapshotsEnabled`, `compactionsEnabled`, interrupt channels, the files being compacted | `WriteSnapshot`, `CompactFull`, `CompactFast` | flush goroutine, compaction goroutines |
| Planner (`compactor/planner.go`, `type_generation.go`) | `filesInUse`, the cached list of generations | `PlanLevel`, `Plan`, `PlanOptimize`, `Release` | compaction loop |
| `FileStore`, `SSTReader`, purger (`store/sst_*.go`) | list of open files, `currentGeneration`, reference counts, replaced files still in use | `Open`, `Replace`, `Apply`, `KeyCursor`, `Stats`, purge | flushes, compactions, deletes, queries, at the same time; an RW mutex that does not cover Unref and the purger |
| Tombstones (`store/tombstone.go`, `sst_batch_deleter.go`) | one file of deleted ranges per SST file | `AddRange`, `Flush`, apply on open and on commit | deletes |
| Value files (`store/vfile_*.go`) | regions of files, write buffers copied by goroutines, the discard table | `WriteBlock`, `Read`, flush, choice of garbage, collect | SST writer, queries, GC loop |
| Cursors (`store/sst_file_key_cursor*.go`, `cursor/`) | positions, blocks partly read | seek, next, merge of blocks, merge of cache and file | queries |
| Values, codecs, separation decider (`types/`, `codec/`, `separator/`) | none, or private estimates | pure functions on values and blocks | everywhere |
| Web pages, benchmarks (`src/web`, `src/benchmark`) | tasks | load generators around the engine | users |

What is hard in it:

- *interleavings*: writers against rotation and flush; a query that reads memtables and then
  files while a memtable turns into a file; compactions, flushes and deletes that replace or
  change files in use; callers that start and stop the background goroutines;
- *failure*: a crash at any point between logging, renaming, installing and removing; a power
  loss that takes unsynced data; file operations that fail half-way and are retried;
- *ordering*: flushes must end in the order of rotation, the last value written must win,
  a deleted key must not come back with the output of an older compaction;
- *waiting*: a bounded flush channel, wait groups in `Close` and `disable...`, nested locks.

What makes each part correct: an acknowledged write survives (log, memtables, snapshot
installation); a query misses nothing (memtables, `FileStore`); logs and files are removed
exactly when nobody needs them (reference counts, purger); compactions neither lose a key nor
overwrite a file (planner, compactor, `replace`); a delete deletes what it names and nothing
reappears (tombstones, the compaction gate); nothing waits forever. `PROJECT.json` lists the
hazards behind these at their lines.

## 2. Modules

| Module | Models |
|---|---|
| `DurableLog` | the promise of the write path: stored, then acknowledged, then kept unless put at risk |
| `MemFlush` | `WriteBatch`, memtables, logs, flush goroutine, snapshots, query order, open/close/crash |
| `MemFlush_proofs` | theorems about `MemFlush` for all constants: what is kept and served; the order of flushes and the life of log files |
| `Compaction` | SST files after they are written: readers, purger, planner state, loop, compactions, deletes, gate, crash |
| `Planner` | which groups the planner makes from a list of files, as operators |
| `Compaction_proofs` | theorems about `Compaction`: reference counts, plans, gate; names and contents of files |
| `ValueLog` | the value files of one life cycle: writers, copies, flushes, reading, close, crash, open |
| `ValueLog_proofs` | theorems about `ValueLog` |
| `Least` | what the proofs use for induction: least and greatest elements, sets closed under a step, functions defined step by step |
| `Values`, `Arrays` | the slices and the columns of points, as operators |
| `TimeRange` | timestamps that wrap, inclusive ranges |
| `KeyCursor` | the locations of a key's blocks and the cursor that merges them, as operators |
| `ArrayCursor` | a query with its calls of `Next`, beside a delete; uses `KeyCursor` |
| `CacheIterator` | the goroutines that encode a memtable and the flush that reads them |
| `CacheIterator_proofs` | theorems about `CacheIterator`: what the flush reads, one encoder per key |
| `BlockMerge` | the iterator of a compaction: keys of all files, blocks merged and cut, as operators |
| `FlushMerge` | composition: a memtable through `CacheIterator` into a file, the files through `BlockMerge` |
| `SSTWriter`, `SSTIndex` | one SST file as it is written; its index as it is searched and deleted from, as operators |
| `SSTIndex_proofs` | theorems about searching the index and deleting from it |
| `SSTFile` | the files of one flush or compaction: written, opened, deleted from, iterated, opened again |
| `SSTFile_proofs`, `SSTRead_proofs` | theorems about `SSTFile`: its invariant and iterators; what is written, read, deleted and walked over |
| `Simple8b`, `TimeCodec`, `IntCodec`, `FloatCodec`, `PlainCodec` | the codecs, streaming and as arrays, as operators |
| `Blocks` | blocks through the pooled encoders and decoders of the codecs |
| `MC...` | instances of these for TLC |

Definitions whose comment says "mutant" are deliberately wrong versions of the definition that
follows; no specification uses them. `PROJECT.json` pairs each with a property it violates.

### MemFlush

A write is a number given in the order of logging; it stands for one `WriteBatch` and for one
unit of log position and of cache size. The engine is one with `SeparateEnabled` off. `Uneven` are the
writes of several keys.

| State | Code |
|---|---|
| `walFiles`, `walOf`, `synced` | `.wal` files, the log that holds a record, what msync has reached |
| `sst`, `tmpFiles`, `sstFiles` | contents of SST files, `.sst.tmp` names, `.sst` names |
| `mem`, `imm`, `nextMemFid`, `flushCh`, `chClosed`, `wg` | the fields of `MemManager` |
| `cached`, `refs`, `iters` | `Cache`: contents, `ref`, iterators still to be closed |
| `phase`, `toSend`, `globbed` | where `NewEngine`/`Open`/`Close` are |
| `replay` | the log that `restoreFromWAL` reads, and whether its copies land where it reads, before or past that |
| `snapDone`, `snapshotsEnabled`, `files`, `currentGeneration` | `Engine`, `Compactor`, `FileStore` |
| `pc`, `mt`, `todo` | the flush goroutine: place, memtable, files still to rename |
| `wpc`, `wid`, `acked`, `conflicts`, `exposed`, `query`, `budget` | writers, observers, bounds; `exposed`: records a replay has rewritten or has begun to |

Actions follow `WriteBatch` (`WriteBatch`, `EnsureNotFull`/`Rotate`, `WriteLog`, `WriteApply` or
`WriteConflict`), the flush goroutine (`FlushLoop`, `TakeFlushMemTable`, `FlushCheck`,
`SnapshotStart`, `SnapshotWritten`/`Failed`/`Collides`, `RenameTmp`, `ReplaceFailed`, `Install`,
`OnMemTableFlushed`), the snapshot goroutine's late `IterClose`, `SetCompactionsEnabled`
(`DisableSnapshots`, `DisableSnapshotsDone`, `EnableSnapshots`), starting (`NewEngine`; for each log
`OpenMemTable`, `ReplayRecord`, `ReplayBreaks` or `RestoreFails`, `AddRestored`; then `RestoreDone`,
`NewMemManager`, `Open`, `SendRestored`, `CleanupGlob`, `CleanupRemove`), closing (`CloseBegin`,
`CloseMemManager`, `CloseDone`), the panic on a nil memtable, and `Crash`. `SnapshotStart` and what
follows stand for a whole `WriteSnapshot`: for a large cache the code splits it into up to four parts,
each with a generation and a goroutine of its own (`compactor/compactor.go:202`); here it is one.

*Replay.* `restoreFromWAL` applies a record with `MemTable.WriteMulti`, which logs it again: into the file
that is being read, from position 0. The copy of a write of one key has the bytes it was read from. A
write of several keys is encoded in the order of a Go map, so its copy may have other bytes and, as records
are compressed, another length; every copy after it lands before (`behind`) or past (`ahead`) the
record it was read from. Copies that are ahead overwrite what is still to be read: the reader either holds
it in its buffer already (`ReplayRecord` goes on) or meets damaged bytes, and `restoreFromWAL` drops the error
and the rest of the log (`ReplayBreaks`). A crash in the middle leaves copies followed by what was
not read; unless the copies end exactly where the reading stood, the next replay ends there. Records
have no checksum; a damaged one is taken as unreadable, which is what snappy and the decoder make of
nearly every one. Copies that run past the end of the mapped file make it grow while it is read, and the read
then faults, which is a `Crash`.

The manager's mutex: a writer holds it from `WriteLog` to `WriteApply`; every other critical section is a
single action. Go's data-race-free parts are taken as atomic, the reference count is atomic in the code. A
crash may tear the record being logged; with `SyncWrite` a power loss may also take an unsynced suffix of
each log. SST files and directories are synced before they are relied on; the copies a replay writes are not
synced. A power loss that undoes a rename not yet synced is not modelled: the log is still there.

### Compaction and Planner

A file is a generation and a sequence number, its contents a set of keys. A key is in one
generation at a time; deletes are of whole keys. Compactions therefore union keys; how the
blocks of one key are merged is the subject of `BlockMerge`.

| State | Code |
|---|---|
| `data`, `live`, `tmp`, `tombs` | contents, `.sst` files, `.sst.tmp` files, tombstone files |
| `files`, `open`, `refs`, `gone`, `fsLock`, `purging`, `generation` | `FileStore`, `SSTReader`, `purger`; `gone` is what the reader's index lost to tombstones |
| `inUse`, `gens`, `gensValid` | `filesInUse`, the cached list and whether the store changed since |
| `lpc`, `level`, `found`, `held` | the compaction loop and the plans it has acquired |
| `enabled`, `compacting` | `compactionsEnabled`, `Compactor.files` |
| `jpc`, `group`, `merged`, `outs`, `todo` | one compaction per token of the limiter |
| `levelWorkers`, `compactionDone`, `spc`, `delKeys`, `delFiles` | the gate, and each caller of it |
| `phase`, `globbed`, `cursor`, `written`, `asked`, `deleted`, `stray`, `budget` | open/crash, queries, observers, bounds; `stray`: a crash has left the tombstone file of a file that was removed |

The loop plans each level with `FindGenerations` and `Acquire`, then starts one compaction and
releases the rest (`Start`; the scheduler's choice of a level is nondeterministic). A compaction
goes through `JobBegin` (`add`), `JobRef` (`compact`), `JobWrite`/`JobWriteFails`/`JobCollides`
(`writeNewFiles`), `JobCheck` (`CompactFull`), `JobRename`, `JobLock`, `JobSwap`, `JobUntomb`,
`JobSwapFails`, `JobInstall` (`replace`) and `JobRelease`. A delete goes through `DeleteBegin`,
`FirstDone`/`OtherDone` (waiting for compactions to stop), `ApplyBegin`, `DeleteFile`, `ApplyEnd`,
`ApplyStamp`, `DeleteEnd`. `Flush` is a whole flush in one step: `MemFlush` has its details.
`f.mu` is `fsLock` for writers and `Applying` for the long reader.

`PlanGroups` is a constant operator of `Compaction`: what it must satisfy is the assumption
`PlanAssumption`, which TLC evaluates for the operators of `Planner` over every set of files of
the instance. `Planner` leaves out the rules on file sizes, the branch of `Plan` for level 4 and
`PlanOptimize`, and takes `HasTombstones` as FALSE, which is what `Tombstoner` reports after it
has written its file.

### ValueLog

A separated block takes one unit of a value file, header, key and checksum included; a file is
mapped with twice its maximal size, as in the code. Life cycles do not share files, so one is enough.

| State | Code |
|---|---|
| `files`, `length`, `at` | `filesMap`, length of a file and of its mapping, what each place holds |
| `pos`, `size` | the fields of `ValueFile`: the place handed out last, the bytes copied |
| `maxFid`, `writeOffset`, `entries` | `maxFid`, `writableLogOffset`, `numEntriesWritten` |
| `wpc`, `wfile`, `wend`, `wblock` | goroutines of `cacheKeyIterator` inside `VFileManager.WriteBlock` |
| `copying`, `flushing` | the goroutines started by `ValueFile.WriteBlock` and by `flush` |
| `up`, `written`, `ptr`, `cut`, `lossy`, `budget` | the process, observers, bounds; `cut`: files that a Truncate made shorter or gave a size below their length, `lossy`: see section 4 |

A write goes through `WriteBlock` (reads the current file), `ValidateWriteSize`, `Flush` and
`CreateValueFile` (or `CreateFails`) when the file is full, and then, without a lock, `TakePlace` (the atomic
`pos`), `CheckLength`, and `Grow` when the place is at or past the end of the mapping: other writers may
take places and truncate between any two of these. `GrowFails` is a `Truncate` that fails, on a file cut to
nothing, which has no mapping, or at any other; `RollBack` then lowers `pos` by one place, whichever
was taken last. `StartCopy` starts the goroutine that copies, `StoreOffset` is the rest of the manager's
`WriteBlock`. Behind it run `Copy`, `FlushSync`, `FlushTruncate` and `FlushFails`. `numEntriesWritten++` is a
data race: an increment may be lost. A copy that overlaps a remapping faults, which is a `Crash`; so
does one after a `Truncate` that unmapped the file and could not map it again. One that starts beyond the
mapping is a `Panic`. A crash ends the process and keeps what was copied; a block half copied is torn. That the
new file exists and cannot be mapped is left out: `CreateFails` leaves no file.
`restoreValueFile` is `Restored`: up to a header of zeros, or past the first wrong checksum.

### KeyCursor and ArrayCursor

One key, its blocks in files numbered in the order of their names, its values in the memtables. A
point's value is the number of the file it was written to, 0 in the memtables, so that a stale value
shows. The five generated copies for the types of values are one.

| State | Code |
|---|---|
| `files` | blocks and tombstones of the key in each file |
| `cache` | the values `MemManager.Values` returned |
| `cur` | the array cursor (`tvals`, `tpos`, `cpos`, the result) with its `KeyCursor` (`seeks`, `current`, `pos`) |
| `query`, `ndeletes` | the range and direction asked for, what was returned; bound |

`Get` is `buildFloatArrayCursor` with `reset`: `Locations` (`FileStore.locations`), their sort, the
seek, the first block. The order of `locations` (overlapping blocks by file name, others by time) is
not transitive; `SortLocations` is the insertion sort that `sort.Sort` is for up to 12 elements.
`CursorNext` is a whole `nextAsc` or `nextDesc`, with every block it reads: `ReadFloatArrayBlock` drops
tombstoned points, finds the window up to where another block begins and lays newer blocks over
older ones. `Delete` adds a range to a file; the cursor reads a file's tombstones again with every
block, which is `Refreshed`.

### CacheIterator, BlockMerge and FlushMerge

`TakeKey`, `EncodeBlock` and `NotifyReady` are the steps of one of the goroutines of
`cacheKeyIterator.encode`; the atomic counter is `idx`, the channels of the keys are `ready`.
`CacheNext` is `Next` followed by `Read`, as the writer calls them, `CacheInterrupted` the interrupt.
Which blocks are separated is the decider's estimate and left open; an encoding may fail.

`BatchNext` is `batchKeyIterator.Next`: `ReadAhead` fills the buffer of each file, `TakeKeyBlocks`
takes the blocks of the smallest key, `MergeFloat` decides between the three ways a key is written:
as it is, combined when small, merged when blocks overlap, were partly read or have tombstones. A
merge takes the points up to the earliest end among the overlapping blocks (`MergeWindow`) and
remembers in each block how far it was read. `hung` marks the loops of the code that never end.

`FlushMerge` starts from older files, flushes a memtable beside them, lets a delete add a time range
to the files (a delete stops compactions, so it falls before) and runs a fast or a full compaction.

### SSTWriter, SSTIndex and SSTFile

A key is a number, its length a constant operator; a block is its points and its length. Positions
and sizes are kept: the index says where each block lies. An open index has its sections `b`, the
`offsets` that searches use and the tombstones of each key.

| State | Code |
|---|---|
| `input`, `todo`, `w`, `full`, `files` | the iterator's blocks, `tsmWriter` with `directIndex`, finished files |
| `tfile`, `pending` | tombstone file and `Tombstoner.tombstones` of each file |
| `idx` | `indirectIndex` of each open file |
| `del` | a delete: `add` (a `batchDelete` per file), `apply` (`Commit`), `store` (`FileStore.DeleteRange`) |
| `iter` | a `BlockIterator` |
| `asked`, `requested`, `deletes`, `opens` | observers, bounds |

`WriteNext` is one round of `Compactor.write` (with the limits: file size, entries of a key),
`EndFull`/`EndLast` end a file with its index, `Open` opens all files and applies their tombstones,
`Restart` forgets what is not on disk. One delete runs at a time: `deleteMu` of each file. `AddRangeFails`
has the places at which writing the tombstone file may fail: before the rename, at it, and at the sync of
the directory after it. `IterNext` notices a delete by a change of the number of keys, as the code does.
`WalkKeys` is `mergeKeyIterator`; `Read` and `StoreRead` are `SSTReader.Read` and `FileStore.Read`, which do
not look at tombstones.

### Codecs and Blocks

The codecs are translated on words of a few bits: the width of integers, the payload of a packed
word with its table of selectors, the width of a float and of its window fields, and the bits of a
byte are constants; so is the addition of floats (`FloatAdd`), which TLC is given for floats of 4 bits.
Addition and subtraction wrap at that width. The bytes of an encoding are a
record of its fields, except where a codec works on single bits: floats and booleans. `Snappy`
is external; it is modelled as an invertible function that is not the identity.

In `Blocks` a first block goes through the encoders and decoders of the pools and leaves its state
in them, then a second one: `EncodeBlock`, `EncodeRawStringBlock` (strings, as a flush writes them),
`EncodeArrayBlock`, then `DecodeBlock` or `DecodeArrayBlock`. Values of one kind share the pools.
`Values` is checked on the same blocks: the slices of the two are merged and cut.

## 3. Runs

| Run | Instance | Checks |
|---|---|---|
| `crash` | `SyncWrite`, 2 writers, memtable of 1 record (2 when both writers pass the check), 2 writes, one of them of several keys, 1 refused record, 1 query, 1 `SetCompactionsEnabled(false)`, 2 crashes or power losses | `TypeOK`, `Durable`, `Visible`, `QueryComplete`, `FlushInOrder`, `WalReclaimed`, `ImplementsDurableLog` |
| `live` | 1 writer, 3 writes, 1 failed file operation, 1 `Close` and reopening, fair | `CloseReturns`, `OpenReturns`, `EventuallyFlushed`, `WriteReturns` |
| `restore` (violated) | 1 type conflict, 1 crash | `RestoreSucceeds` fails |
| `compaction` | 4 generations, 2 compactions at a time, 1 query, 1 stop/start, 1 failed removal, 1 crash | `TypeOK`, `PlansDisjoint`, `NoClobber`, `Preserved`, `InUseStaysOpen` |
| `delete` | 2 deletes, flushes, 1 query, 1 failed write, fair | `NoResurrection`, `Served`, `DeletesReturn`, `EventuallyPurged` |
| `tombstone` (violated) | 1 delete of 2 keys of one file | `DeleteRemoves` fails |
| `valuefile` | 2 writers, files of 1 block mapped with 2 and growing to 3, 4 blocks, 2 files, 1 failing call, 1 crash or `Close` | `TypeOK`, `OwnBlock`, `ReadsBack` |
| `read` | every layout of 4 times in blocks of up to 2 in two files, and the chains of three; 4 contents of the memtables, 2 ranges, both directions, results of 2 points, 1 delete | `TypeOK`, `NewestReturned`, `NothingMissed`, `ResultsOrdered` |
| `merge` | 2 encoders, 3 memtables, every layout of 4 times in an older file, some with a second file, key or pointer; blocks of 2, 1 failed encoding, 1 delete, fast and full | `TypeOK`, `FlushedWhole`, `MergedExactly`, `BlocksOrdered` |
| `index` | 4 inputs of up to 4 blocks and 3 keys, files of 85 bytes, 2 entries to a key, 2 of 6 deletes, batches of 2, opened twice | `TypeOK`, `FilesWhole`, `DeletedGone`, `OthersKept`, `KeysWalked`, `IterationWhole` |
| `codec` | integers of 6 bits, payload of 4, runs of 12 and 6, floats of 4 bits, bytes of 3; 7 first blocks, each of about 2 000 second ones | `TypeOK`, `ReadBack`, `MergedNewest` |
| `rawtime` (violated) | the same | `UncompressedBack` fails |

What each property says is in the comment above it. In short: `crash` and `live` show the write path keeps,
serves and finally flushes what it acknowledged; `compaction` and `delete` that files are replaced, read and
removed without losing, clobbering, reviving or leaking; `valuefile` that a pointer leads to its own block;
`read` that a query returns every point of its range by the time it ends, with its newest value, in order;
`merge` that a flush writes each key whole and a compaction writes exactly the newest points; `index` that
files hold the blocks they were given, deletes remove what they name and nothing else, and iterators that
end without error missed nothing; `codec` that blocks are read back.

*Why the bounds are enough to be interesting.* In `MemFlush` memtables of one record make every write
rotate; two writers suffice to overshoot a memtable, so that a log holds two records, and to meet at the
mutex. In `crash` the first write is one of several keys: when both are in one log the second is the record
its copy can damage, in two logs it is not touched; two crashes put one into the replay that follows the
other. In `live`, with three writes and `NumMemTables = 1`, the third rotation waits for the channel, and
the restart after the panic on a nil memtable restores more logs than it holds. `live` has one writer, since
waiting for room takes only one; `MaxGen` leaves room for the retry of a failed flush, so that no property
holds or fails because generations ran out. In `Compaction`, chunks of two generations (instead of 8 and 4)
make level plans and the full plan possible with four generations, two compactions make stale lists and
plans on files in use reachable, four keys with two to a file make a compaction write two outputs, so that a
crash can fall between two renames. `Levels = {1, 4}` keeps the loop to one level plan and the full plan:
levels 2 and 3 differ from 1 only in a constant. In `ValueLog` files of one block are changed by the second;
both writers can pass the size check together and hold places at and past the end of the mapping, so that
they truncate in either order and one of them may fail under the other's place; the last file is restored
once and written again. In `ArrayCursor` results of two points end in the middle of blocks and of windows;
two files have every overlap two lists of blocks can have; the chains of three (newest file below the
oldest, the middle one across both) are those whose order is not transitive; the delete falls before or
between any two calls of `Next`. In `FlushMerge` blocks of two are split, combined and chained by four
times, and one of two keys falls into one, two or all files. In `SSTFile` 85 bytes end a file between keys
and within one, two entries make a key overflow its count, keys are deleted at either edge, in the middle,
by overlapping and adjacent ranges and with the ends of time, a range has its key missing in one file and
present in another, and a batch of two is smaller than the tombstones of a file. In `Blocks` there are runs
of ones of 5, 6, 7, 11, 12 and 13, alone and with something before and after, all values of short float
blocks with both infinities, both zeros and NaN, finite floats whose sum overflows before it meets an
infinity, differences that wrap, strings that are empty and bytes half filled; the first block leaves each
format of each decoder behind.

Deadlock is checked in `delete`; the other runs stop when their bounded inputs are used up, or when
`NewEngine` or `Open` has returned an error.

*Fairness.* Go schedules every goroutine that can run, so each goroutine's steps are weakly fair:
a request that has begun, the flush goroutine, iterators, `Open`, `Close`, compactions, callers
waiting at the gate, the purger. `LoopQuit` is strongly fair: the loop's `select` may take a tick
although the channel is closed, but chooses at random among what is ready. Cursors are closed by
their queries. Nothing is assumed of the client's calls, failures or crashes. In
`Compaction!FairSpec` weak fairness of `Acquire` is written `[]<>(lpc # "acquire")`, which is the
same because `Acquire` is enabled whenever `lpc = "acquire"` and always leaves it.

## 4. Where the code departs from what one would expect

### The violated runs

- `restore`: `MemTable.WriteMulti` logs a record before the cache may refuse it for a field type
  conflict. After a crash, replay meets the same refusal and `NewEngine` fails, on every attempt.
- `tombstone`: `DeleteRangeBatch` adds tombstones key by key, and each `AddRange` replaces the
  tombstone file by one with that key alone: of several keys of a file only the last is deleted.
- `rawtime`: the uncompressed format of timestamps holds two things. A flush writes string blocks with
  `RawBytes`, which puts the timestamps there as they are; the array decoders read it so. `Bytes` and
  `TimeArrayEncodeAll` write differences; `TimeDecoder` reads it so. A block of strings decoded value by value
  has sums for timestamps from the second on, a block with differences too large to pack, decoded as
  an array, has differences. `ReadBack` says exactly this of both.

### Conditions in the properties

- `Durable` and the refinement leave out `exposed`: a write of several keys, and what its log holds behind
  it, from the moment a restart begins to replay that log; `Visible` and `QueryComplete` leave out those
  that were in fact overwritten. Without the condition TLC loses an acknowledged write when a crash falls
  into the replay and, with two records in the log, also without one (`memory/memtable.go:164`). The test that reopens a memtable (`memory/memtable_test.go:37`) writes
  one key.
- `Durable` and the refinement say that a write is whole in a log or a file, not that `NewEngine` reads it:
  behind a record that its replay refuses it does not, see `restore`.
- `Preserved` and `Served` are stated for executions in which `replace` was not cut short between an old
  file and what belongs to it (`Untorn`). When a removal fails, `replace` returns with its outputs live on
  disk but unknown to the store (`store/sst_file.go:845`); a later full compaction renames its own output
  over them, and a crash at that point loses keys. When the process ends after an old file was removed and
  before its tombstone file was (`store/sst_reader.go:324`), the tombstone file stays; generations are
  numbered from the files that are left, so a later flush may make a file of that name, whose reader applies
  the tombstones to keys written after the delete.
- `NoResurrection` holds until the application calls `SetCompactionsEnabled(false)` and until a crash. A
  caller of `disableLevelCompactions` that finds the done channel closed and `levelWorkers = 0` returns
  while compactions still run (`engine_compact_level.go:83`): a delete beside that call may change files a
  compaction has read. A restart reads the tombstone files, and those have only the last key of the last
  delete of their file (see `tombstone`), so an earlier one comes back.
- `OwnBlock` is stated for executions in which every process ended with its copies made, with the offset of
  its last block stored and without a hole in its last file; otherwise the next process starts below blocks
  that pointers name. A hole is a place below `pos` that a flush has cut: the writer that found the file
  full may have started the flush of a file that is still the last one. It also ends when a writer whose
  `Truncate` fails gives back a place that is not the last one taken (`store/vfile_file.go:91`): the writer
  after it gets a place that is in use. TLC finds the overwritten block when this is not part of `lossy`.
- `ReadsBack` is stated for files that were never cut (`cut`): the goroutine started by `flush` reads
  `writableLogOffset` only when it runs, usually after the new file has set it to 0, and then cuts the full
  file there (`store/vfile_manager.go:419`). A writer also makes a file shorter, when it compares its place
  with the length, another with a higher place truncates, and it truncates last (`store/vfile_file.go:90`).
  It also accepts a read answered with nothing: `VFileManager.WriteBlock` stores the end of its block
  without a comparison (`:163`), so when the writer of the lower block stores last, the other block reads as
  empty, without an error.
- `ResultsOrdered` asks for order across results only backwards or with empty memtables, and
  `NewestReturned` looks at the first point returned for a time: the copy of a whole block
  (`cursor/array_cursor.gen.go:104`) ignores how much of it was returned, and repeats it.
- `ReadBack` lets `FloatArrayEncodeAll` refuse a block without a NaN: it tests the running sum of all values
  but the first, which is a NaN when opposite infinities meet, and finite values may overflow to one of
  them.
- `DeletedGone` is about `ContainsValue` and `ReadAll`. `SSTReader.Read` and `FileStore.Read` return the
  block of a time without a look at the tombstones (`store/sst_block_accessor.go:185`,
  `store/sst_file.go:637`), so deleted points of a key that is still listed come back; nothing in the engine
  calls them. It asks nothing for a delete that returned an error, and `OthersKept` nothing for the points
  such a delete named: a rolled-back delete may leave entries that a later delete or a restart applies
  (`store/tombstone.go:118`).
- `DeletedGone` speaks, after a restart, of the ranges that the tombstone files still have: a later delete
  of the same file overwrites those of an earlier one, as in `tombstone`.
- `KeysWalked` allows a key twice: at the end `mergeKeyIterator` may return one again.
- `MergedExactly` is about compactions that end: at a pointer block among blocks to be combined the loop
  goes on without moving (`compactor/compact.gen.go:183`). The model has such states (`hung`).

### Seen while modelling, outside every property

- `MemManager.Values` lists the mutable memtable before the immutable ones and `Deduplicate` keeps the last:
  a point written again after a rotation reads as its old value until the flush
  (`memory/memtable_manager.go:133`).
- An ascending query from the least timestamp, or a descending one from the greatest, looks for blocks from
  a time that has wrapped (`store/sst_file.go:982`).
- When a block is separated the error of its encoding is overwritten
  (`compactor/iterator_cache_key.go:211`); the goroutine then panics on the nil block
  (`store/vfile_manager.go:168`).
- `v.MaxTime()` of a block that tombstones emptied panics (`compactor/compact.gen.go:98`).
- `BlockIterator.PeekNext` returns the key after the next when a key has one block left.
- When the commit of `FileStore.DeleteRange` fails, `Rollback` unlocks `deleteMu` a second time.
- The search for a wholly deleted key compares a tombstone with the one before it only: at worst a key
  without points stays listed, none is dropped too early (`DroppedKeysAreDeleted`).
- `directIndex.Add` ignores the error of `flush`; `Seek` above all keys returns the last position;
  `UnmarshalBinary` starts the greatest time at 0; a tombstone slice may share its backing array with a copy
  handed out; `FileStat.ContainsKey` has `||` for `&&`.
- `ForEach` and `CountBytesBetween` of `simple8b` yield 0 for runs of ones; `BooleanDecoder.SetBytes` never
  clears its error; `readBlock` and `readAll` discard what `Deduplicate` returns.
- The collector of value files cannot run: `GetAllVFileManager` writes to a nil map. Behind it, the discard
  table grows one entry too late and `Iterate` holds the lock that its callback takes.

## 5. Proofs

Every theorem is for all values of the constants that satisfy the assumption of its module.
`TimeAssumption`: the least timestamp is below the greatest. `ConstantsAssumption` (`MemFlush`) and
`ValueLogAssumption`: sizes and bounds are naturals, a memtable, the channel and a value file hold at least
one. `CompactionAssumption`: the same, with finitely many compactions, cursors and deletes at a time, and
generations that share no key when the engine is first opened. `CacheAssumption`: there is an encoding
goroutine and blocks hold at least one value. `SSTAssumption`: keys come in order and the blocks of a key in
order of time, not overlapping, as the iterators deliver them; a delete names finitely many keys; a key may
have an entry. `PlanAssumption`: a planner makes disjoint groups of files of its list and takes a generation
whole or not at all; `Planner` does, which TLC evaluates for every list of the instances.

| Module | Theorem | Statement |
|---|---|---|
| `MemFlush_proofs` | `Invariance` | `Spec => []IInv` |
| | `TypeCorrect` | `Spec => []TypeOK` |
| | `WritesAreDurable` | `Spec => []Durable` |
| | `WritesAreVisible` | `Spec => []Visible` |
| | `QueriesAreComplete` | `Spec => []QueryComplete` |
| | `RefinesDurableLog` | `Spec => ImplementsDurableLog` |
| | `MemTablesAreFlushedInOrder` | `Spec => []FlushInOrder` |
| | `WalFilesAreReclaimed` | `Spec => []WalReclaimed` |
| `Compaction_proofs` | `CompactionTypes` | `Spec => []TypeOK` |
| | `CompactionsAreDisjoint` | `Spec => []PlansDisjoint` |
| | `ReadersInUseStayOpen` | `Spec => InUseStaysOpen` (an action property) |
| | `OutputsAreNew` | `Spec => []NoClobber` |
| | `KeysStayOnDisk` | `Spec => []Preserved` |
| | `KeysStayReadable` | `Spec => []Served` |
| | `DeletedStaysDeleted` | `Spec => []NoResurrection` |
| `ValueLog_proofs` | `ValueLogTypes` | `Spec => []TypeOK` |
| | `PointersLeadToTheirBlocks` | `Spec => []OwnBlock` |
| | `BlocksAreReadBack` | `Spec => []ReadsBack` |
| `SSTIndex_proofs` | `DroppedKeysAreDeleted` | a key that `DeletePlan` drops has no time outside the range and its tombstones |
| | `TombstonesStaySorted` | `DeleteRange` keeps the tombstones of every key in order |
| | `SeekFindsEveryKey` | the search finds every listed key in its place, and its entries |
| | `DeleteRangeExact` | after `DeleteRange`, `ContainsValue` is what it was, without the range deleted |
| `CacheIterator_proofs` | `FlushReadsAll` | `CacheSpec(ns) => []FlushedWhole` |
| | `OneEncoderPerKey` | `CacheSpec(ns) => []TypeOK` |
| | `EveryKeyServed` | `CacheSpec(ns) => []NoKeyForgotten` |
| `SSTFile_proofs` | `FileInvariant` | `Spec => []Inv` |
| | `FileTypes` | `Spec => []TypeOK` |
| | `IterationDeliversAll` | `Spec => []IterationWhole` |
| `SSTRead_proofs` | `DeletesTakeAway` | `Spec => []DeletedGone` |
| | `DeletesSpareOthers` | `Spec => []OthersKept` |
| | `FilesHoldTheInput` | `Spec => []FilesWhole` |
| | `WalkMeetsEveryKey` | `Spec => []KeysWalked` |

Each proof has one lemma per action, or per group of actions that touch the same parts, and under it
a step per part of the invariant the action can disturb. Every inductive invariant was model-checked
on the instances of section 3, and on variations of them, before it was proved.

### MemFlush

`Durable` alone is not inductive: a log is deleted when the last reference to its cache goes, so one
must know that this happens only after the records are in live files. `IInv` says so in parts:

- `RefInv`: every memtable the manager holds, and every open iterator, has a reference of its own,
  so a log disappears only when neither is left;
- `OrderInv`, `SendInv`, `QueueInv`: the memtable being flushed, those queued and those still to be
  sent are immutable memtables in the order of their numbers, so `OnMemTableFlushed` drops the
  one that was flushed and no other;
- `SnapshotInv`, `GenerationInv`: from encoding to installation the files of the current
  generation hold every acknowledged record of that memtable, and no live file is written again,
  since a generation is allocated above every live one;
- `StoreInv`: an acknowledged record is in the log of a held memtable or in an installed file
  (before `Open`: in a live file), unless it is exposed and gone; while logs are replayed, it is on disk
  unless it is exposed;
- `WriterInv`, `WalInv`: a record that may be torn is not acknowledged, and with `SyncWrite` an
  acknowledged record that is not exposed is synced with everything its log holds before it, so a crash
  takes nothing of it;
- `ReplayInv`: logs are replayed in order, what was read of them is cached, and what the copies of the
  open one can damage (`Rewritten`) is exposed. So whatever is lost while a log is replayed, by
  a read error or by a crash, was exposed when it was opened;
- `OfflineInv`, `QueryInv`: what is empty in which phase, and what a query between its two reads
  still has to find.

The refinement uses `Durable'`: a step that removes records from `OnDisk` is a `Forget`, because
what was acknowledged and is not at risk stays; `OpenMemTable` is `Risk`.

`FlushInOrder` and `WalReclaimed` need equalities where `IInv` has bounds. `FlushInv` adds them: `imm` is
the memtable at work, then the channel, then what is still to be sent, in this order and nothing else
(`InOrderInv`); each reference is the manager's, an iterator's or that of the log being replayed
(`CountInv`); only `Close` stops the goroutine, after the last flush, unless the application did
(`QuietInv`).

### Compaction

The invariant is in layers; each uses those before it.

- `BaseInv`. `CountInv`: the references to a reader are those of the cursors and reading compactions
  that have it, counted as cardinalities, and `levelWorkers` counts the deletes; so no count goes
  below zero and a reader with references is not closed. `PlanInv`, `GroupInv`: the groups the loop
  holds and those being compacted are pairwise disjoint and all in `filesInUse`. `DownInv`, `JobInv`:
  what is empty while the process is down, and what a compaction still has to do.
- `NameInv`. The planner works from a list that may be stale, so why is the name of an output free? A
  set of files read from the store at some time is `Tracked`: of a file that is still in the list it has
  the whole generation, and what was replaced has smaller numbers than what its generation has now.
  Flushes, compactions and restarts preserve this, hence a group whose files are all still there has the
  greatest number of its generation, and one more is new.
- `LockInv`, `GateInv`: who holds `f.mu`; from the first delete that waited until the last has ended no
  compaction runs.
- `MergeInv`, `LiveInv`: what a compaction has read covers its old files, the outputs it has renamed hold
  what it read, and every file of the list is live and open but for those being swapped, whose
  outputs are. So at each moment of `replace` a key is in an old file or in an output (`Preserved`).
- `StoreInv`, `DeleteInv`: every key is in the list; nothing deleted is in a file or in what a compaction
  has read.

### ValueLog

`VInv`: a block in the hands of a writer or behind a pointer claims one place of one file, no two blocks
claim the same, a claimed place holds its block or nothing, places that `pos` has not reached are free
(`PlaceInv`), and once a process has ended without loss the first free place of the last file is above every
claim (`DownInv`). All of this is under `~lossy`; what is not, `ControlInv`, `CountInv`, `BlockInv` and
`MappedInv`, holds whatever is lost: `pos` counts at least the places that may still be given back, so no
rollback takes it below zero. `Restored` walks to the first empty place; `Least` provides that a set of
places has a first one. `FileInv` is about a file that was not cut: places past its end are held by writers
that will make it longer or give them back, so `Truncate` in any order reaches them all unless it cuts;
`size`, the copies to be made and the places held together reach every place, so `readWithValPtr`, which
compares with `size`, finds a block once none of these is left.

### SSTIndex

These are facts about operators, for every index, set of keys and range. `DeleteRange` compares each
tombstone with the one before it and takes the least start and the greatest end as the window. Take a
time in the window: the first tombstone that ends at or after it either is the first of all, which
starts at the window's start, or follows one that ends before the time, touches it and so starts at or
before the time (`WindowCovered`). `Pred` wraps at the least int64; then the one before would have
to end at the greatest, which is not before any time. The argument needs the list in order
(`TombstoneList`), which `InsertRange` preserves (`InsertSorted`) and so `DeleteRange`
(`TombstonesStaySorted`); a new index has no tombstones. Induction over the list is the choice of
a least element (`NatLeast` of `Least`).

`IndexOK` is what an index always is: keys in increasing order, each with its entries in order of time,
the least and the greatest key and time bounds of them, tombstones in order. `SearchBytesFixed` halves an
interval and keeps that the keys before it are smaller and the key at its end, unless that is the
last one, is not; the last offset is never compared, and need not be when the key is known to be listed
(`SearchBounds`). `DeleteRangeExact` follows the early returns of `DeleteRange` one by one; it also
gives `IndexOK` of the new index, so it applies to every sequence of deletes.

### CacheIterator

The theorems are about `CacheSpec(ns)`, the iterator over a memtable with the nodes `ns`, on its own; the
flush of `FlushMerge` takes the same steps (`CacheStep`), but `FlushMerge` uses RECURSIVE operators of
`BlockMerge`, so nothing can be proved about it. `CacheInv` says of each key how far it is: untouched above
the counter; while it is encoded, the blocks so far are its first values and `rest` the others; once it is
signalled, all its blocks are there; of the key the flush stands on, those it has read and those
left are the whole (`Untouched`, `BeingEncoded`, `SignalledWhole`, `ReadSoFar`). `FlushedWhole` alone is not
inductive: it speaks of the end only. That two goroutines never have one key follows from the counter,
and with it that the flush reads only blocks nobody writes.

### SSTFile

`Inv` has three parts. They need each other in this order.

- `WriteInv`: the writer, the finished files and what is left of the input are in order of key and time;
  a finished file has sections one after the other from position 0 (`FileOK`), so `UnmarshalBinary`
  walks over all of them and the index it makes is `IndexOK`.
- `DeleteInv`: an open index holds every time of the file that no delete was asked for, and none that a
  finished delete named (`Held`); while the files are closed the tombstone files hold all of it
  (`Recoverable`). A delete under way has recorded its ranges in every file it has done and not in those
  left (`AddOK`), then what the index still has of the range lies in the batches to be applied (`ApplyOK`)
  or in the tombstones about to be stored (`StoringOK`). A failed delete may leave ranges behind:
  `requested`, not `asked`.
- `IterInv`: the index of an iterator lists what it listed at the start or fewer keys; what it has delivered
  is everything up to where it stands. So equal numbers of keys at the end mean the same keys.

`DeletedGone` then follows from what `ContainsValue` and `ReadAll` return for an index that does not hold a
time, `OthersKept` from what these, `Read` and `FileStore.Read` return for one that does: `Exclude` on a
block in order of time drops exactly the times of a range (its binary search is `Search` of `Values`). That
`FileStore.Read` finds a point in the first file with a block for its time uses the order of the files.
`FilesWhole` needs an invariant of its own, `WholeInv`: the blocks of the finished files, those of the
writer and those to come are the input, in this order. For `KeysWalked`, `Walking` says where a walk stands:
it has returned the keys before its places and nothing that is not listed, in order, and nothing ahead is
smaller than the last; each step passes one of finitely many places, so after as many steps every iterator
is at its end.

Recursive functions are handled without an induction principle over operators: `SetInduction` takes a set in
place of a predicate, and `StepwiseFunction` shows that a function defined step by step exists.

### Only model-checked

- Liveness under fairness and `ENABLED`, which the prover cannot do: the properties of `live`,
  `DeletesReturn`, `EventuallyPurged`.
- `MergedExactly` and `BlocksOrdered` of `FlushMerge`: `BlockMerge` has RECURSIVE operators, which take
  the prover its arithmetic.
- The properties of `ArrayCursor`. Which block comes next depends on an order of the locations that is not
  transitive and on an insertion sort, which is `sort.Sort` for up to 12 blocks only; there is no
  invariant of it to prove for more files than TLC enumerates.
- The properties of `Blocks`: what the codecs compute, bit by bit, for every sequence of values.

## 6. Not modelled

- the collector of value files, which panics at its entry (section 4), with the discard table;
  `MarkAsDelete`, `Sync` and the regions of value files; reads that follow a pointer;
- deletes in the memtables and in the log, and with them the race of a delete with a flush;
- the concurrent skip list of `Cache`, whose nodes are taken as a map;
- the planner's rules on file sizes, its branch for level 4, `PlanOptimize`;
- in compactions: a block that cannot be read (`compactGroup` then removes the file);
- `FileStore` backups (`CreateSnapshot`) and `Close`;
- `ReadFloatBlock`, the cursor's algorithm on slices of values, which nothing calls;
- decoders on bytes that no encoder wrote;
- the separation decider (floating-point estimates nobody reads back), rate limiter, byte pools,
  metrics, configuration, web pages and benchmarks.

## 7. Plan

1. Done: `MemFlush`, `DurableLog`, their proofs; `Compaction`, `Planner`; `ValueLog`; the read path
   (`KeyCursor`, `ArrayCursor`); flush and compaction of points (`CacheIterator`, `BlockMerge`,
   `FlushMerge`); the SST file (`SSTWriter`, `SSTIndex`, `SSTFile`); the codecs and `Blocks`.
2. Done: proofs about every property of `MemFlush`, `Compaction`, `ValueLog`, `CacheIterator` and `SSTFile`
   that a passing run checks and that is not about liveness; of `SSTIndex` its search and its deletes.
3. Proofs to come: lemmas on the operators of `Arrays` and the merges of `Values`; that a query returns no
   deleted point; an abstract specification of a store that only adds and deletes keys, refined by
   `Compaction`.
4. Deletes in memtables: the race of a delete with a flush, `Cache.Get` and `Cache.Delete` that
   take the first key not below the one asked for.
