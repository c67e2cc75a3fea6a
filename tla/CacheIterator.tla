--------------------------- MODULE CacheIterator ---------------------------
(***************************************************************************)
(* The iterator a flush reads a memtable with                              *)
(* (storage/compactor/iterator_cache_key.go).  Goroutines, one per CPU,    *)
(* take the keys one after the other from a shared counter, cut the values *)
(* of a key into blocks, encode them and signal the key's channel; the     *)
(* flush waits for the keys in order.  Whether a block goes to a value     *)
(* file is the separation decider's choice, an estimate over the data that *)
(* is left open here.                                                      *)
(***************************************************************************)
EXTENDS Integers, Sequences

CONSTANTS
    Encoders,           \* the goroutines that encode
    Size,               \* DefaultMaxPointsPerBlock
    SeparateEnabled,    \* Option.SeparateEnabled
    MaxEncodeErrors     \* bound on the blocks whose encoding fails

ASSUME CacheAssumption ==
    /\ Encoders # {}
    /\ Size \in Nat \ {0}
    /\ SeparateEnabled \in BOOLEAN
    /\ MaxEncodeErrors \in Nat

VARIABLES
    nodes,      \* the keys of the memtable in order, [key, values]
    idx,        \* the atomic counter: keys taken so far
    enc,        \* encoder -> [pc, cur, rest]
    blocks,     \* key position -> the blocks encoded
    ready,      \* the positions whose channel holds a signal
    iter,       \* the reader: [i, state], i the position it is at, 0 before the first
    written,    \* the blocks read from the iterator, in order
    nerrors

cacheVars == <<nodes, idx, enc, blocks, ready, iter, written, nerrors>>

\* NewCacheKeyIterator over the nodes ns
CacheInit(ns) ==
    /\ nodes = ns
    /\ idx = 0
    /\ enc = [e \in Encoders |-> [pc |-> "take", cur |-> 0, rest |-> <<>>]]
    /\ blocks = [i \in DOMAIN ns |-> <<>>]
    /\ ready = {}
    /\ iter = [i |-> 0, state |-> "reading"]
    /\ written = <<>>
    /\ nerrors = 0

\* mutant: the counter is read, and advanced only by the next call
TakeKeyNotAtomic(e) ==
    /\ enc[e].pc = "take"
    /\ enc' = [enc EXCEPT ![e] =
                  IF idx >= Len(nodes) THEN [@ EXCEPT !.pc = "done"]
                  ELSE [pc |-> "encode", cur |-> idx + 1, rest |-> nodes[idx + 1].values]]
    /\ idx' \in {idx, IF idx >= Len(nodes) THEN idx ELSE idx + 1}
    /\ UNCHANGED <<nodes, blocks, ready, iter, written, nerrors>>

\* atomic.AddUint64: the next key, or the end of the goroutine.
TakeKey(e) ==
    /\ enc[e].pc = "take"
    /\ IF idx >= Len(nodes)
       THEN /\ enc' = [enc EXCEPT ![e].pc = "done"]
            /\ idx' = idx
       ELSE /\ enc' = [enc EXCEPT ![e] = [pc |-> "encode", cur |-> idx + 1,
                                          rest |-> nodes[idx + 1].values]]
            /\ idx' = idx + 1
    /\ UNCHANGED <<nodes, blocks, ready, iter, written, nerrors>>

\* One round of the loop over the values: the next Size of them make a block,
\* which may be moved to a value file and replaced by its pointer.  Encoding or
\* the write to the value file may fail.
EncodeBlock(e) ==
    /\ enc[e].pc = "encode" /\ enc[e].rest # <<>>
    /\ \E ptr \in {FALSE} \cup {SeparateEnabled}, err \in BOOLEAN :
         LET rest == enc[e].rest
             end == IF Len(rest) > Size THEN Size ELSE Len(rest)
             b == [key |-> nodes[enc[e].cur].key, points |-> SubSeq(rest, 1, end),
                   min |-> rest[1].t, max |-> rest[end].t, ptr |-> ptr, err |-> err]
         IN  /\ err => nerrors < MaxEncodeErrors
             /\ nerrors' = IF err THEN nerrors + 1 ELSE nerrors
             /\ blocks' = [blocks EXCEPT ![enc[e].cur] = Append(@, b)]
             /\ enc' = [enc EXCEPT ![e].rest = SubSeq(rest, end + 1, Len(rest))]
    /\ UNCHANGED <<nodes, idx, ready, iter, written>>

\* mutant: the key is signalled with its first block
NotifyReadyEarly(e) ==
    /\ enc[e].pc = "encode" /\ blocks[enc[e].cur] # <<>>
    /\ enc[e].cur \notin ready
    /\ ready' = ready \cup {enc[e].cur}
    /\ enc' = [enc EXCEPT ![e].pc = "take"]
    /\ UNCHANGED <<nodes, idx, blocks, iter, written, nerrors>>

\* it.ready[curIdx] <- struct{}{}; the channel has room for one.
NotifyReady(e) ==
    /\ enc[e].pc = "encode" /\ enc[e].rest = <<>>
    /\ enc[e].cur \notin ready
    /\ ready' = ready \cup {enc[e].cur}
    /\ enc' = [enc EXCEPT ![e].pc = "take"]
    /\ UNCHANGED <<nodes, idx, blocks, iter, written, nerrors>>

\* The block at the head of key i, as Compactor.write reads and writes it: an
\* error stops the flush and the file is removed.
ReadBlock(i, bs) ==
    IF bs[i][1].err
    THEN written' = <<>> /\ iter' = [i |-> i, state |-> "failed"]
    ELSE written' = Append(written, bs[i][1]) /\ iter' = [i |-> i, state |-> "reading"]

\* cacheKeyIterator.Next and Read: the next block of the key, or of the next key
\* once that key's channel was signalled.
CacheNext ==
    /\ iter.state = "reading"
    /\ LET left == IF iter.i > 0 THEN Tail(blocks[iter.i]) ELSE <<>>
           popped == IF iter.i > 0 THEN [blocks EXCEPT ![iter.i] = left] ELSE blocks
       IN  /\ blocks' = popped
           /\ \/ /\ left # <<>>
                 /\ ReadBlock(iter.i, popped)
                 /\ ready' = ready
              \/ /\ left = <<>> /\ iter.i + 1 \in ready
                 /\ ready' = ready \ {iter.i + 1}
                 /\ ReadBlock(iter.i + 1, popped)
              \/ /\ left = <<>> /\ iter.i + 1 > Len(nodes)
                 /\ iter' = [i |-> iter.i + 1, state |-> "done"]
                 /\ UNCHANGED <<ready, written>>
    /\ UNCHANGED <<nodes, idx, enc, nerrors>>

\* The compactor was stopped: Read returns ErrCompactionAborted.
CacheInterrupted ==
    /\ iter.state = "reading"
    /\ iter' = [iter EXCEPT !.state = "failed"]
    /\ written' = <<>>
    /\ UNCHANGED <<nodes, idx, enc, blocks, ready, nerrors>>

\* cacheKeyIterator.Close
DropIterator ==
    /\ nodes' = <<>> /\ idx' = 0 /\ blocks' = <<>> /\ ready' = {} /\ written' = <<>>
    /\ enc' = [e \in Encoders |-> [pc |-> "done", cur |-> 0, rest |-> <<>>]]
    /\ iter' = [i |-> 0, state |-> "closed"]
    /\ UNCHANGED nerrors

CacheStep ==
    \/ \E e \in Encoders : TakeKey(e) \/ EncodeBlock(e) \/ NotifyReady(e)
    \/ CacheNext
    \/ CacheInterrupted

\* The life of an iterator over the nodes ns, as FlushMerge goes through it.
CacheSpec(ns) == CacheInit(ns) /\ [][CacheStep \/ DropIterator]_cacheVars

-----------------------------------------------------------------------------
(* Properties *)

Value == [t : Int, v : Int]

Node == [key : Int, values : Seq(Value) \ {<<>>}]

Block == [key : Int, points : Seq(Value), min : Int, max : Int, ptr : BOOLEAN, err : BOOLEAN]

Goroutine == [pc : {"take", "encode", "done"}, cur : 0..Len(nodes), rest : Seq(Value)]

\* Every variable has its type; a goroutine encodes only a key it has taken, that the flush
\* has not passed and whose channel holds no signal yet, and no other goroutine encodes
\* it (cacheKeyIterator.encode).
TypeOK ==
    /\ nodes \in Seq(Node) /\ idx \in 0..Len(nodes)
    /\ blocks \in [DOMAIN nodes -> Seq(Block)]
    /\ ready \subseteq DOMAIN nodes /\ written \in Seq(Block)
    /\ iter \in [i : 0..(Len(nodes) + 1), state : {"reading", "done", "failed", "closed"}]
    /\ enc \in [Encoders -> Goroutine]
    /\ \A e \in Encoders : enc[e].pc = "encode" =>
         /\ enc[e].cur \in (iter.i + 1..idx) \ ready
         /\ \A f \in Encoders \ {e} : enc[f].pc = "encode" => enc[f].cur # enc[e].cur
    /\ nerrors \in 0..MaxEncodeErrors

\* A key that the flush still waits for has been signalled, is being encoded, or is left
\* for a goroutine that goes on taking keys: Next never waits on a channel that nobody
\* will signal (cacheKeyIterator.Next, encode).
NoKeyForgotten ==
    iter.state = "reading" =>
        \A k \in (iter.i + 1)..Len(nodes) :
            \/ k \in ready
            \/ \E e \in Encoders : enc[e].pc = "encode" /\ enc[e].cur = k
            \/ k > idx /\ \A e \in Encoders : enc[e].pc # "done"

\* The blocks that n values make, and the values in the blocks up to the j-th.
BlockCount(n) == (n + Size - 1) \div Size

BlockEnd(n, j) == IF j * Size < n THEN j * Size ELSE n

\* The blocks of the first k keys.
BlocksUpTo(ns) ==
    LET upTo[k \in 0..Len(ns)] ==
            IF k = 0 THEN 0 ELSE upTo[k - 1] + BlockCount(Len(ns[k].values))
    IN  upTo

\* b is the j-th block of a node.
IsBlock(b, node, j) ==
    LET first == (j - 1) * Size + 1
        last == BlockEnd(Len(node.values), j)
    IN  /\ b.key = node.key /\ b.points = SubSeq(node.values, first, last)
        /\ b.min = node.values[first].t /\ b.max = node.values[last].t

\* The flush reads the keys in order and of each key all the values in order, in
\* blocks that are full but for the last, none of them with an error, whichever
\* goroutine encoded them when.
FlushedWhole ==
    iter.state = "done" =>
        /\ Len(written) = BlocksUpTo(nodes)[Len(nodes)]
        /\ \A k \in DOMAIN nodes : \A j \in 1..BlockCount(Len(nodes[k].values)) :
             LET b == written[BlocksUpTo(nodes)[k - 1] + j] IN
             IsBlock(b, nodes[k], j) /\ ~b.err
=============================================================================
