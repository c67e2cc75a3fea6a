------------------------ MODULE CacheIterator_proofs ------------------------
(***************************************************************************)
(* A flush reads all of a memtable, whatever the goroutines that encode it *)
(* do when, and never waits for a key that none of them will signal.       *)
(***************************************************************************)
EXTENDS CacheIterator, Least, SequenceTheorems

(* Arithmetic of blocks. *)

(* Multiples of the block size are ordered as their factors. *)
LEMMA TimesSize ==
  ASSUME NEW a \in Int, NEW b \in Int, a <= b
  PROVE  a * Size \in Int /\ b * Size \in Int /\ a * Size <= b * Size
<1>1. (b - a) \in Nat /\ (b - a) * Size \in Nat
  BY CacheAssumption
<1>2. (b - a) * Size = b * Size - a * Size
  BY CacheAssumption
<1> QED  BY <1>1, <1>2, CacheAssumption

(* The next multiple. *)
LEMMA NextMultiple ==
  ASSUME NEW a \in Int
  PROVE  /\ a * Size \in Int /\ (a - 1) * Size \in Int /\ (a + 1) * Size \in Int
         /\ (a + 1) * Size = a * Size + Size
         /\ (a - 1) * Size = a * Size - Size
  BY CacheAssumption

(* The blocks counted hold all the values, and one less would not. *)
LEMMA CountBounds ==
  ASSUME NEW n \in Nat \ {0}
  PROVE  /\ BlockCount(n) \in Nat \ {0}
         /\ (BlockCount(n) - 1) * Size < n /\ n <= BlockCount(n) * Size
<1>1. BlockCount(n) \in Int
  BY CacheAssumption DEF BlockCount
<1>2. BlockCount(n) * Size <= n + Size - 1 /\ n + Size - 1 < BlockCount(n) * Size + Size
  BY CacheAssumption DEF BlockCount
<1> QED
  BY <1>1, <1>2, CacheAssumption

(* Only one number of blocks is right. *)
LEMMA CountUnique ==
  ASSUME NEW n \in Nat \ {0}, NEW m \in Nat, (m - 1) * Size < n, n <= m * Size
  PROVE  m = BlockCount(n)
<1> DEFINE c == BlockCount(n)
<1>1. c \in Nat /\ (c - 1) * Size < n /\ n <= c * Size
  BY CountBounds
<1> HIDE DEF c
<1>2. CASE m < c
  <2>1. m * Size <= (c - 1) * Size
    BY <1>1, <1>2, TimesSize
  <2> QED  BY <1>1, <2>1, NextMultiple
<1>3. CASE c < m
  <2>1. c * Size <= (m - 1) * Size
    BY <1>1, <1>3, TimesSize
  <2> QED  BY <1>1, <2>1, NextMultiple
<1> QED  BY <1>1, <1>2, <1>3 DEF c

(* What a node is. *)
LEMMA NodeFacts ==
  ASSUME NEW node \in Node
  PROVE  /\ node.key \in Int /\ node.values \in Seq(Value)
         /\ Len(node.values) \in Nat \ {0} /\ DOMAIN node.values = 1..Len(node.values)
         /\ \A x \in 1..Len(node.values) : node.values[x] \in Value /\ node.values[x].t \in Int
<1>1. node.key \in Int /\ node.values \in Seq(Value) /\ node.values # <<>>
  BY DEF Node
<1>2. Len(node.values) \in Nat \ {0} /\ DOMAIN node.values = 1..Len(node.values)
  BY <1>1
<1>3. \A x \in 1..Len(node.values) : node.values[x] \in Value
  BY <1>1, <1>2
<1>4. \A a \in Value : a.t \in Int
  BY DEF Value
<1> QED  BY <1>1, <1>2, <1>3, <1>4

(* The sums of block counts exist. *)
LEMMA UpToFacts ==
  ASSUME NEW ns \in Seq(Node)
  PROVE  /\ \A k \in 0..Len(ns) : BlocksUpTo(ns)[k] \in Nat
         /\ BlocksUpTo(ns)[0] = 0
         /\ \A k \in 1..Len(ns) :
              BlocksUpTo(ns)[k] = BlocksUpTo(ns)[k - 1] + BlockCount(Len(ns[k].values))
<1> DEFINE n == Len(ns)
           c(k) == BlockCount(Len(ns[k].values))
           h == [k \in 1..n |-> [x \in Nat |-> x + c(k)]]
<1>1. n \in Nat /\ \A k \in 1..n : c(k) \in Nat
  BY NodeFacts, CountBounds
<1> HIDE DEF c, n
<1>2. h \in [1..n -> [Nat -> Nat]] /\ \A k \in 1..n, x \in Nat : h[k][x] = x + c(k)
  BY <1>1
<1> HIDE DEF h
<1>3. PICK g \in [0..n -> Nat] : g[0] = 0 /\ \A k \in 1..n : g[k] = h[k][g[k - 1]]
  <2>1. n \in Nat
    BY <1>1
  <2>2. 0 \in Nat
    OBVIOUS
  <2>3. h \in [1..n -> [Nat -> Nat]]
    BY <1>2
  <2>4. \E g \in [0..n -> Nat] : Stepwise(g, n, 0, h)
    BY <2>1, <2>2, <2>3, StepwiseFunction
  <2> QED  BY <2>4 DEF Stepwise
<1>4. \A k \in 1..n : k - 1 \in 0..n /\ g[k - 1] \in Nat /\ g[k] = g[k - 1] + c(k)
  <2> SUFFICES ASSUME NEW k \in 1..n
               PROVE  k - 1 \in 0..n /\ g[k - 1] \in Nat /\ g[k] = g[k - 1] + c(k)
    OBVIOUS
  <2>1. k - 1 \in 0..n
    BY <1>1
  <2>2. g[k - 1] \in Nat
    BY <1>3, <2>1
  <2> QED  BY <1>2, <1>3, <2>1, <2>2
<1> DEFINE Def(f) == f = [k \in 0..n |-> IF k = 0 THEN 0 ELSE f[k - 1] + c(k)]
           f == CHOOSE x : Def(x)
<1>5. Def(g)
  BY <1>1, <1>3, <1>4
<1>6. f = BlocksUpTo(ns)
  BY DEF BlocksUpTo, n, c
<1>7. Def(f)
  <2> HIDE DEF Def
  <2> QED  BY <1>5
<1> HIDE DEF f
<1>8. f[0] = 0 /\ \A k \in 1..n : f[k] = f[k - 1] + c(k)
  <2>1. \A k \in 0..n : f[k] = (IF k = 0 THEN 0 ELSE f[k - 1] + c(k))
    BY <1>7
  <2> QED  BY <1>1, <2>1
<1>9. \A k \in 0..n : f[k] \in Nat
  <2> DEFINE S == {k \in 0..n : f[k] \in Nat}
  <2>1. 0 \in S
    BY <1>1, <1>8
  <2>2. ASSUME NEW m \in 0..n, m \in S, m < n PROVE m + 1 \in S
    <3>1. m + 1 \in 1..n /\ (m + 1) - 1 = m /\ m + 1 \in 0..n
      BY <1>1, <2>2
    <3> QED  BY <3>1, <2>2, <1>1, <1>8
  <2>3. \A m \in 0..n : m \in S
    <3> HIDE DEF S
    <3> QED  BY <1>1, <2>1, <2>2, SetInduction
  <2> QED  BY <2>3
<1> QED  BY <1>6, <1>8, <1>9 DEF c, n
-----------------------------------------------------------------------------
(* The inductive invariant *)

Count(k) == BlockCount(Len(nodes[k].values))

\* The blocks that key k has are those after the first d.
Cuts(k, d) == \A m \in 1..Len(blocks[k]) : IsBlock(blocks[k][m], nodes[k], d + m)

\* No key that is not taken has blocks.
Untouched == \A k \in DOMAIN nodes : idx < k => blocks[k] = <<>>

\* What is left of the values of a node follows its first n blocks, of which the last is
\* not empty.
Follows(rest, node, n) ==
    LET len == Len(node.values) IN
    /\ n > 0 => (n - 1) * Size < len
    /\ Len(rest) = len - BlockEnd(len, n)
    /\ \A x \in 1..Len(rest) : rest[x] = node.values[BlockEnd(len, n) + x]

BeingEncoded ==
    \A e \in Encoders : enc[e].pc = "encode" =>
        /\ Cuts(enc[e].cur, 0)
        /\ Follows(enc[e].rest, nodes[enc[e].cur], Len(blocks[enc[e].cur]))

\* A key that is signalled has all its blocks.
SignalledWhole ==
    \A k \in ready : /\ k \in (iter.i + 1)..idx
                     /\ Cuts(k, 0) /\ Len(blocks[k]) = Count(k)

\* The blocks of key k that were read, the one it stands on among them.
ReadOf(k) == Count(k) - Len(blocks[k]) + 1

Standing(i) ==
    i > 0 => /\ i <= idx
             /\ Len(blocks[i]) \in 1..Count(i) /\ Cuts(i, ReadOf(i) - 1)

\* The j-th block of key k was read, at its place.
Delivered(k, j) ==
    LET p == BlocksUpTo(nodes)[k - 1] + j IN
    p \in 1..Len(written) /\ IsBlock(written[p], nodes[k], j) /\ ~written[p].err

\* What was read when the iterator stands at position i.
WrittenTo(i) ==
    /\ Len(written) = IF i = 0 THEN 0 ELSE BlocksUpTo(nodes)[i - 1] + ReadOf(i)
    /\ \A k \in 1..i : \A j \in 1..Count(k) :
         k < i \/ j <= ReadOf(i) => Delivered(k, j)

ReadSoFar == iter.state = "reading" => Standing(iter.i) /\ WrittenTo(iter.i)

\* The flush passes no key that is not taken.
Passed == iter.i <= idx \/ idx = Len(nodes)

\* The invariant.
CacheInv ==
    /\ TypeOK /\ Passed /\ Untouched /\ BeingEncoded /\ SignalledWhole /\ ReadSoFar
    /\ FlushedWhole

-----------------------------------------------------------------------------
(* One block of a key *)

(* The block EncodeBlock makes of the values that are left. *)
NextEnd(rest) == IF Len(rest) > Size THEN Size ELSE Len(rest)

NextBlock(node, rest, ptr, err) ==
    [key |-> node.key, points |-> SubSeq(rest, 1, NextEnd(rest)),
     min |-> rest[1].t, max |-> rest[NextEnd(rest)].t, ptr |-> ptr, err |-> err]

(* Where the blocks end. *)
LEMMA EndFacts ==
  ASSUME NEW len \in Nat \ {0}, NEW n \in Nat
  PROVE  /\ BlockEnd(len, n) \in 0..len /\ BlockEnd(len, 0) = 0
         /\ BlockEnd(len, n) < len => BlockEnd(len, n) = n * Size
         /\ BlockEnd(len, n) = len => n > 0 /\ len <= n * Size
         /\ BlockEnd(len, n) < len => BlockEnd(len, n + 1) =
               IF len - BlockEnd(len, n) > Size THEN BlockEnd(len, n) + Size ELSE len
<1>1. n * Size \in Nat /\ 0 * Size = 0
  BY CacheAssumption
<1>2. (n + 1) * Size = n * Size + Size /\ (n + 1) * Size \in Nat
  BY <1>1, NextMultiple, CacheAssumption
<1> DEFINE a == n * Size
           b == (n + 1) * Size
<1>3. a \in Nat /\ b = a + Size /\ b \in Nat
  BY <1>1, <1>2
<1>4. n = 0 => a = 0
  BY <1>1
<1>5. /\ BlockEnd(len, n) = IF a < len THEN a ELSE len
      /\ BlockEnd(len, n + 1) = IF b < len THEN b ELSE len
      /\ BlockEnd(len, 0) = IF 0 < len THEN 0 ELSE len
  BY <1>1 DEF BlockEnd
<1> HIDE DEF a, b
<1>6. /\ BlockEnd(len, n) \in 0..len /\ BlockEnd(len, 0) = 0
      /\ BlockEnd(len, n) < len => BlockEnd(len, n) = a
      /\ BlockEnd(len, n) = len => n > 0 /\ len <= a
      /\ BlockEnd(len, n) < len => BlockEnd(len, n + 1) =
            IF len - BlockEnd(len, n) > Size THEN BlockEnd(len, n) + Size ELSE len
  BY <1>3, <1>4, <1>5, CacheAssumption
<1> QED  BY <1>6 DEF a

(* The block made of what is left is the next one, and leaves what follows it. *)
LEMMA NextBlockRight ==
  ASSUME NEW node \in Node, NEW n \in Nat, NEW rest \in Seq(Value), rest # <<>>,
         Follows(rest, node, n), NEW ptr \in BOOLEAN, NEW err \in BOOLEAN
  PROVE  /\ NextBlock(node, rest, ptr, err) \in Block
         /\ IsBlock(NextBlock(node, rest, ptr, err), node, n + 1)
         /\ SubSeq(rest, NextEnd(rest) + 1, Len(rest)) \in Seq(Value)
         /\ Follows(SubSeq(rest, NextEnd(rest) + 1, Len(rest)), node, n + 1)
<1> DEFINE vs == node.values
           len == Len(vs)
           p == BlockEnd(len, n)
           end == NextEnd(rest)
           q == BlockEnd(len, n + 1)
           left == SubSeq(rest, end + 1, Len(rest))
<1>1. vs \in Seq(Value) /\ len \in Nat \ {0} /\ \A x \in 1..len : vs[x] \in Value /\ vs[x].t \in Int
  BY NodeFacts
<1>2. /\ Len(rest) \in Nat \ {0} /\ Len(rest) = len - p
      /\ \A x \in 1..Len(rest) : rest[x] = vs[p + x] /\ rest[x] \in Value
  BY DEF Follows
<1>3. /\ p \in 0..len
      /\ p < len => p = n * Size
      /\ p < len => q = IF len - p > Size THEN p + Size ELSE len
  BY <1>1, EndFacts
<1> HIDE DEF p, q, len, vs
<1>4. p < len /\ p = n * Size
  BY <1>1, <1>2, <1>3
<1>5. end \in 1..Len(rest) /\ q = p + end
  <2>1. end = IF len - p > Size THEN Size ELSE len - p
    BY <1>2 DEF NextEnd
  <2>2. q = IF len - p > Size THEN p + Size ELSE len
    BY <1>3, <1>4
  <2>3. Size \in Nat /\ Size > 0 /\ len \in Nat /\ p \in Nat
    BY CacheAssumption, <1>1, <1>3
  <2> HIDE DEF end
  <2> QED  BY <2>1, <2>2, <2>3, <1>2, <1>4
<1> HIDE DEF end
<1>6. q \in 1..len /\ p + 1 \in 1..len
  BY <1>1, <1>2, <1>3, <1>4, <1>5
<1>7. SubSeq(rest, 1, end) = SubSeq(vs, p + 1, q) /\ SubSeq(rest, 1, end) \in Seq(Value)
  <2> DEFINE s1 == SubSeq(rest, 1, end)
             s2 == SubSeq(vs, p + 1, q)
  <2>1. s1 \in Seq(Value) /\ Len(s1) = end /\ \A x \in 1..end : s1[x] = rest[x]
    BY <1>2, <1>5
  <2>2. \A x \in 1..end : rest[x] = vs[p + x]
    BY <1>2, <1>5
  <2>3. s2 \in Seq(Value) /\ Len(s2) = end /\ \A x \in 1..end : s2[x] = vs[p + x]
    <3>1. /\ p \in Nat /\ q \in Nat /\ end \in Nat /\ q - (p + 1) + 1 = end /\ p + 1 <= q
          /\ \A x \in 1..end : (p + 1) + x - 1 = p + x
      BY <1>1, <1>2, <1>3, <1>5
    <3>2. \A i \in (p + 1)..q : vs[i] \in Value
      BY <1>1, <1>3, <1>6
    <3>3. /\ s2 \in Seq(Value)
          /\ Len(s2) = IF p + 1 <= q THEN q - (p + 1) + 1 ELSE 0
          /\ \A x \in 1..(q - (p + 1) + 1) : s2[x] = vs[(p + 1) + x - 1]
      <4>1. p + 1 \in Int /\ q \in Int
        BY <3>1
      <4> QED  BY <4>1, <3>2, SubSeqProperties
    <3> HIDE DEF s2
    <3> QED  BY <3>1, <3>3
  <2> HIDE DEF s1, s2
  <2>4. s1 = s2
    BY <2>1, <2>2, <2>3
  <2> QED  BY <2>1, <2>4 DEF s1, s2
<1>8. rest[1].t = vs[p + 1].t /\ rest[end].t = vs[q].t /\ rest[1].t \in Int /\ rest[end].t \in Int
  BY <1>1, <1>2, <1>5, <1>6
<1>9. node.key \in Int
  BY NodeFacts
<1>10. NextBlock(node, rest, ptr, err) \in Block
  BY <1>7, <1>8, <1>9 DEF NextBlock, Block, end
<1>11. IsBlock(NextBlock(node, rest, ptr, err), node, n + 1)
  <2>1. (n + 1) - 1 = n
    OBVIOUS
  <2> QED  BY <2>1, <1>4, <1>7, <1>8 DEF IsBlock, NextBlock, end, vs, len, q
<1>12. /\ left \in Seq(Value) /\ Len(left) = Len(rest) - end
       /\ \A x \in 1..Len(left) : left[x] = rest[end + x]
  BY <1>2, <1>5
<1> HIDE DEF left
<1>13. Len(left) = len - q /\ \A x \in 1..Len(left) : left[x] = vs[q + x]
  <2>1. Len(left) = len - q
    BY <1>1, <1>2, <1>3, <1>5, <1>12
  <2>2. ASSUME NEW x \in 1..Len(left) PROVE left[x] = vs[q + x]
    <3>1. end + x \in 1..Len(rest) /\ p + (end + x) = q + x
      BY <1>1, <1>2, <1>3, <1>5, <1>12
    <3> QED  BY <3>1, <1>2, <1>12
  <2> QED  BY <2>1, <2>2
<1>14. Follows(left, node, n + 1)
  <2>1. (n + 1) - 1 = n
    OBVIOUS
  <2> QED  BY <2>1, <1>4, <1>13 DEF Follows, vs, len, q
<1> QED  BY <1>10, <1>11, <1>12, <1>14 DEF left, end

(* When nothing is left the key has all its blocks. *)
LEMMA NothingLeft ==
  ASSUME NEW node \in Node, NEW n \in Nat, Follows(<<>>, node, n)
  PROVE  n = BlockCount(Len(node.values))
<1> DEFINE len == Len(node.values)
<1>1. len \in Nat \ {0}
  BY NodeFacts
<1>2. /\ n > 0 => (n - 1) * Size < len
      /\ BlockEnd(len, n) \in 0..len /\ 0 = len - BlockEnd(len, n)
  BY <1>1, EndFacts DEF Follows
<1>3. BlockEnd(len, n) = len
  BY <1>1, <1>2
<1>4. n > 0 /\ len <= n * Size
  BY <1>1, <1>3, EndFacts
<1> HIDE DEF len
<1>5. n = BlockCount(len)
  BY <1>1, <1>2, <1>4, CountUnique
<1> QED  BY <1>5 DEF len

-----------------------------------------------------------------------------
(* The steps *)

(* What the types say. *)
LEMMA TypeFacts ==
  ASSUME TypeOK
  PROVE  /\ nodes \in Seq(Node) /\ Len(nodes) \in Nat /\ DOMAIN nodes = 1..Len(nodes)
         /\ \A k \in 1..Len(nodes) : nodes[k] \in Node /\ Count(k) \in Nat \ {0}
         /\ idx \in 0..Len(nodes) /\ idx \in Nat
         /\ DOMAIN blocks = 1..Len(nodes)
         /\ \A k \in 1..Len(nodes) : blocks[k] \in Seq(Block) /\ Len(blocks[k]) \in Nat
         /\ iter.i \in 0..(Len(nodes) + 1) /\ iter.i \in Nat
         /\ \A e \in Encoders : enc[e] \in Goroutine
         /\ \A e \in Encoders : enc[e].pc = "encode" =>
              enc[e].cur \in (iter.i + 1)..idx /\ enc[e].cur \in 1..Len(nodes)
<1>1. nodes \in Seq(Node) /\ Len(nodes) \in Nat /\ DOMAIN nodes = 1..Len(nodes)
  BY DEF TypeOK
<1>2. \A k \in 1..Len(nodes) : nodes[k] \in Node
  BY <1>1
<1>3. \A k \in 1..Len(nodes) : Count(k) \in Nat \ {0}
  BY <1>2, NodeFacts, CountBounds DEF Count
<1>4. idx \in 0..Len(nodes) /\ idx \in Nat
  BY <1>1 DEF TypeOK
<1>5. iter.i \in 0..(Len(nodes) + 1) /\ iter.i \in Nat
  BY <1>1 DEF TypeOK
<1>6. DOMAIN blocks = 1..Len(nodes) /\ \A k \in 1..Len(nodes) : blocks[k] \in Seq(Block)
  BY <1>1 DEF TypeOK
<1>7. \A k \in 1..Len(nodes) : Len(blocks[k]) \in Nat
  BY <1>6
<1>8. \A e \in Encoders : enc[e] \in Goroutine
  <2>1. enc \in [Encoders -> Goroutine]
    BY DEF TypeOK
  <2> QED  BY <2>1
<1>9. \A e \in Encoders : enc[e].pc = "encode" => enc[e].cur \in (iter.i + 1)..idx
  BY DEF TypeOK
<1>10. \A e \in Encoders : enc[e].pc = "encode" => enc[e].cur \in 1..Len(nodes)
  BY <1>4, <1>5, <1>9
<1> QED  BY <1>1, <1>2, <1>3, <1>4, <1>5, <1>6, <1>7, <1>8, <1>9, <1>10

(* The start. *)
LEMMA InitInv ==
  ASSUME NEW ns \in Seq(Node), CacheInit(ns)
  PROVE  CacheInv /\ NoKeyForgotten
<1> USE DEF CacheInit
<1>0. nodes \in Seq(Node) /\ Len(nodes) \in Nat /\ DOMAIN nodes = 1..Len(nodes)
  OBVIOUS
<1>1. TypeOK
  <2>1. blocks \in [DOMAIN nodes -> Seq(Block)]
    OBVIOUS
  <2>2. [pc |-> "take", cur |-> 0, rest |-> <<>>] \in Goroutine
    BY <1>0 DEF Goroutine
  <2>3. /\ enc \in [Encoders -> Goroutine]
        /\ \A e \in Encoders : enc[e] = [pc |-> "take", cur |-> 0, rest |-> <<>>]
    BY <2>2
  <2>4. written \in Seq(Block) /\ nerrors \in 0..MaxEncodeErrors
    BY CacheAssumption
  <2>5. iter \in [i : 0..(Len(nodes) + 1), state : {"reading", "done", "failed", "closed"}]
    BY <1>0
  <2>6. ASSUME NEW e \in Encoders PROVE enc[e].pc # "encode"
    <3> HIDE DEF CacheInit
    <3>1. enc[e] = [pc |-> "take", cur |-> 0, rest |-> <<>>]
      BY <2>3
    <3> QED  BY <3>1
  <2> QED  BY <1>0, <2>1, <2>3, <2>4, <2>5, <2>6 DEF TypeOK
<1>2. Untouched /\ Passed
  BY DEF Untouched, Passed
<1>3. BeingEncoded
  BY DEF BeingEncoded
<1>4. SignalledWhole
  BY DEF SignalledWhole
<1>5. ReadSoFar
  BY <1>0 DEF ReadSoFar, Standing, WrittenTo
<1>6. FlushedWhole
  BY DEF FlushedWhole
<1>7. NoKeyForgotten
  BY <1>0 DEF NoKeyForgotten
<1> QED  BY <1>1, <1>2, <1>3, <1>4, <1>5, <1>6, <1>7 DEF CacheInv

(* A goroutine takes the next key. *)
LEMMA TakeKeyInv ==
  ASSUME CacheInv, NEW e \in Encoders, TakeKey(e)
  PROVE  CacheInv'
<1> USE DEF CacheInv
<1>0. UNCHANGED <<nodes, blocks, ready, iter, written, nerrors>>
  BY DEF TakeKey
<1>1. idx' \in 0..Len(nodes) /\ idx' \in Nat /\ idx <= idx'
  BY TypeFacts DEF TakeKey
<1>2. ASSUME idx < Len(nodes)
      PROVE  /\ enc' = [enc EXCEPT ![e] = [pc |-> "encode", cur |-> idx + 1, rest |-> nodes[idx + 1].values]]
             /\ idx' = idx + 1 /\ idx + 1 \in 1..Len(nodes) /\ nodes[idx + 1] \in Node
             /\ nodes[idx + 1].values \in Seq(Value)
  <2>1. idx + 1 \in 1..Len(nodes) /\ ~(idx >= Len(nodes))
    BY <1>2, TypeFacts
  <2>2. nodes[idx + 1] \in Node /\ nodes[idx + 1].values \in Seq(Value)
    BY <2>1, TypeFacts, NodeFacts
  <2> QED  BY <2>1, <2>2 DEF TakeKey
<1>3. ASSUME ~(idx < Len(nodes)) PROVE enc' = [enc EXCEPT ![e].pc = "done"] /\ idx' = idx
  <2>1. idx >= Len(nodes)
    BY <1>3, TypeFacts
  <2> QED  BY <2>1 DEF TakeKey
<1>4. enc \in [Encoders -> Goroutine] /\ enc[e] \in Goroutine /\ enc[e].pc = "take"
  BY DEF TypeOK, TakeKey
<1>5. enc' \in [Encoders -> Goroutine]
  <2>1. CASE idx < Len(nodes)
    <3>1. [pc |-> "encode", cur |-> idx + 1, rest |-> nodes[idx + 1].values] \in Goroutine
      BY <2>1, <1>2, TypeFacts DEF Goroutine
    <3> QED  BY <2>1, <3>1, <1>2, <1>4
  <2>2. CASE ~(idx < Len(nodes))
    <3>1. [enc[e] EXCEPT !.pc = "done"] \in Goroutine
      BY <1>4 DEF Goroutine
    <3> QED  BY <2>2, <3>1, <1>3, <1>4
  <2> QED  BY <2>1, <2>2
<1>6. ASSUME NEW f \in Encoders, f # e PROVE enc'[f] = enc[f]
  BY <1>2, <1>3, <1>4, <1>6
<1>7. enc'[e].pc = "encode" => /\ idx < Len(nodes) /\ idx' = idx + 1
                               /\ enc'[e].cur = idx + 1 /\ enc'[e].rest = nodes[idx + 1].values
  <2>1. CASE idx < Len(nodes)
    BY <2>1, <1>2, <1>4
  <2>2. CASE ~(idx < Len(nodes))
    <3>1. enc'[e] = [enc[e] EXCEPT !.pc = "done"]
      BY <2>2, <1>3, <1>4
    <3>2. enc'[e].pc = "done"
      BY <3>1, <1>4 DEF Goroutine
    <3> QED  BY <3>2
  <2> QED  BY <2>1, <2>2
<1>8. TypeOK'
  <2>1. ASSUME NEW f \in Encoders, enc'[f].pc = "encode"
        PROVE  enc'[f].cur \in ((iter'.i + 1)..idx') \ ready'
    <3>1. CASE f = e
      <4>1. iter.i <= idx /\ idx + 1 \notin ready
        BY TypeFacts, <2>1, <3>1, <1>7 DEF Passed, SignalledWhole
      <4> QED  BY <4>1, <3>1, <2>1, <1>0, <1>7, TypeFacts
    <3>2. CASE f # e
      BY <3>2, <2>1, <1>0, <1>1, <1>6, TypeFacts DEF TypeOK
    <3> QED  BY <3>1, <3>2
  <2>2. ASSUME NEW f \in Encoders, enc'[f].pc = "encode",
               NEW g \in Encoders \ {f}, enc'[g].pc = "encode"
        PROVE  enc'[g].cur # enc'[f].cur
    <3>1. CASE f # e /\ g # e
      BY <3>1, <2>2, <1>6 DEF TypeOK
    <3>2. CASE f = e
      <4>1. enc[g].pc = "encode" /\ enc'[g] = enc[g]
        BY <3>2, <2>2, <1>6
      <4>2. enc[g].cur <= idx /\ enc[g].cur \in Int
        BY <4>1, TypeFacts
      <4> QED  BY <4>1, <4>2, <3>2, <2>2, <1>7, TypeFacts
    <3>3. CASE g = e
      <4>1. enc[f].pc = "encode" /\ enc'[f] = enc[f]
        BY <3>3, <2>2, <1>6
      <4>2. enc[f].cur <= idx /\ enc[f].cur \in Int
        BY <4>1, TypeFacts
      <4> QED  BY <4>1, <4>2, <3>3, <2>2, <1>7, TypeFacts
    <3> QED  BY <3>1, <3>2, <3>3
  <2>3. Goroutine' = Goroutine
    BY <1>0 DEF Goroutine
  <2> QED  BY <2>1, <2>2, <2>3, <1>0, <1>1, <1>5 DEF TypeOK
<1>9. Untouched' /\ Passed'
  BY <1>0, <1>1, TypeFacts DEF Untouched, Passed
<1>10. BeingEncoded'
  <2> SUFFICES ASSUME NEW f \in Encoders, enc'[f].pc = "encode"
               PROVE  /\ Cuts(enc[f].cur, 0)'
                      /\ Follows(enc'[f].rest, nodes[enc'[f].cur], Len(blocks[enc'[f].cur]))
    BY <1>0 DEF BeingEncoded, Cuts
  <2>1. CASE f = e
    <3>1. blocks[idx + 1] = <<>> /\ nodes[idx + 1] \in Node
      BY <2>1, <1>2, <1>7, TypeFacts DEF Untouched
    <3>2. Follows(nodes[idx + 1].values, nodes[idx + 1], 0)
      <4> DEFINE vs == nodes[idx + 1].values
      <4>1. vs \in Seq(Value) /\ Len(vs) \in Nat \ {0}
        BY <3>1, NodeFacts
      <4>2. BlockEnd(Len(vs), 0) = 0
        BY <4>1, EndFacts
      <4> HIDE DEF vs
      <4>3. Len(vs) = Len(vs) - BlockEnd(Len(vs), 0)
        BY <4>1, <4>2
      <4>4. \A x \in 1..Len(vs) : vs[x] = vs[BlockEnd(Len(vs), 0) + x]
        BY <4>1, <4>2
      <4>5. ~(0 > 0)
        OBVIOUS
      <4> QED  BY <4>3, <4>4, <4>5 DEF Follows, vs
    <3> QED  BY <3>1, <3>2, <2>1, <1>0, <1>7 DEF Cuts
  <2>2. CASE f # e
    BY <2>2, <1>0, <1>6 DEF BeingEncoded, Cuts
  <2> QED  BY <2>1, <2>2
<1>11. SignalledWhole'
  <2> SUFFICES ASSUME NEW k \in ready
               PROVE  k \in (iter.i + 1)..idx' /\ Cuts(k, 0)' /\ Len(blocks[k]) = Count(k)
    BY <1>0 DEF SignalledWhole, Count
  <2>1. k \in (iter.i + 1)..idx /\ Cuts(k, 0) /\ Len(blocks[k]) = Count(k)
    BY DEF SignalledWhole
  <2>2. k \in (iter.i + 1)..idx'
    BY <2>1, <1>1, TypeFacts
  <2>3. Cuts(k, 0)'
    BY <2>1, <1>0 DEF Cuts
  <2> QED  BY <2>1, <2>2, <2>3
<1>12. ReadSoFar'
  BY <1>0, <1>1, TypeFacts DEF ReadSoFar, Standing, WrittenTo, Delivered, ReadOf, Cuts, Count
<1>13. FlushedWhole'
  BY <1>0 DEF FlushedWhole
<1> QED  BY <1>8, <1>9, <1>10, <1>11, <1>12, <1>13

(* A goroutine encodes the next block of its key. *)
LEMMA EncodeBlockInv ==
  ASSUME CacheInv, NEW e \in Encoders, EncodeBlock(e)
  PROVE  CacheInv'
<1> USE DEF CacheInv
<1> DEFINE k == enc[e].cur
           rest == enc[e].rest
           node == nodes[k]
           n == Len(blocks[k])
           left == SubSeq(rest, NextEnd(rest) + 1, Len(rest))
<1>0. UNCHANGED <<nodes, idx, ready, iter, written>> /\ enc[e].pc = "encode" /\ rest # <<>>
  BY DEF EncodeBlock
<1>1. PICK ptr \in BOOLEAN, err \in BOOLEAN :
        /\ nerrors' \in 0..MaxEncodeErrors
        /\ blocks' = [blocks EXCEPT ![k] = Append(@, NextBlock(node, rest, ptr, err))]
        /\ enc' = [enc EXCEPT ![e].rest = left]
  <2>1. PICK ptr \in {FALSE} \cup {SeparateEnabled}, err \in BOOLEAN :
          /\ err => nerrors < MaxEncodeErrors
          /\ nerrors' = IF err THEN nerrors + 1 ELSE nerrors
          /\ blocks' = [blocks EXCEPT ![k] = Append(@, NextBlock(node, rest, ptr, err))]
          /\ enc' = [enc EXCEPT ![e].rest = left]
    BY DEF EncodeBlock, NextBlock, NextEnd
  <2>2. ptr \in BOOLEAN
    BY <2>1, CacheAssumption
  <2>3. nerrors \in 0..MaxEncodeErrors /\ MaxEncodeErrors \in Nat
    BY CacheAssumption DEF TypeOK
  <2>4. nerrors' \in 0..MaxEncodeErrors
    BY <2>1, <2>3
  <2> QED  BY <2>1, <2>2, <2>4
<1> DEFINE b == NextBlock(node, rest, ptr, err)
<1>2. /\ k \in (iter.i + 1)..idx /\ k \in 1..Len(nodes) /\ k \in Nat /\ node \in Node
      /\ n \in Nat /\ blocks[k] \in Seq(Block) /\ rest \in Seq(Value) /\ k \notin ready
      /\ enc[e] \in Goroutine
  <2>1. k \in (iter.i + 1)..idx /\ k \in 1..Len(nodes) /\ enc[e] \in Goroutine
    BY <1>0, TypeFacts
  <2>2. rest \in Seq(Value)
    BY <2>1 DEF Goroutine
  <2>3. k \notin ready
    BY <1>0 DEF TypeOK
  <2> QED  BY <2>1, <2>2, <2>3, TypeFacts
<1>3. Cuts(k, 0) /\ Follows(rest, node, n)
  BY <1>0 DEF BeingEncoded
<1> HIDE DEF node, rest, k, n
<1>4. b \in Block /\ IsBlock(b, node, n + 1) /\ left \in Seq(Value) /\ Follows(left, node, n + 1)
  BY <1>0, <1>2, <1>3, NextBlockRight
<1> HIDE DEF b, left
<1>5. /\ blocks'[k] = Append(blocks[k], b) /\ blocks'[k] \in Seq(Block)
      /\ Len(blocks'[k]) = n + 1
      /\ \A m \in 1..n : blocks'[k][m] = blocks[k][m]
      /\ blocks'[k][n + 1] = b
  <2>1. blocks'[k] = Append(blocks[k], b)
    BY <1>1, <1>2, TypeFacts DEF b
  <2> QED  BY <2>1, <1>2, <1>4 DEF n
<1>6. \A j \in 1..Len(nodes) : j # k => blocks'[j] = blocks[j]
  BY <1>1, TypeFacts
<1>7. blocks' \in [DOMAIN nodes -> Seq(Block)]
  BY <1>1, <1>5, <1>6, TypeFacts DEF TypeOK
<1>8. Goroutine' = Goroutine
  BY <1>0 DEF Goroutine
<1>9. /\ enc' \in [Encoders -> Goroutine] /\ enc'[e].rest = left
      /\ enc'[e].pc = "encode" /\ enc'[e].cur = k
  <2>1. enc \in [Encoders -> Goroutine]
    BY DEF TypeOK
  <2>2. enc'[e] = [enc[e] EXCEPT !.rest = left] /\ enc' = [enc EXCEPT ![e] = enc'[e]]
    BY <1>1, <2>1
  <2>3. /\ [enc[e] EXCEPT !.rest = left] \in Goroutine
        /\ [enc[e] EXCEPT !.rest = left].rest = left
        /\ [enc[e] EXCEPT !.rest = left].pc = enc[e].pc
        /\ [enc[e] EXCEPT !.rest = left].cur = k
    BY <1>2, <1>4 DEF Goroutine, k
  <2> QED  BY <2>1, <2>2, <2>3, <1>0
<1>10. \A f \in Encoders : f # e => enc'[f] = enc[f]
  BY <1>1 DEF TypeOK
<1>11. \A f \in Encoders : enc'[f].pc = enc[f].pc /\ enc'[f].cur = enc[f].cur
  BY <1>0, <1>9, <1>10 DEF k
<1>12. TypeOK'
  <2>1. \A f \in Encoders : enc'[f].pc = "encode" =>
          /\ enc'[f].cur \in (iter.i + 1..idx) \ ready
          /\ \A g \in Encoders \ {f} : enc'[g].pc = "encode" => enc'[g].cur # enc'[f].cur
    BY <1>11 DEF TypeOK
  <2> QED  BY <2>1, <1>0, <1>1, <1>7, <1>8, <1>9 DEF TypeOK
<1>13. Untouched' /\ Passed'
  BY SMTT(30), <1>0, <1>2, <1>6, TypeFacts DEF Untouched, Passed
<1>14. \A j \in 1..Len(nodes) : \A d : j # k => (Cuts(j, d)' <=> Cuts(j, d))
  BY <1>0, <1>6 DEF Cuts
<1>15. BeingEncoded'
  <2> SUFFICES ASSUME NEW f \in Encoders, enc'[f].pc = "encode"
               PROVE  /\ Cuts(enc[f].cur, 0)'
                      /\ Follows(enc'[f].rest, nodes[enc'[f].cur], Len(blocks'[enc'[f].cur]))
    BY <1>0 DEF BeingEncoded
  <2>1. CASE f = e
    <3>1. ASSUME NEW m \in 1..(n + 1) PROVE IsBlock(blocks'[k][m], node, 0 + m)
      <4>1. CASE m = n + 1
        <5>1. 0 + m = n + 1
          BY <1>2, <4>1
        <5> QED  BY <5>1, <4>1, <1>4, <1>5
      <4>2. CASE m # n + 1
        <5>1. m \in 1..n
          BY <4>2, <1>2
        <5>2. IsBlock(blocks[k][m], node, 0 + m)
          BY <5>1, <1>3 DEF Cuts, n, node
        <5> QED  BY <5>1, <5>2, <1>5
      <4> QED  BY <4>1, <4>2
    <3>2. Cuts(enc[f].cur, 0)'
      BY <3>1, <2>1, <1>0, <1>5, <1>9 DEF Cuts, node
    <3> QED  BY <3>2, <2>1, <1>4, <1>5, <1>9 DEF node
  <2>2. CASE f # e
    <3>1. enc'[f] = enc[f] /\ enc[f].pc = "encode" /\ enc[f].cur \in 1..Len(nodes)
      BY <2>2, <1>10, TypeFacts
    <3>2. enc[f].cur # k
      BY <2>2, <3>1, <1>0 DEF TypeOK, k
    <3>3. Cuts(enc[f].cur, 0) /\ Follows(enc[f].rest, nodes[enc[f].cur], Len(blocks[enc[f].cur]))
      BY <3>1 DEF BeingEncoded
    <3>4. blocks'[enc[f].cur] = blocks[enc[f].cur]
      BY <3>1, <3>2, <1>6
    <3>5. Cuts(enc[f].cur, 0)'
      BY <3>1, <3>3, <3>4, <1>0 DEF Cuts
    <3> QED  BY <3>1, <3>3, <3>4, <3>5
  <2> QED  BY <2>1, <2>2
<1>16. SignalledWhole'
  <2> SUFFICES ASSUME NEW j \in ready
               PROVE  j \in (iter.i + 1)..idx /\ Cuts(j, 0)' /\ Len(blocks'[j]) = Count(j)
    BY <1>0 DEF SignalledWhole, Count
  <2>1. j \in 1..Len(nodes) /\ j # k
    BY <1>2, TypeFacts DEF TypeOK
  <2> QED  BY <2>1, <1>6, <1>14 DEF SignalledWhole
<1>17. iter.i # k
  BY <1>2, TypeFacts
<1>18. ReadSoFar'
  <2> SUFFICES ASSUME iter.state = "reading" PROVE Standing(iter.i)' /\ WrittenTo(iter.i)'
    BY <1>0 DEF ReadSoFar
  <2>1. Standing(iter.i) /\ WrittenTo(iter.i)
    BY DEF ReadSoFar
  <2>2. CASE iter.i = 0
    BY <2>1, <2>2, <1>0 DEF Standing, WrittenTo
  <2>3. CASE iter.i # 0
    <3>1. iter.i \in 1..Len(nodes)
      BY <2>1, <2>3, TypeFacts DEF Standing
    <3>2. blocks'[iter.i] = blocks[iter.i]
      BY <3>1, <1>6, <1>17
    <3> QED  BY <2>1, <3>2, <1>0 DEF Standing, WrittenTo, Delivered, ReadOf, Count, Cuts
  <2> QED  BY <2>2, <2>3
<1>19. FlushedWhole'
  BY <1>0 DEF FlushedWhole
<1> QED  BY <1>12, <1>13, <1>15, <1>16, <1>18, <1>19

(* A goroutine signals a key that is encoded. *)
LEMMA NotifyReadyInv ==
  ASSUME CacheInv, NEW e \in Encoders, NotifyReady(e)
  PROVE  CacheInv'
<1> USE DEF CacheInv
<1> DEFINE k == enc[e].cur
<1>0. /\ UNCHANGED <<nodes, idx, blocks, iter, written, nerrors>>
      /\ enc[e].pc = "encode" /\ enc[e].rest = <<>> /\ ready' = ready \cup {k}
      /\ enc' = [enc EXCEPT ![e].pc = "take"]
  BY DEF NotifyReady
<1>1. /\ k \in (iter.i + 1)..idx /\ k \in 1..Len(nodes) /\ enc[e] \in Goroutine
      /\ nodes[k] \in Node /\ Len(blocks[k]) \in Nat
  <2>1. k \in (iter.i + 1)..idx /\ k \in 1..Len(nodes) /\ enc[e] \in Goroutine
    BY <1>0, TypeFacts
  <2> QED  BY <2>1, TypeFacts
<1>2. Cuts(k, 0) /\ Follows(<<>>, nodes[k], Len(blocks[k]))
  BY <1>0 DEF BeingEncoded
<1>3. Len(blocks[k]) = Count(k)
  BY <1>1, <1>2, NothingLeft DEF Count
<1>4. Goroutine' = Goroutine
  BY <1>0 DEF Goroutine
<1>5. enc' \in [Encoders -> Goroutine] /\ enc'[e].pc = "take"
  <2>1. enc \in [Encoders -> Goroutine]
    BY DEF TypeOK
  <2>2. enc'[e] = [enc[e] EXCEPT !.pc = "take"] /\ enc' = [enc EXCEPT ![e] = enc'[e]]
    BY <1>0, <2>1
  <2>3. [enc[e] EXCEPT !.pc = "take"] \in Goroutine /\ [enc[e] EXCEPT !.pc = "take"].pc = "take"
    BY <1>1 DEF Goroutine
  <2> QED  BY <2>1, <2>2, <2>3
<1>6. \A f \in Encoders : f # e => enc'[f] = enc[f]
  BY <1>0 DEF TypeOK
<1>7. \A f \in Encoders : enc'[f].pc = "encode" =>
        f # e /\ enc'[f] = enc[f] /\ enc[f].pc = "encode" /\ enc[f].cur # k
  <2> SUFFICES ASSUME NEW f \in Encoders, enc'[f].pc = "encode"
               PROVE  f # e /\ enc'[f] = enc[f] /\ enc[f].pc = "encode" /\ enc[f].cur # k
    OBVIOUS
  <2>1. f # e
    BY <1>5
  <2>2. enc'[f] = enc[f] /\ enc[f].pc = "encode"
    BY <2>1, <1>6
  <2> QED  BY <2>1, <2>2, <1>0 DEF TypeOK
<1> HIDE DEF k
<1>8. TypeOK'
  <2>1. \A f \in Encoders : enc'[f].pc = "encode" =>
          /\ enc'[f].cur \in (iter.i + 1..idx) \ ready'
          /\ \A g \in Encoders \ {f} : enc'[g].pc = "encode" => enc'[g].cur # enc'[f].cur
    BY <1>0, <1>7 DEF TypeOK
  <2>2. ready' \subseteq DOMAIN nodes
    BY <1>0, <1>1, TypeFacts DEF TypeOK
  <2> QED  BY <2>1, <2>2, <1>0, <1>4, <1>5 DEF TypeOK
<1>9. Untouched' /\ Passed'
  BY <1>0 DEF Untouched, Passed
<1>10. BeingEncoded'
  <2> SUFFICES ASSUME NEW f \in Encoders, enc'[f].pc = "encode"
               PROVE  /\ Cuts(enc[f].cur, 0)'
                      /\ Follows(enc'[f].rest, nodes[enc'[f].cur], Len(blocks[enc'[f].cur]))
    BY <1>0 DEF BeingEncoded
  <2> QED  BY <1>0, <1>7 DEF BeingEncoded, Cuts
<1>11. SignalledWhole'
  BY <1>0, <1>1, <1>2, <1>3 DEF SignalledWhole, Cuts, Count
<1>12. ReadSoFar'
  BY <1>0 DEF ReadSoFar, Standing, WrittenTo, Delivered, ReadOf, Cuts, Count
<1>13. FlushedWhole'
  BY <1>0 DEF FlushedWhole
<1> QED  BY <1>8, <1>9, <1>10, <1>11, <1>12, <1>13

(* Where the flush stands when the key before it is read to its end. *)
LEMMA KeyRead ==
  ASSUME CacheInv, iter.state = "reading",
         iter.i > 0 => Tail(blocks[iter.i]) = <<>>
  PROVE  /\ iter.i \in 0..Len(nodes) /\ Len(written) = BlocksUpTo(nodes)[iter.i]
         /\ \A k \in 1..iter.i : \A j \in 1..Count(k) : Delivered(k, j)
<1> DEFINE i == iter.i
<1>1. Standing(i) /\ WrittenTo(i)
  BY DEF CacheInv, ReadSoFar
<1>2. TypeOK
  BY DEF CacheInv
<1>3. i \in 0..Len(nodes)
  BY <1>1, <1>2, TypeFacts DEF Standing
<1>4. CASE i = 0
  BY <1>1, <1>2, <1>3, <1>4, UpToFacts, TypeFacts DEF WrittenTo
<1>5. CASE i # 0
  <2>1. i \in 1..Len(nodes) /\ Count(i) \in Nat
    BY <1>2, <1>3, <1>5, TypeFacts
  <2>2. Len(blocks[i]) \in 1..Count(i) /\ blocks[i] \in Seq(Block)
    BY <2>1, <1>1, <1>2, TypeFacts DEF Standing
  <2>3. Len(blocks[i]) = 1
    <3>1. Tail(blocks[i]) = <<>>
      BY <2>1
    <3> HIDE DEF i
    <3>2. Len(blocks[i]) \in Nat /\ Len(blocks[i]) >= 1
      BY <2>1, <2>2
    <3> DEFINE t == Tail(blocks[i])
               l == Len(blocks[i])
    <3>3. Len(t) = l - 1
      BY <2>2, <3>2
    <3>4. t = <<>>
      BY <3>1
    <3> HIDE DEF t, l
    <3>5. l = 1
      BY <3>2, <3>3, <3>4 DEF l
    <3> QED  BY <3>5 DEF l
  <2>4. ReadOf(i) = Count(i)
    BY <2>1, <2>3 DEF ReadOf
  <2>5. BlocksUpTo(nodes)[i] = BlocksUpTo(nodes)[i - 1] + Count(i)
    BY <2>1, <1>2, TypeFacts, UpToFacts DEF Count
  <2>6. Len(written) = BlocksUpTo(nodes)[i]
    BY <1>1, <1>5, <2>4, <2>5 DEF WrittenTo
  <2>7. ASSUME NEW k \in 1..i, NEW j \in 1..Count(k)
        PROVE  Delivered(k, j)
    <3>1. k < i \/ j <= ReadOf(i)
      BY <2>1, <2>4, <2>7
    <3> QED  BY <3>1, <1>1 DEF WrittenTo
  <2> QED  BY <1>3, <2>6, <2>7
<1> QED  BY <1>4, <1>5

(* A block that is read is the next one of the file. *)
LEMMA BlockWritten ==
  ASSUME TypeOK, NEW i \in 1..Len(nodes), NEW r \in 1..Count(i), NEW b \in Block,
         IsBlock(b, nodes[i], r), ~b.err,
         Len(written) = BlocksUpTo(nodes)[i - 1] + r - 1,
         \A k \in 1..i : \A j \in 1..Count(k) : k < i \/ j < r => Delivered(k, j),
         written' = Append(written, b), nodes' = nodes, Count(i) - Len(blocks'[i]) + 1 = r
  PROVE  WrittenTo(i)' /\ written' \in Seq(Block)
<1> DEFINE n == Len(written)
           u == BlocksUpTo(nodes)
<1>1. /\ written \in Seq(Block) /\ n \in Nat /\ i \in Nat /\ r \in Nat /\ i # 0
      /\ Len(nodes) \in Nat /\ Count(i) \in Nat
  BY TypeFacts DEF TypeOK
<1>2. written' \in Seq(Block) /\ Len(written') = n + 1
  BY <1>1
<1>3. (\A p \in 1..n : written'[p] = written[p]) /\ written'[n + 1] = b
  BY <1>1
<1>4. \A k \in 0..Len(nodes) : u[k] \in Nat
  BY TypeFacts, UpToFacts
<1>5. u[i - 1] \in Nat /\ n = u[i - 1] + r - 1
  BY <1>1, <1>4
<1> HIDE DEF u, n
<1>6. Len(written') = u[i - 1] + r
  BY <1>1, <1>2, <1>5
<1>7. ASSUME NEW k \in 1..i, NEW j \in 1..Count(k), k < i \/ j <= r
      PROVE  /\ u[k - 1] + j \in 1..Len(written')
             /\ IsBlock(written'[u[k - 1] + j], nodes[k], j) /\ ~written'[u[k - 1] + j].err
  <2>0. k \in Nat /\ j \in Nat /\ u[k - 1] \in Nat
    <3>1. k \in 1..Len(nodes) /\ Count(k) \in Nat
      BY SMTT(30), <1>1, TypeFacts
    <3> QED  BY <3>1, <1>1, <1>4
  <2>1. CASE k < i \/ j < r
    <3>1. /\ u[k - 1] + j \in 1..n
          /\ IsBlock(written[u[k - 1] + j], nodes[k], j) /\ ~written[u[k - 1] + j].err
      BY <2>1 DEF u, n, Delivered
    <3> QED  BY <3>1, <1>1, <1>2, <1>3
  <2>2. CASE ~(k < i \/ j < r)
    <3>1. k = i /\ j = r
      BY <2>0, <2>2, <1>1, <1>7
    <3>2. u[k - 1] + j = n + 1
      BY <3>1, <1>1, <1>5
    <3> QED  BY <3>1, <3>2, <1>1, <1>2, <1>3
  <2> QED  BY <2>1, <2>2
<1>8. ReadOf(i)' = r /\ \A k : Count(k)' = Count(k)
  BY DEF ReadOf, Count
<1>9. ASSUME NEW k \in 1..i, NEW j \in 1..Count(k), k < i \/ j <= r
      PROVE  Delivered(k, j)'
  BY <1>7, <1>9 DEF Delivered, u
<1> QED  BY <1>1, <1>2, <1>6, <1>8, <1>9 DEF WrittenTo, u

(* The blocks once the one that was read is dropped. *)
Popped == IF iter.i > 0 THEN [blocks EXCEPT ![iter.i] = Tail(blocks[iter.i])] ELSE blocks

(* Dropping it leaves the keys after iter.i alone. *)
LEMMA PoppedFacts ==
  ASSUME CacheInv, iter.state = "reading"
  PROVE  /\ Popped \in [DOMAIN nodes -> Seq(Block)]
         /\ \A k \in 1..Len(nodes) : k # iter.i => Popped[k] = blocks[k]
         /\ iter.i > 0 => /\ iter.i \in 1..Len(nodes) /\ blocks[iter.i] # <<>>
                          /\ Popped[iter.i] = Tail(blocks[iter.i])
<1> DEFINE i == iter.i
<1>1. TypeOK /\ Standing(i) /\ blocks \in [DOMAIN nodes -> Seq(Block)]
  BY DEF CacheInv, ReadSoFar, TypeOK
<1>2. i > 0 => /\ i \in 1..Len(nodes) /\ blocks[i] \in Seq(Block) /\ Len(blocks[i]) \in 1..Count(i)
               /\ Count(i) \in Nat
  BY <1>1, TypeFacts DEF Standing
<1>3. DOMAIN nodes = 1..Len(nodes)
  BY <1>1, TypeFacts
<1>4. CASE i > 0
  <2>1. blocks[i] # <<>> /\ Tail(blocks[i]) \in Seq(Block)
    <3>1. blocks[i] \in Seq(Block) /\ Len(blocks[i]) > 0
      BY <1>2, <1>4
    <3> HIDE DEF i
    <3> QED  BY <3>1
  <2>2. Popped = [blocks EXCEPT ![i] = Tail(blocks[i])]
    BY <1>4 DEF Popped
  <2> HIDE DEF i
  <2>3. Popped \in [DOMAIN nodes -> Seq(Block)]
    BY <2>1, <2>2, <1>1
  <2>4. Popped[i] = Tail(blocks[i]) /\ \A k \in 1..Len(nodes) : k # i => Popped[k] = blocks[k]
    BY <2>2, <1>1, <1>2, <1>3, <1>4
  <2> QED  BY <2>1, <2>3, <2>4, <1>2 DEF i
<1>5. CASE ~(i > 0)
  BY <1>1, <1>5 DEF Popped
<1> QED  BY <1>4, <1>5

(* What a step of Next leaves as it was, wherever it goes. *)
LEMMA NextFrame ==
  ASSUME CacheInv, iter.state = "reading", blocks' = Popped,
         UNCHANGED <<nodes, idx, enc, nerrors>>,
         written' \in Seq(Block),
         iter' \in [i : 0..(Len(nodes) + 1), state : {"reading", "done", "failed", "closed"}],
         \/ iter'.i = iter.i /\ ready' = ready
         \/ iter'.i = iter.i + 1 /\ iter.i + 1 \in ready /\ ready' = ready \ {iter.i + 1}
         \/ iter'.i = iter.i + 1 /\ iter.i + 1 > Len(nodes) /\ ready' = ready
  PROVE  TypeOK' /\ Passed' /\ Untouched' /\ BeingEncoded' /\ SignalledWhole'
<1> DEFINE i == iter.i
<1>1. TypeOK /\ Passed /\ Untouched /\ BeingEncoded /\ SignalledWhole /\ Standing(i)
  BY DEF CacheInv, ReadSoFar
<1>2. i \in 0..Len(nodes) /\ i <= idx /\ idx \in 0..Len(nodes) /\ Len(nodes) \in Nat
  BY <1>1, TypeFacts DEF Standing
<1>3. \A k \in ready : k \in (i + 1)..idx /\ k \in 1..Len(nodes)
  BY <1>1, <1>2 DEF SignalledWhole
<1>4. iter'.i \in i..(i + 1) /\ ready' \subseteq ready
  BY <1>2
<1>5. \A k \in ready' : k \in (iter'.i + 1)..idx
  BY <1>2, <1>3
<1>6. \A f \in Encoders : enc[f].pc = "encode" =>
        enc[f].cur \in (iter'.i + 1)..idx /\ enc[f].cur \notin ready'
  <2> SUFFICES ASSUME NEW f \in Encoders, enc[f].pc = "encode"
               PROVE  enc[f].cur \in (iter'.i + 1)..idx /\ enc[f].cur \notin ready'
    OBVIOUS
  <2>1. enc[f].cur \in (i + 1)..idx /\ enc[f].cur \notin ready
    BY <1>1 DEF TypeOK
  <2> QED  BY SMTT(30), <2>1, <1>2, <1>4
<1>7. TypeOK'
  <2>1. ready' \subseteq DOMAIN nodes /\ blocks' \in [DOMAIN nodes -> Seq(Block)]
    BY <1>1, <1>4, PoppedFacts DEF TypeOK
  <2>2. \A f \in Encoders : enc[f].pc = "encode" =>
           \A g \in Encoders \ {f} : enc[g].pc = "encode" => enc[g].cur # enc[f].cur
    BY <1>1 DEF TypeOK
  <2>3. Goroutine' = Goroutine
    BY DEF Goroutine
  <2>4. /\ nodes \in Seq(Node) /\ idx \in 0..Len(nodes) /\ nerrors \in 0..MaxEncodeErrors
        /\ enc \in [Encoders -> Goroutine]
    BY <1>1 DEF TypeOK
  <2> QED  BY <2>1, <2>2, <2>3, <2>4, <1>6 DEF TypeOK
<1>8. Passed'
  BY <1>2, <1>3 DEF Passed
<1>9. \A k \in (i + 1)..Len(nodes) : blocks'[k] = blocks[k]
  BY <1>2, PoppedFacts
<1>10. Untouched'
  <2> SUFFICES ASSUME NEW k \in DOMAIN nodes, idx < k PROVE blocks'[k] = <<>>
    BY DEF Untouched
  <2>1. k \in (i + 1)..Len(nodes)
    BY <1>1, <1>2, TypeFacts
  <2> QED  BY <2>1, <1>1, <1>9 DEF Untouched
<1>11. ASSUME NEW k \in (i + 1)..Len(nodes), Cuts(k, 0) PROVE Cuts(k, 0)'
  BY <1>9, <1>11 DEF Cuts
<1>12. BeingEncoded'
  <2> SUFFICES ASSUME NEW f \in Encoders, enc[f].pc = "encode"
               PROVE  /\ Cuts(enc[f].cur, 0)'
                      /\ Follows(enc[f].rest, nodes[enc[f].cur], Len(blocks'[enc[f].cur]))
    BY DEF BeingEncoded
  <2>1. enc[f].cur \in (i + 1)..Len(nodes)
    BY <1>1, <1>2, TypeFacts
  <2>2. Cuts(enc[f].cur, 0) /\ Follows(enc[f].rest, nodes[enc[f].cur], Len(blocks[enc[f].cur]))
    BY <1>1 DEF BeingEncoded
  <2>3. Cuts(enc[f].cur, 0)'
    BY <2>1, <2>2, <1>9 DEF Cuts
  <2> QED  BY <2>1, <2>2, <2>3, <1>9
<1>13. SignalledWhole'
  <2> SUFFICES ASSUME NEW k \in ready'
               PROVE  k \in (iter'.i + 1)..idx /\ Cuts(k, 0)' /\ Len(blocks'[k]) = Count(k)
    BY DEF SignalledWhole, Count
  <2>1. k \in ready /\ k \in (i + 1)..Len(nodes)
    BY <1>2, <1>3, <1>4
  <2> QED  BY <2>1, <1>1, <1>5, <1>9, <1>11 DEF SignalledWhole
<1> QED  BY <1>7, <1>8, <1>10, <1>12, <1>13

(* A block with an error: nothing is kept. *)
LEMMA ReadFails ==
  ASSUME NEW i \in 0..Len(nodes), NEW bs, bs[i][1].err, ReadBlock(i, bs)
  PROVE  /\ iter' = [i |-> i, state |-> "failed"]
         /\ written' \in Seq(Block) /\ ReadSoFar' /\ FlushedWhole'
<1>1. iter' = [i |-> i, state |-> "failed"] /\ written' = <<>>
  BY DEF ReadBlock
<1> QED  BY <1>1 DEF ReadSoFar, FlushedWhole

(* The flush reads on in its key. *)
LEMMA NextInKey ==
  ASSUME CacheInv, iter.state = "reading", blocks' = Popped,
         UNCHANGED <<nodes, idx, enc, nerrors, ready>>,
         iter.i > 0, Tail(blocks[iter.i]) # <<>>, ReadBlock(iter.i, Popped)
  PROVE  CacheInv'
<1>0. PICK i : i = iter.i
  OBVIOUS
<1> DEFINE old == blocks[i]
           new == Popped[i]
           r == ReadOf(i)
<1>1. TypeOK /\ Standing(i) /\ WrittenTo(i)
  BY <1>0 DEF CacheInv, ReadSoFar
<1>2. i \in 1..Len(nodes) /\ new = Tail(old) /\ i <= idx
  BY <1>0, <1>1, PoppedFacts DEF Standing
<1>3. /\ old \in Seq(Block) /\ Count(i) \in Nat /\ Len(old) \in 1..Count(i)
      /\ \A m \in 1..Len(old) : IsBlock(old[m], nodes[i], (r - 1) + m)
      /\ r = Count(i) - Len(old) + 1
  <2>1. old \in Seq(Block) /\ Count(i) \in Nat
    BY <1>1, <1>2, TypeFacts
  <2>2. Len(old) \in 1..Count(i) /\ Cuts(i, r - 1)
    <3>1. i > 0
      BY <1>2
    <3> QED  BY <3>1, <1>1 DEF Standing
  <2>3. r = Count(i) - Len(old) + 1
    BY DEF ReadOf
  <2> HIDE DEF r
  <2> QED  BY <2>1, <2>2, <2>3 DEF Cuts
<1>4. Len(nodes) \in Nat /\ iter' \in [i : {i}, state : {"reading", "failed"}]
  BY <1>0, <1>1, TypeFacts DEF ReadBlock
<1> HIDE DEF old, new, r
<1>5. /\ new \in Seq(Block) /\ Len(new) = Len(old) - 1 /\ Len(new) \in Nat \ {0}
      /\ \A m \in 1..Len(new) : new[m] = old[m + 1] /\ new[m] \in Block
  <2>1. Tail(old) # <<>> /\ old # <<>>
    BY <1>0, <1>3 DEF old
  <2>2. Len(old) \in Nat /\ Len(Tail(old)) \in Nat /\ Len(Tail(old)) = Len(old) - 1
    BY <2>1, <1>3
  <2>3. Len(Tail(old)) # 0 /\ Tail(old) \in Seq(Block)
    <3> DEFINE t == Tail(old)
    <3>1. t \in Seq(Block) /\ t # <<>>
      BY <2>1, <1>3
    <3> HIDE DEF t
    <3>2. Len(t) # 0
      BY <3>1
    <3> QED  BY <3>1, <3>2 DEF t
  <2>4. \A m \in 1..Len(Tail(old)) : Tail(old)[m] = old[m + 1] /\ Tail(old)[m] \in Block
    BY <2>1, <2>2, <1>3
  <2> QED  BY <2>2, <2>3, <2>4, <1>2
<1>6. \A m \in 1..Len(new) : IsBlock(new[m], nodes[i], r + m)
  <2> SUFFICES ASSUME NEW m \in 1..Len(new) PROVE IsBlock(new[m], nodes[i], r + m)
    OBVIOUS
  <2>1. m + 1 \in 1..Len(old) /\ (r - 1) + (m + 1) = r + m
    BY <1>3, <1>5
  <2> QED  BY <2>1, <1>3, <1>5
<1>7. /\ r + 1 \in 1..Count(i) /\ 1 \in 1..Len(new) /\ Len(new) \in 1..Count(i)
      /\ Count(i) - Len(new) + 1 = r + 1 /\ r \in Nat
  <2> DEFINE c == Count(i)
             l == Len(old)
             m == Len(new)
  <2>1. c \in Nat /\ l \in 1..c /\ m = l - 1 /\ m \in Nat \ {0} /\ r = c - l + 1
    BY <1>3, <1>5
  <2> HIDE DEF c, l, m
  <2>2. r + 1 \in 1..c /\ 1 \in 1..m /\ m \in 1..c /\ c - m + 1 = r + 1 /\ r \in Nat
    BY <2>1
  <2> QED  BY <2>2 DEF c, l, m
<1>8. blocks'[i] = new /\ nodes' = nodes
  BY DEF new
<1>9. written' \in Seq(Block) /\ ReadSoFar' /\ FlushedWhole'
  <2>1. CASE new[1].err
    <3>1. i \in 0..Len(nodes) /\ ReadBlock(i, Popped) /\ Popped[i][1].err
      BY <2>1, <1>0, <1>2, <1>4 DEF new
    <3> QED  BY <3>1, ReadFails
  <2>2. CASE ~new[1].err
    <3>1. written' = Append(written, new[1]) /\ iter' = [i |-> i, state |-> "reading"]
      BY <2>2, <1>0 DEF ReadBlock, new
    <3>2. WrittenTo(i)' /\ written' \in Seq(Block)
      <4>1. Len(written) = BlocksUpTo(nodes)[i - 1] + (r + 1) - 1
        <5>1. Len(written) = BlocksUpTo(nodes)[i - 1] + r /\ BlocksUpTo(nodes)[i - 1] \in Nat
          <6>1. i # 0 /\ i - 1 \in 0..Len(nodes)
            BY <1>2, <1>4
          <6> QED  BY <6>1, <1>1, TypeFacts, UpToFacts DEF WrittenTo, r
        <5> QED  BY <5>1, <1>7
      <4>2. \A k \in 1..i : \A j \in 1..Count(k) : k < i \/ j < r + 1 => Delivered(k, j)
        <5> SUFFICES ASSUME NEW k \in 1..i, NEW j \in 1..Count(k), k < i \/ j < r + 1
                     PROVE  Delivered(k, j)
          OBVIOUS
        <5>1. k < i \/ j <= r
          <6>1. k \in 1..Len(nodes) /\ Count(k) \in Nat
            BY SMTT(30), <1>1, <1>2, <1>4, TypeFacts
          <6> QED  BY <6>1, <1>7
        <5> QED  BY <5>1, <1>1 DEF WrittenTo, r
      <4>3. new[1] \in Block /\ IsBlock(new[1], nodes[i], r + 1)
        BY <1>5, <1>6, <1>7
      <4>4. Count(i) - Len(blocks'[i]) + 1 = r + 1
        BY <1>7, <1>8
      <4> QED  BY <4>1, <4>2, <4>3, <4>4, <3>1, <2>2, <1>1, <1>2, <1>7, <1>8, BlockWritten
    <3>3. Standing(i)'
      <4>1. ReadOf(i)' = r + 1 /\ Count(i)' = Count(i)
        BY <1>7, <1>8 DEF ReadOf, Count
      <4>2. \A m \in 1..Len(new) : IsBlock(new[m], nodes[i], ((r + 1) - 1) + m)
        <5>1. (r + 1) - 1 = r
          BY <1>7
        <5> QED  BY <5>1, <1>6
      <4> QED  BY <4>1, <4>2, <1>2, <1>7, <1>8 DEF Standing, Cuts
    <3>4. ReadSoFar'
      BY <3>1, <3>2, <3>3 DEF ReadSoFar
    <3> QED  BY <3>1, <3>2, <3>4 DEF FlushedWhole
  <2> QED  BY <2>1, <2>2
<1>10. TypeOK' /\ Passed' /\ Untouched' /\ BeingEncoded' /\ SignalledWhole'
  <2>1. iter' \in [i : 0..(Len(nodes) + 1), state : {"reading", "done", "failed", "closed"}]
    BY <1>2, <1>4
  <2>2. iter'.i = iter.i /\ ready' = ready
    BY <1>0, <1>4
  <2> QED  BY <2>1, <2>2, <1>9, NextFrame
<1> QED  BY <1>9, <1>10 DEF CacheInv

(* The flush goes on to the next key, which was signalled. *)
LEMMA NextOfKeys ==
  ASSUME CacheInv, iter.state = "reading", blocks' = Popped,
         UNCHANGED <<nodes, idx, enc, nerrors>>,
         iter.i > 0 => Tail(blocks[iter.i]) = <<>>,
         iter.i + 1 \in ready, ready' = ready \ {iter.i + 1}, ReadBlock(iter.i + 1, Popped)
  PROVE  CacheInv'
<1>0. PICK i : i = iter.i + 1
  OBVIOUS
<1> DEFINE new == blocks[i]
<1>1. TypeOK /\ SignalledWhole
  BY DEF CacheInv
<1>2. i \in 1..Len(nodes) /\ i <= idx /\ iter.i \in Nat /\ i - 1 = iter.i /\ i # iter.i
  <2>1. iter.i \in Nat /\ Len(nodes) \in Nat /\ idx \in 0..Len(nodes)
    BY <1>1, TypeFacts
  <2>2. i \in (iter.i + 1)..idx
    BY <1>0, <1>1 DEF SignalledWhole
  <2> DEFINE p == iter.i
             n == Len(nodes)
  <2>3. p \in Nat /\ n \in Nat /\ idx \in 0..n /\ i \in (p + 1)..idx /\ i = p + 1
    BY <2>1, <2>2, <1>0
  <2> HIDE DEF p, n
  <2>4. i \in 1..n /\ i <= idx /\ p \in Nat /\ i - 1 = p /\ i # p
    BY <2>3
  <2> QED  BY <2>4 DEF p, n
<1>3. /\ new \in Seq(Block) /\ Count(i) \in Nat \ {0} /\ Len(new) = Count(i)
      /\ \A m \in 1..Len(new) : IsBlock(new[m], nodes[i], 0 + m)
  BY <1>0, <1>1, <1>2, TypeFacts DEF SignalledWhole, Cuts
<1>4. Popped[i] = new
  BY <1>2, PoppedFacts
<1>5. Len(nodes) \in Nat /\ iter' \in [i : {i}, state : {"reading", "failed"}]
  BY <1>0, <1>1, TypeFacts DEF ReadBlock
<1>6. /\ Len(written) = BlocksUpTo(nodes)[i - 1]
      /\ \A k \in 1..(i - 1) : \A j \in 1..Count(k) : Delivered(k, j)
  BY <1>2, KeyRead
<1>7. ReadBlock(i, Popped)
  BY <1>0
<1> HIDE DEF new
<1>9. written' \in Seq(Block) /\ ReadSoFar' /\ FlushedWhole'
  <2>1. CASE new[1].err
    <3>1. i \in 0..Len(nodes) /\ Popped[i][1].err
      BY <2>1, <1>2, <1>4, <1>5
    <3> QED  BY <3>1, <1>7, ReadFails
  <2>2. CASE ~new[1].err
    <3>1. written' = Append(written, new[1]) /\ iter' = [i |-> i, state |-> "reading"]
      BY <2>2, <1>4, <1>7 DEF ReadBlock
    <3>2. 1 \in 1..Count(i) /\ Count(i) - Len(blocks'[i]) + 1 = 1 /\ nodes' = nodes
      BY <1>3, <1>4
    <3>3. WrittenTo(i)' /\ written' \in Seq(Block)
      <4>1. Len(written) = BlocksUpTo(nodes)[i - 1] + 1 - 1
        <5>1. BlocksUpTo(nodes)[i - 1] \in Nat
          BY <1>1, <1>2, <1>5, TypeFacts, UpToFacts
        <5> QED  BY <5>1, <1>6
      <4>2. \A k \in 1..i : \A j \in 1..Count(k) : k < i \/ j < 1 => Delivered(k, j)
        <5> SUFFICES ASSUME NEW k \in 1..i, NEW j \in 1..Count(k), k < i \/ j < 1
                     PROVE  Delivered(k, j)
          OBVIOUS
        <5>1. k \in 1..(i - 1)
          <6>1. k \in 1..Len(nodes) /\ Count(k) \in Nat
            BY SMTT(30), <1>1, <1>2, <1>5, TypeFacts
          <6> QED  BY <6>1, <1>2
        <5> QED  BY <5>1, <1>6
      <4>3. new[1] \in Block /\ IsBlock(new[1], nodes[i], 1)
        <5>1. 1 \in 1..Len(new) /\ 0 + 1 = 1
          BY <1>3
        <5> QED  BY <5>1, <1>3
      <4> QED  BY <4>1, <4>2, <4>3, <3>1, <3>2, <2>2, <1>1, <1>2, BlockWritten
    <3>4. Standing(i)'
      <4>1. ReadOf(i)' = 1 /\ Count(i)' = Count(i)
        BY <3>2 DEF ReadOf, Count
      <4>2. \A m \in 1..Len(new) : IsBlock(new[m], nodes[i], (1 - 1) + m)
        BY <1>3
      <4> QED  BY <4>1, <4>2, <1>2, <1>3, <1>4 DEF Standing, Cuts
    <3>5. ReadSoFar'
      BY <3>1, <3>3, <3>4 DEF ReadSoFar
    <3> QED  BY <3>1, <3>3, <3>5 DEF FlushedWhole
  <2> QED  BY <2>1, <2>2
<1>10. TypeOK' /\ Passed' /\ Untouched' /\ BeingEncoded' /\ SignalledWhole'
  <2>1. iter' \in [i : 0..(Len(nodes) + 1), state : {"reading", "done", "failed", "closed"}]
    BY <1>2, <1>5
  <2>2. iter'.i = iter.i + 1
    BY <1>0, <1>5
  <2> QED  BY <2>1, <2>2, <1>9, NextFrame
<1> QED  BY <1>9, <1>10 DEF CacheInv

(* The flush has read the last key. *)
LEMMA NextEnds ==
  ASSUME CacheInv, iter.state = "reading", blocks' = Popped,
         UNCHANGED <<nodes, idx, enc, nerrors, ready, written>>,
         iter.i > 0 => Tail(blocks[iter.i]) = <<>>,
         iter.i + 1 > Len(nodes), iter' = [i |-> iter.i + 1, state |-> "done"]
  PROVE  CacheInv'
<1>1. TypeOK
  BY DEF CacheInv
<1>2. iter.i = Len(nodes) /\ Len(nodes) \in Nat /\ DOMAIN nodes = 1..Len(nodes)
  BY <1>1, KeyRead, TypeFacts
<1>3. /\ Len(written) = BlocksUpTo(nodes)[Len(nodes)]
      /\ \A k \in 1..Len(nodes) : \A j \in 1..Count(k) : Delivered(k, j)
  BY <1>2, KeyRead
<1>4. FlushedWhole'
  BY <1>2, <1>3 DEF FlushedWhole, Delivered, Count
<1>5. ReadSoFar'
  BY DEF ReadSoFar
<1>6. TypeOK' /\ Passed' /\ Untouched' /\ BeingEncoded' /\ SignalledWhole'
  <2>1. iter' \in [i : 0..(Len(nodes) + 1), state : {"reading", "done", "failed", "closed"}]
    BY <1>2
  <2>2. written' \in Seq(Block) /\ iter'.i = iter.i + 1
    BY <1>1 DEF TypeOK
  <2> QED  BY <2>1, <2>2, NextFrame
<1> QED  BY <1>4, <1>5, <1>6 DEF CacheInv

(* The flush reads. *)
LEMMA CacheNextInv ==
  ASSUME CacheInv, CacheNext
  PROVE  CacheInv'
<1> DEFINE left == IF iter.i > 0 THEN Tail(blocks[iter.i]) ELSE <<>>
<1>1. /\ iter.state = "reading" /\ blocks' = Popped /\ UNCHANGED <<nodes, idx, enc, nerrors>>
      /\ \/ left # <<>> /\ ReadBlock(iter.i, Popped) /\ ready' = ready
         \/ /\ left = <<>> /\ iter.i + 1 \in ready /\ ready' = ready \ {iter.i + 1}
            /\ ReadBlock(iter.i + 1, Popped)
         \/ /\ left = <<>> /\ iter.i + 1 > Len(nodes)
            /\ iter' = [i |-> iter.i + 1, state |-> "done"] /\ UNCHANGED <<ready, written>>
  BY DEF CacheNext, Popped
<1>2. CASE left # <<>> /\ ReadBlock(iter.i, Popped) /\ ready' = ready
  <2>1. iter.i > 0 /\ Tail(blocks[iter.i]) # <<>>
    BY <1>2
  <2> QED  BY <2>1, <1>1, <1>2, NextInKey
<1>3. CASE /\ left = <<>> /\ iter.i + 1 \in ready /\ ready' = ready \ {iter.i + 1}
           /\ ReadBlock(iter.i + 1, Popped)
  BY <1>1, <1>3, NextOfKeys
<1>4. CASE /\ left = <<>> /\ iter.i + 1 > Len(nodes)
           /\ iter' = [i |-> iter.i + 1, state |-> "done"] /\ UNCHANGED <<ready, written>>
  BY <1>1, <1>4, NextEnds
<1> QED  BY <1>1, <1>2, <1>3, <1>4

(* The compactor is stopped. *)
LEMMA CacheInterruptedInv ==
  ASSUME CacheInv, CacheInterrupted
  PROVE  CacheInv'
<1> USE DEF CacheInv
<1>1. /\ UNCHANGED <<nodes, idx, enc, blocks, ready, nerrors>> /\ written' = <<>>
      /\ iter' = [iter EXCEPT !.state = "failed"]
  BY DEF CacheInterrupted
<1>2. iter \in [i : 0..(Len(nodes) + 1), state : {"reading", "done", "failed", "closed"}]
  BY DEF TypeOK
<1>3. /\ iter' \in [i : 0..(Len(nodes) + 1), state : {"reading", "done", "failed", "closed"}]
      /\ iter'.i = iter.i /\ iter'.state = "failed" /\ written' \in Seq(Block)
  BY <1>1, <1>2
<1>4. Goroutine' = Goroutine
  BY <1>1 DEF Goroutine
<1>5. TypeOK'
  BY <1>1, <1>3, <1>4 DEF TypeOK
<1>6. Untouched' /\ Passed' /\ SignalledWhole'
  BY <1>1, <1>3 DEF Untouched, Passed, SignalledWhole, Cuts, Count
<1>7. BeingEncoded'
  BY <1>1 DEF BeingEncoded, Cuts
<1>8. ReadSoFar' /\ FlushedWhole'
  BY <1>3 DEF ReadSoFar, FlushedWhole
<1> QED  BY <1>5, <1>6, <1>7, <1>8

(* The iterator is dropped. *)
LEMMA DropIteratorInv ==
  ASSUME CacheInv, DropIterator
  PROVE  CacheInv'
<1> USE DEF CacheInv
<1>1. /\ nodes' = <<>> /\ idx' = 0 /\ blocks' = <<>> /\ ready' = {} /\ written' = <<>>
      /\ enc' = [e \in Encoders |-> [pc |-> "done", cur |-> 0, rest |-> <<>>]]
      /\ iter' = [i |-> 0, state |-> "closed"] /\ nerrors' = nerrors
  BY DEF DropIterator
<1>2. nodes' \in Seq(Node) /\ Len(nodes') = 0 /\ DOMAIN nodes' = {} /\ written' \in Seq(Block)
  BY <1>1
<1>3. blocks' \in [DOMAIN nodes' -> Seq(Block)]
  <2>1. blocks' = [k \in {} |-> <<>>]
    BY <1>1
  <2> QED  BY <2>1, <1>2
<1>4. [pc |-> "done", cur |-> 0, rest |-> <<>>] \in Goroutine'
  BY <1>2 DEF Goroutine
<1>5. enc' \in [Encoders -> Goroutine'] /\ \A e \in Encoders : enc'[e].pc # "encode"
  <2>1. \A e \in Encoders : enc'[e] = [pc |-> "done", cur |-> 0, rest |-> <<>>]
    BY <1>1
  <2>2. enc' \in [Encoders -> Goroutine']
    BY <1>1, <1>4
  <2>3. ASSUME NEW e \in Encoders PROVE enc'[e].pc # "encode"
    <3>1. enc'[e] = [pc |-> "done", cur |-> 0, rest |-> <<>>]
      BY <2>1
    <3> QED  BY <3>1
  <2> QED  BY <2>2, <2>3
<1>6. nerrors' \in 0..MaxEncodeErrors
  BY <1>1 DEF TypeOK
<1>7. TypeOK'
  <2>1. /\ ready' \subseteq DOMAIN nodes' /\ idx' \in 0..Len(nodes')
        /\ iter' \in [i : 0..(Len(nodes') + 1), state : {"reading", "done", "failed", "closed"}]
    BY <1>1, <1>2
  <2> QED  BY <2>1, <1>2, <1>3, <1>5, <1>6 DEF TypeOK
<1>8. Untouched' /\ Passed' /\ SignalledWhole' /\ ReadSoFar' /\ FlushedWhole'
  BY <1>1, <1>2 DEF Untouched, Passed, SignalledWhole, ReadSoFar, FlushedWhole
<1>9. BeingEncoded'
  BY <1>5 DEF BeingEncoded
<1> QED  BY <1>7, <1>8, <1>9

(* No step breaks the invariant. *)
LEMMA StepInv ==
  ASSUME CacheInv, [CacheStep \/ DropIterator]_cacheVars
  PROVE  CacheInv'
<1>1. CASE CacheStep
  <2>1. ASSUME NEW e \in Encoders, TakeKey(e) PROVE CacheInv'
    BY <2>1, TakeKeyInv
  <2>2. ASSUME NEW e \in Encoders, EncodeBlock(e) PROVE CacheInv'
    BY <2>2, EncodeBlockInv
  <2>3. ASSUME NEW e \in Encoders, NotifyReady(e) PROVE CacheInv'
    BY <2>3, NotifyReadyInv
  <2> QED  BY <1>1, <2>1, <2>2, <2>3, CacheNextInv, CacheInterruptedInv DEF CacheStep
<1>2. CASE DropIterator
  BY <1>2, DropIteratorInv
<1>3. CASE UNCHANGED cacheVars
  BY <1>3 DEF cacheVars, CacheInv, TypeOK, Goroutine, Passed, Untouched, BeingEncoded,
              SignalledWhole, ReadSoFar, Standing, WrittenTo, Delivered, ReadOf, Cuts, Count,
              FlushedWhole
<1> QED  BY <1>1, <1>2, <1>3

-----------------------------------------------------------------------------
(* Nobody is forgotten *)

(* No step forgets a key. *)
LEMMA StepServed ==
  ASSUME CacheInv, NoKeyForgotten, [CacheStep \/ DropIterator]_cacheVars
  PROVE  NoKeyForgotten'
<1> DEFINE Served(k) ==
             \/ k \in ready
             \/ \E e \in Encoders : enc[e].pc = "encode" /\ enc[e].cur = k
             \/ k > idx /\ \A e \in Encoders : enc[e].pc # "done"
<1>0. TypeOK /\ enc \in [Encoders -> Goroutine] /\ Len(nodes) \in Nat /\ idx \in 0..Len(nodes)
  BY TypeFacts DEF CacheInv, TypeOK
<1>1. ASSUME NEW e \in Encoders, TakeKey(e) PROVE NoKeyForgotten'
  <2>0. /\ UNCHANGED <<nodes, ready, iter>> /\ enc[e].pc = "take"
        /\ \A f \in Encoders : f # e => enc'[f] = enc[f]
    BY <1>0, <1>1 DEF TakeKey
  <2> SUFFICES ASSUME iter.state = "reading", NEW k \in (iter.i + 1)..Len(nodes)
               PROVE  Served(k)'
    BY <2>0 DEF NoKeyForgotten
  <2>1. k \in ready \/ (\E f \in Encoders : enc[f].pc = "encode" /\ enc[f].cur = k)
        \/ (k > idx /\ \A f \in Encoders : enc[f].pc # "done")
    BY DEF NoKeyForgotten
  <2>2. CASE k \in ready
    BY <2>0, <2>2
  <2>3. CASE \E f \in Encoders : enc[f].pc = "encode" /\ enc[f].cur = k
    <3>1. PICK f \in Encoders : enc[f].pc = "encode" /\ enc[f].cur = k
      BY <2>3
    <3>2. f # e
      BY <2>0, <3>1
    <3> QED  BY <2>0, <3>1, <3>2
  <2>4. CASE k > idx /\ \A f \in Encoders : enc[f].pc # "done"
    <3>1. k \in Nat /\ idx \in Nat /\ ~(idx >= Len(nodes))
      BY <1>0, <2>4, TypeFacts
    <3>2. /\ enc' = [enc EXCEPT ![e] = [pc |-> "encode", cur |-> idx + 1, rest |-> nodes[idx + 1].values]]
          /\ idx' = idx + 1
      BY <1>1, <3>1 DEF TakeKey
    <3>3. enc'[e].pc = "encode" /\ enc'[e].cur = idx + 1
      BY <1>0, <3>2
    <3>4. CASE k = idx + 1
      BY <3>3, <3>4
    <3>5. CASE k # idx + 1
      <4>1. k > idx'
        BY <2>4, <3>1, <3>2, <3>5
      <4>2. \A f \in Encoders : enc'[f].pc # "done"
        BY <2>0, <2>4, <3>3
      <4> QED  BY <4>1, <4>2
    <3> QED  BY <3>4, <3>5
  <2> QED  BY <2>1, <2>2, <2>3, <2>4
<1>2. ASSUME NEW e \in Encoders, EncodeBlock(e) PROVE NoKeyForgotten'
  <2>1. UNCHANGED <<nodes, ready, iter, idx>> /\ \E s : enc' = [enc EXCEPT ![e].rest = s]
    BY <1>2 DEF EncodeBlock
  <2>2. PICK s : enc' = [enc EXCEPT ![e].rest = s]
    BY <2>1
  <2>3. \A f \in Encoders : enc'[f].pc = enc[f].pc /\ enc'[f].cur = enc[f].cur
    <3> SUFFICES ASSUME NEW f \in Encoders
                 PROVE  enc'[f].pc = enc[f].pc /\ enc'[f].cur = enc[f].cur
      OBVIOUS
    <3>1. CASE f # e
      BY <1>0, <2>2, <3>1
    <3>2. CASE f = e
      <4>1. enc'[e] = [enc[e] EXCEPT !.rest = s] /\ enc[e] \in Goroutine
        BY <1>0, <2>2
      <4> QED  BY <3>2, <4>1 DEF Goroutine
    <3> QED  BY <3>1, <3>2
  <2> QED  BY <2>1, <2>3 DEF NoKeyForgotten
<1>3. ASSUME NEW e \in Encoders, NotifyReady(e) PROVE NoKeyForgotten'
  <2>1. /\ UNCHANGED <<nodes, iter, idx>> /\ ready' = ready \cup {enc[e].cur}
        /\ enc' = [enc EXCEPT ![e].pc = "take"]
    BY <1>3 DEF NotifyReady
  <2>2. (\A f \in Encoders : f # e => enc'[f] = enc[f]) /\ enc'[e].pc = "take"
    <3>1. enc'[e] = [enc[e] EXCEPT !.pc = "take"] /\ enc[e] \in Goroutine
      BY <1>0, <2>1
    <3>2. enc'[e].pc = "take"
      BY <3>1 DEF Goroutine
    <3> QED  BY <1>0, <2>1, <3>2
  <2> SUFFICES ASSUME iter.state = "reading", NEW k \in (iter.i + 1)..Len(nodes)
               PROVE  Served(k)'
    BY <2>1 DEF NoKeyForgotten
  <2>3. k \in ready \/ (\E f \in Encoders : enc[f].pc = "encode" /\ enc[f].cur = k)
        \/ (k > idx /\ \A f \in Encoders : enc[f].pc # "done")
    BY DEF NoKeyForgotten
  <2>4. CASE k \in ready
    BY <2>1, <2>4
  <2>5. CASE \E f \in Encoders : enc[f].pc = "encode" /\ enc[f].cur = k
    BY <2>1, <2>2, <2>5
  <2>6. CASE k > idx /\ \A f \in Encoders : enc[f].pc # "done"
    BY <2>1, <2>2, <2>6
  <2> QED  BY <2>3, <2>4, <2>5, <2>6
<1>4. ASSUME CacheNext PROVE NoKeyForgotten'
  <2> SUFFICES ASSUME iter'.state = "reading", NEW k \in (iter'.i + 1)..Len(nodes')
               PROVE  Served(k)'
    BY DEF NoKeyForgotten
  <2>1. UNCHANGED <<nodes, idx, enc>> /\ iter.state = "reading"
    BY <1>4 DEF CacheNext
  <2>2. \/ iter'.i = iter.i /\ ready' = ready
        \/ iter'.i = iter.i + 1 /\ ready' = ready \ {iter.i + 1}
    <3>1. \/ ReadBlock(iter.i, Popped) /\ ready' = ready
          \/ ReadBlock(iter.i + 1, Popped) /\ ready' = ready \ {iter.i + 1}
          \/ iter' = [i |-> iter.i + 1, state |-> "done"]
      BY <1>4 DEF CacheNext, Popped
    <3>2. ASSUME NEW j, ReadBlock(j, Popped) PROVE iter'.i = j
      BY <3>2 DEF ReadBlock
    <3> QED  BY <3>1, <3>2
  <2>3. k \in (iter.i + 1)..Len(nodes) /\ (k \in ready => k \in ready')
    BY <1>0, <2>1, <2>2, TypeFacts
  <2> QED  BY <2>1, <2>3 DEF NoKeyForgotten
<1>5. ASSUME CacheInterrupted PROVE NoKeyForgotten'
  <2>1. iter' = [iter EXCEPT !.state = "failed"] /\ iter \in [i : 0..(Len(nodes) + 1), state : {"reading", "done", "failed", "closed"}]
    BY <1>0, <1>5 DEF CacheInterrupted, TypeOK
  <2>2. iter'.state = "failed"
    BY <2>1
  <2> QED  BY <2>2 DEF NoKeyForgotten
<1>6. ASSUME DropIterator PROVE NoKeyForgotten'
  <2>1. iter'.state = "closed"
    BY <1>6 DEF DropIterator
  <2> QED  BY <2>1 DEF NoKeyForgotten
<1>7. ASSUME UNCHANGED cacheVars PROVE NoKeyForgotten'
  BY <1>7 DEF NoKeyForgotten, cacheVars
<1> QED  BY <1>1, <1>2, <1>3, <1>4, <1>5, <1>6, <1>7 DEF CacheStep

-----------------------------------------------------------------------------
(* The theorems *)

(* The invariant holds of every iterator over the nodes of a memtable. *)
THEOREM CacheInvariant ==
  ASSUME NEW CONSTANT ns \in Seq(Node)
  PROVE  CacheSpec(ns) => [](CacheInv /\ NoKeyForgotten)
<1>1. CacheInit(ns) => CacheInv /\ NoKeyForgotten
  BY InitInv
<1>2. CacheInv /\ NoKeyForgotten /\ [CacheStep \/ DropIterator]_cacheVars
        => (CacheInv /\ NoKeyForgotten)'
  BY StepInv, StepServed
<1> QED  BY <1>1, <1>2, PTL DEF CacheSpec

(* A flush that ends without an error has read every key of the memtable in order, and of
   each key all its values in order and none twice, in blocks that are full but for the
   last (cacheKeyIterator.encode, Next, Read). *)
THEOREM FlushReadsAll ==
  ASSUME NEW CONSTANT ns \in Seq(Node)
  PROVE  CacheSpec(ns) => []FlushedWhole
<1>1. CacheInv => FlushedWhole
  BY DEF CacheInv
<1> QED  BY <1>1, CacheInvariant, PTL

(* A goroutine encodes only a key that it alone has taken and that the flush does not yet
   read: the blocks of a key have one writer at a time and no reader while they are
   written (cacheKeyIterator.encode, the counter idx and the channels ready). *)
THEOREM OneEncoderPerKey ==
  ASSUME NEW CONSTANT ns \in Seq(Node)
  PROVE  CacheSpec(ns) => []TypeOK
<1>1. CacheInv => TypeOK
  BY DEF CacheInv
<1> QED  BY <1>1, CacheInvariant, PTL

(* The flush never waits for a key that no goroutine encodes or will take. *)
THEOREM EveryKeyServed ==
  ASSUME NEW CONSTANT ns \in Seq(Node)
  PROVE  CacheSpec(ns) => []NoKeyForgotten
  BY CacheInvariant, PTL
=============================================================================
