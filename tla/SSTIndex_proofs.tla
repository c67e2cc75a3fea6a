--------------------------- MODULE SSTIndex_proofs ---------------------------
(***************************************************************************)
(* What indirectIndex.DeleteRange may drop from an index.                  *)
(***************************************************************************)
EXTENDS SSTIndex, Least

Int64 == MinInt64..MaxInt64

Span64 == [min : Int64, max : Int64]

\* In order of their start, then of their end.
Sorted(ts) ==
    \A i, j \in DOMAIN ts :
        i < j => \/ ts[i].min < ts[j].min
                 \/ ts[i].min = ts[j].min /\ ts[i].max <= ts[j].max

\* The tombstones an index keeps for a key.
TombstoneList(ts) == ts \in Seq(Span64) /\ Sorted(ts)

(* The numbers in a list of tombstones. *)
LEMMA ListFacts ==
  ASSUME NEW ts, TombstoneList(ts)
  PROVE  /\ Len(ts) \in Nat /\ DOMAIN ts = 1..Len(ts) /\ (ts # <<>> => Len(ts) >= 1)
         /\ \A j \in 1..Len(ts) : ts[j] \in Span64
  BY DEF TombstoneList

(* The numbers in a range. *)
LEMMA SpanFacts ==
  ASSUME NEW r \in Span64
  PROVE  /\ r.min \in Int /\ MinInt64 <= r.min /\ r.min <= MaxInt64
         /\ r.max \in Int /\ MinInt64 <= r.max /\ r.max <= MaxInt64
  BY TimeAssumption DEF Span64, Int64

(* The order of ranges. *)
Upto(x, r) == x.min < r.min \/ (x.min = r.min /\ x.max <= r.max)

(* It is an order, and total. *)
LEMMA UptoOrder ==
  ASSUME NEW x \in Span64, NEW y \in Span64, NEW z \in Span64
  PROVE  /\ Upto(x, y) /\ Upto(y, z) => Upto(x, z)
         /\ Upto(x, y) \/ Upto(y, x)
         /\ Upto(x, y) => x.min <= y.min
  BY SpanFacts DEF Upto

(* In a list in order there is one place for a new range. *)
LEMMA InsertPlace ==
  ASSUME NEW ts, TombstoneList(ts), NEW r \in Span64
  PROVE  \E i \in 1..(Len(ts) + 1) : \A j \in DOMAIN ts : Upto(ts[j], r) <=> j < i
<1> DEFINE S == {j \in 1..(Len(ts) + 1) : j = Len(ts) + 1 \/ ~Upto(ts[j], r)}
<1>0. Len(ts) \in Nat /\ DOMAIN ts = 1..Len(ts) /\ \A j \in 1..Len(ts) : ts[j] \in Span64
  BY ListFacts
<1>1. S \in SUBSET Nat /\ Len(ts) + 1 \in S
  BY <1>0
<1>2. PICK i \in S : \A j \in S : i <= j
  <2> HIDE DEF S
  <2> QED  BY <1>1, NatLeast
<1>3. i \in 1..(Len(ts) + 1) /\ (i = Len(ts) + 1 \/ ~Upto(ts[i], r))
  BY <1>2
<1>4. ASSUME NEW j \in 1..Len(ts) PROVE Upto(ts[j], r) <=> j < i
  <2>1. CASE j < i
    <3>1. j \notin S
      BY <1>0, <1>2, <1>3, <2>1
    <3> QED  BY <1>0, <2>1, <3>1
  <2>2. CASE j = i
    BY <1>0, <1>3, <2>2
  <2>3. CASE i < j
    <3>1. i \in 1..Len(ts) /\ ~Upto(ts[i], r)
      BY <1>0, <1>3, <2>3
    <3>2. Upto(ts[i], ts[j])
      BY <1>0, <2>3, <3>1 DEF TombstoneList, Sorted, Upto
    <3>3. ~Upto(ts[j], r)
      BY <1>0, <3>1, <3>2, UptoOrder
    <3> QED  BY <1>0, <1>3, <2>3, <3>3
  <2> QED  BY <1>0, <1>3, <2>1, <2>2, <2>3
<1> QED  BY <1>0, <1>3, <1>4

(* A tombstone put in its place leaves the list in order, and adds itself and no other. *)
LEMMA InsertSorted ==
  ASSUME NEW ts, TombstoneList(ts), NEW r \in Span64
  PROVE  /\ TombstoneList(InsertRange(ts, r)) /\ InsertRange(ts, r) # <<>>
         /\ \A j \in DOMAIN InsertRange(ts, r) :
               InsertRange(ts, r)[j] = r \/ \E i \in DOMAIN ts : InsertRange(ts, r)[j] = ts[i]
         /\ \E j \in DOMAIN InsertRange(ts, r) : InsertRange(ts, r)[j] = r
         /\ \A i \in DOMAIN ts : \E j \in DOMAIN InsertRange(ts, r) : InsertRange(ts, r)[j] = ts[i]
<1> DEFINE p == CHOOSE i \in 1..(Len(ts) + 1) : \A j \in DOMAIN ts : Upto(ts[j], r) <=> j < i
           new == InsertRange(ts, r)
<1>0. Len(ts) \in Nat /\ DOMAIN ts = 1..Len(ts) /\ \A j \in 1..Len(ts) : ts[j] \in Span64
  BY ListFacts
<1>1. p \in 1..(Len(ts) + 1) /\ \A j \in DOMAIN ts : Upto(ts[j], r) <=> j < p
  BY InsertPlace
<1>2. new = SubSeq(ts, 1, p - 1) \o <<r>> \o SubSeq(ts, p, Len(ts))
  BY DEF InsertRange, InsertAt, Upto
<1> HIDE DEF p, new
<1>3. /\ new \in Seq(Span64) /\ Len(new) = Len(ts) + 1 /\ DOMAIN new = 1..(Len(ts) + 1)
      /\ \A j \in 1..(Len(ts) + 1) :
            new[j] = IF j < p THEN ts[j] ELSE IF j = p THEN r ELSE ts[j - 1]
  <2> DEFINE head == SubSeq(ts, 1, p - 1)
             tail == SubSeq(ts, p, Len(ts))
  <2>1. ts \in Seq(Span64) /\ p \in 1..(Len(ts) + 1)
    BY <1>1 DEF TombstoneList
  <2>2. head \in Seq(Span64) /\ Len(head) = p - 1 /\ \A j \in 1..(p - 1) : head[j] = ts[j]
    BY <1>0, <2>1
  <2>3. /\ tail \in Seq(Span64) /\ Len(tail) = Len(ts) + 1 - p
        /\ \A j \in 1..(Len(ts) + 1 - p) : tail[j] = ts[p - 1 + j]
    BY <1>0, <2>1
  <2> HIDE DEF head, tail
  <2>4. new = head \o <<r>> \o tail
    BY <1>2 DEF head, tail
  <2>5. <<r>> \in Seq(Span64) /\ Len(<<r>>) = 1 /\ <<r>>[1] = r
    OBVIOUS
  <2>6. /\ head \o <<r>> \in Seq(Span64) /\ Len(head \o <<r>>) = p
        /\ \A j \in 1..p : (head \o <<r>>)[j] = IF j < p THEN ts[j] ELSE r
    BY <2>1, <2>2, <2>5
  <2>7. new \in Seq(Span64) /\ Len(new) = Len(ts) + 1
    <3> DEFINE first == head \o <<r>>
    <3>1. first \in Seq(Span64) /\ Len(first) = p /\ new = first \o tail
      BY <2>4, <2>6
    <3> HIDE DEF first
    <3>2. new \in Seq(Span64) /\ Len(new) = Len(first) + Len(tail)
      BY <2>3, <3>1
    <3> QED  BY <1>0, <2>1, <2>3, <3>1, <3>2
  <2>8. ASSUME NEW j \in 1..(Len(ts) + 1)
        PROVE  new[j] = IF j < p THEN ts[j] ELSE IF j = p THEN r ELSE ts[j - 1]
    <3>1. CASE j <= p
      BY <1>0, <2>1, <2>4, <2>6, <2>3, <3>1
    <3>2. CASE j > p
      <4>1. new[j] = tail[j - p] /\ j - p \in 1..(Len(ts) + 1 - p)
        BY <1>0, <2>1, <2>4, <2>6, <2>3, <3>2
      <4>2. tail[j - p] = ts[p - 1 + (j - p)] /\ p - 1 + (j - p) = j - 1
        BY <1>0, <2>1, <2>3, <4>1
      <4> QED  BY <1>0, <2>1, <3>2, <4>1, <4>2
    <3> QED  BY <1>0, <2>1, <3>1, <3>2
  <2> QED  BY <1>0, <2>7, <2>8
<1>4. ASSUME NEW i \in 1..(Len(ts) + 1), NEW j \in 1..(Len(ts) + 1), i < j
      PROVE  Upto(new[i], new[j])
  <2>1. p \in 1..(Len(ts) + 1)
    BY <1>1
  <2>2. \A a, b \in 1..Len(ts) : a < b => Upto(ts[a], ts[b])
    BY <1>0 DEF TombstoneList, Sorted, Upto
  <2>3. CASE j < p
    BY <1>0, <1>3, <1>4, <2>1, <2>2, <2>3
  <2>4. CASE j = p
    BY <1>0, <1>1, <1>3, <1>4, <2>1, <2>4
  <2>5. CASE i = p
    <3>1. j - 1 \in 1..Len(ts) /\ ~Upto(ts[j - 1], r)
      BY <1>0, <1>1, <1>4, <2>1, <2>5
    <3>2. new[i] = r /\ new[j] = ts[j - 1]
      BY <1>0, <1>3, <1>4, <2>1, <2>5
    <3> QED  BY <1>0, <3>1, <3>2, UptoOrder
  <2>6. CASE i < p /\ j > p
    <3>1. new[i] = ts[i] /\ new[j] = ts[j - 1] /\ i \in 1..Len(ts) /\ j - 1 \in 1..Len(ts)
      BY <1>0, <1>3, <1>4, <2>1, <2>6
    <3>2. Upto(ts[i], r) /\ ~Upto(ts[j - 1], r)
      BY <1>0, <1>1, <2>1, <2>6, <3>1
    <3> QED  BY <1>0, <3>1, <3>2, UptoOrder
  <2>7. CASE i > p
    BY <1>0, <1>3, <1>4, <2>1, <2>2, <2>7
  <2> QED  BY <1>0, <1>4, <2>1, <2>3, <2>4, <2>5, <2>6, <2>7
<1>5. Sorted(new)
  BY <1>3, <1>4 DEF Sorted, Upto
<1>6. ASSUME NEW j \in DOMAIN new PROVE new[j] = r \/ \E i \in DOMAIN ts : new[j] = ts[i]
  <2>1. j \in 1..(Len(ts) + 1) /\ p \in 1..(Len(ts) + 1)
    BY <1>1, <1>3
  <2>2. CASE j < p
    BY <1>0, <1>3, <2>1, <2>2
  <2>3. CASE j = p
    BY <1>0, <1>3, <2>1, <2>3
  <2>4. CASE j > p
    <3>1. j - 1 \in DOMAIN ts /\ new[j] = ts[j - 1]
      BY <1>0, <1>3, <2>1, <2>4
    <3> QED  BY <3>1
  <2> QED  BY <1>0, <2>1, <2>2, <2>3, <2>4
<1>7. new # <<>>
  BY <1>0, <1>3
<1>8. \E j \in DOMAIN new : new[j] = r
  BY <1>0, <1>1, <1>3
<1>9. ASSUME NEW i \in DOMAIN ts PROVE \E j \in DOMAIN new : new[j] = ts[i]
  <2>1. i \in 1..(Len(ts) + 1) /\ i + 1 \in 1..(Len(ts) + 1) /\ (i + 1) - 1 = i
    BY <1>0
  <2>2. CASE i < p
    BY <1>3, <2>1, <2>2
  <2>3. CASE p <= i
    <3>1. new[i + 1] = ts[i]
      BY <1>0, <1>1, <1>3, <2>1, <2>3
    <3> QED  BY <1>3, <2>1, <3>1
  <2> QED  BY <1>0, <1>1, <2>2, <2>3
<1>10. TombstoneList(new)
  BY <1>3, <1>5 DEF TombstoneList
<1> QED  BY <1>6, <1>7, <1>8, <1>9, <1>10 DEF new

(* The ends of a span are ends of its ranges. *)
LEMMA SpanEnds ==
  ASSUME NEW ts, TombstoneList(ts), ts # <<>>
  PROVE  /\ Span(ts).min = ts[1].min
         /\ \E j \in DOMAIN ts : Span(ts).max = ts[j].max
<1>0. /\ Len(ts) \in Nat /\ DOMAIN ts = 1..Len(ts) /\ 1 \in DOMAIN ts
      /\ \A j \in 1..Len(ts) : ts[j] \in Span64
  BY ListFacts
<1>1. /\ \A j \in DOMAIN ts : ts[j].min \in Int /\ ts[j].max \in Int
      /\ \A j \in DOMAIN ts : MinInt64 <= ts[j].max /\ ts[j].max <= MaxInt64
  BY <1>0, SpanFacts
<1>2. \A j \in DOMAIN ts : ts[1].min <= ts[j].min
  BY <1>0, <1>1 DEF TombstoneList, Sorted
<1>3. Min({ts[j].min : j \in DOMAIN ts}) = ts[1].min
  <2> DEFINE S == {ts[j].min : j \in DOMAIN ts}
  <2>1. ts[1].min \in S /\ S \subseteq Int /\ \A y \in S : ts[1].min <= y
    BY <1>0, <1>1, <1>2
  <2> HIDE DEF S
  <2>2. Min(S) \in S /\ \A y \in S : Min(S) <= y
    BY <2>1 DEF Min
  <2>3. Min(S) = ts[1].min
    <3> DEFINE a == ts[1].min
               b == Min(S)
    <3>1. a \in Int /\ b \in Int /\ a <= b /\ b <= a
      BY <2>1, <2>2
    <3> HIDE DEF a, b
    <3>2. a = b
      BY <3>1
    <3> QED  BY <3>2 DEF a, b
  <2> QED  BY <2>3 DEF S
<1>4. PICK g \in DOMAIN ts : \A i \in DOMAIN ts : ts[g].max >= ts[i].max
  <2> DEFINE S == {ts[j].max - MinInt64 : j \in DOMAIN ts}
  <2>1. MaxInt64 - MinInt64 \in Nat
    BY TimeAssumption
  <2>2. S \in SUBSET Nat /\ S # {} /\ \A x \in S : x <= MaxInt64 - MinInt64
    BY <1>0, <1>1, TimeAssumption
  <2>3. PICK x \in S : \A y \in S : y <= x
    <3> HIDE DEF S
    <3> QED  BY <2>1, <2>2, NatGreatest
  <2>4. PICK j \in DOMAIN ts : x = ts[j].max - MinInt64
    BY <2>3
  <2>5. \A i \in DOMAIN ts : ts[i].max - MinInt64 <= ts[j].max - MinInt64
    BY <2>3, <2>4
  <2>6. \A i \in DOMAIN ts : ts[j].max >= ts[i].max
    BY <1>1, <2>5, TimeAssumption
  <2> QED  BY <2>6
<1>5. \E j \in DOMAIN ts : Max({ts[i].max : i \in DOMAIN ts}) = ts[j].max
  <2> DEFINE S == {ts[i].max : i \in DOMAIN ts}
  <2>1. ts[g].max \in S /\ \A y \in S : ts[g].max >= y
    BY <1>4
  <2>2. Max(S) \in S
    <3> HIDE DEF S
    <3> QED  BY <2>1 DEF Max
  <2> QED  BY <2>2
<1> QED  BY <1>3, <1>5 DEF Span

(* The ends of a window are times. *)
LEMMA WindowNumbers ==
  ASSUME NEW ts, TombstoneList(ts), ts # <<>>
  PROVE  Window(ts).min \in Int /\ Window(ts).max \in Int
<1>1. Span(ts).min \in Int /\ Span(ts).max \in Int
  <2>1. \A j \in DOMAIN ts : ts[j].min \in Int /\ ts[j].max \in Int
    BY ListFacts, SpanFacts
  <2>2. 1 \in DOMAIN ts
    BY ListFacts
  <2> QED  BY <2>1, <2>2, SpanEnds
<1> QED  BY <1>1, TimeAssumption DEF Window

(* The window of a list, when there is no gap, has no time outside of all its ranges. *)
LEMMA WindowCovered ==
  ASSUME NEW ts, TombstoneList(ts), ts # <<>>, NEW t \in Int64,
         Window(ts).min <= t, t <= Window(ts).max
  PROVE  \E j \in DOMAIN ts : HasTime(ts[j], t)
<1>0. /\ Len(ts) \in Nat /\ DOMAIN ts = 1..Len(ts) /\ 1 \in DOMAIN ts
      /\ \A j \in 1..Len(ts) : ts[j] \in Span64
  BY ListFacts
<1>1. /\ \A j \in DOMAIN ts : ts[j].min \in Int /\ ts[j].max \in Int /\ MinInt64 <= ts[j].min
      /\ \A j \in DOMAIN ts : ts[j].max <= MaxInt64
      /\ t \in Int /\ t <= MaxInt64 /\ MinInt64 <= t
  BY <1>0, SpanFacts, TimeAssumption DEF Int64
<1> DEFINE Row == \A j \in 2..Len(ts) : \/ ts[j - 1].max = Pred(ts[j].min)
                                        \/ Overlaps(ts[j - 1], ts[j].min, ts[j].max)
<1>2. Window(ts) = IF Row THEN Span(ts) ELSE [min |-> MaxInt64, max |-> MinInt64]
  BY DEF Window
<1>3. Row
  <2> HIDE DEF Row
  <2> SUFFICES ASSUME ~Row PROVE FALSE
    OBVIOUS
  <2>1. MaxInt64 <= t /\ t <= MinInt64
    BY <1>2
  <2> QED  BY <1>1, <2>1, TimeAssumption
<1>4. Span(ts).min <= t /\ t <= Span(ts).max
  <2> HIDE DEF Row
  <2> QED  BY <1>2, <1>3
<1>5. ts[1].min <= t /\ \E j \in DOMAIN ts : t <= ts[j].max
  BY <1>4, SpanEnds
<1> DEFINE S == {j \in 1..Len(ts) : t <= ts[j].max}
<1>6. S \in SUBSET Nat /\ S # {}
  BY <1>0, <1>5
<1>7. PICK j \in S : \A i \in S : j <= i
  <2> HIDE DEF S
  <2> QED  BY <1>6, NatLeast
<1>8. ts[j].min <= t
  <2>1. CASE j = 1
    BY <1>5, <2>1
  <2>2. CASE j # 1
    <3>1. j \in 2..Len(ts) /\ j - 1 \in 1..Len(ts)
      BY <1>0, <1>7, <2>2
    <3>2. j - 1 \notin S
      BY <1>0, <1>7, <3>1
    <3>3. ~(t <= ts[j - 1].max)
      BY <3>1, <3>2
    <3> DEFINE a == ts[j - 1].max
               b == ts[j].min
    <3>4. a \in Int /\ b \in Int
      <4>1. j - 1 \in DOMAIN ts /\ j \in DOMAIN ts
        BY <1>0, <3>1
      <4> QED  BY <1>1, <4>1
    <3>5. a = Pred(b) \/ b <= a
      <4>1. a = Pred(b) \/ Overlaps(ts[j - 1], b, ts[j].max)
        BY <1>3, <3>1
      <4> QED  BY <3>4, <4>1 DEF Overlaps
    <3>6. ~(t <= a)
      BY <3>3
    <3> HIDE DEF a, b
    <3>7. b <= t
      BY <1>1, <3>4, <3>5, <3>6, TimeAssumption DEF Pred
    <3> QED  BY <3>7 DEF b
  <2> QED  BY <2>1, <2>2
<1>9. j \in DOMAIN ts /\ t <= ts[j].max
  BY <1>0, <1>7
<1> QED  BY <1>0, <1>1, <1>8, <1>9 DEF HasTime

(* The tombstones of every key are in order. *)
TombstonesSorted(d) == \A k \in DOMAIN d.tombs : TombstoneList(d.tombs[k])

(* So are those that TombstoneRange returns, none for a key without. *)
LEMMA RangeSorted ==
  ASSUME NEW d, TombstonesSorted(d), NEW k
  PROVE  TombstoneList(TombstoneRange(d, k))
<1>1. TombstoneList(<<>>)
  BY DEF TombstoneList, Sorted
<1> QED  BY <1>1 DEF TombstoneRange, TombstonesSorted

(* indirectIndex.DeleteRange drops a key only when every time its blocks may have is in
   the range or in a tombstone the key already had: the window over the tombstones, that
   detects keys deleted piece by piece, never spans a gap, whatever the ranges and
   wherever they end, the ends of int64 included. *)
THEOREM DroppedKeysAreDeleted ==
  ASSUME NEW d, TombstonesSorted(d), NEW keys, NEW min \in Int64, NEW max \in Int64,
         NEW k \in DeletePlan(d, keys, min, max).full,
         Entries(d, k)[1].min \in Int, Entries(d, k)[Len(Entries(d, k))].max \in Int,
         NEW t \in Int64, Entries(d, k)[1].min <= t, t <= Entries(d, k)[Len(Entries(d, k))].max
  PROVE  \/ HasTime([min |-> min, max |-> max], t)
         \/ \E i \in DOMAIN TombstoneRange(d, k) : HasTime(TombstoneRange(d, k)[i], t)
<1> DEFINE r == [min |-> min, max |-> max]
           lo == Entries(d, k)[1].min
           hi == Entries(d, k)[Len(Entries(d, k))].max
           ts == TombstoneRange(d, k)
           new == InsertRange(ts, r)
<1>0. r \in Span64 /\ t \in Int /\ min \in Int /\ max \in Int /\ MinInt64 <= t /\ t <= MaxInt64
  BY TimeAssumption DEF Span64, Int64
<1>1. \/ min = MinInt64 /\ max = MaxInt64
      \/ min <= lo /\ max >= hi
      \/ Window(new).min <= lo /\ Window(new).max >= hi
  BY DEF DeletePlan
<1>2. CASE min = MinInt64 /\ max = MaxInt64
  BY <1>0, <1>2 DEF HasTime
<1>3. CASE min <= lo /\ max >= hi
  <2>1. min <= t /\ max >= t
    <3> HIDE DEF lo, hi
    <3>1. lo \in Int /\ hi \in Int /\ lo <= t /\ t <= hi
      BY DEF lo, hi
    <3> QED  BY <1>0, <1>3, <3>1
  <2> QED  BY <2>1 DEF HasTime
<1>4. CASE Window(new).min <= lo /\ Window(new).max >= hi
  <2>1. TombstoneList(ts)
    BY RangeSorted
  <2>2. TombstoneList(new) /\ new # <<>>
        /\ \A j \in DOMAIN new : new[j] = r \/ \E i \in DOMAIN ts : new[j] = ts[i]
    BY <1>0, <2>1, InsertSorted
  <2>3. Window(new).min <= t /\ t <= Window(new).max
    <3> HIDE DEF lo, hi, new
    <3>1. lo \in Int /\ hi \in Int /\ lo <= t /\ t <= hi
      BY DEF lo, hi
    <3>2. Window(new).min \in Int /\ Window(new).max \in Int
      BY <2>2, WindowNumbers
    <3> DEFINE a == Window(new).min
               b == Window(new).max
    <3>3. a \in Int /\ b \in Int /\ a <= lo /\ b >= hi
      BY <1>4, <3>2
    <3> HIDE DEF a, b
    <3>4. a <= t /\ t <= b
      BY <1>0, <3>1, <3>3
    <3> QED  BY <3>4 DEF a, b
  <2>4. PICK j \in DOMAIN new : HasTime(new[j], t)
    <3> HIDE DEF new
    <3> QED  BY <2>2, <2>3, WindowCovered
  <2>5. CASE new[j] = r
    BY <2>4, <2>5
  <2>6. CASE \E i \in DOMAIN ts : new[j] = ts[i]
    BY <2>4, <2>6
  <2> HIDE DEF new
  <2> QED  BY <2>2, <2>5, <2>6
<1> QED  BY <1>1, <1>2, <1>3, <1>4

(* indirectIndex.DeleteRange leaves the tombstones of every key in order, which the
   comparison of each with the one before it relies on. *)
THEOREM TombstonesStaySorted ==
  ASSUME NEW D,
         NEW d \in [b : D, offsets : D, minKey : D, maxKey : D, minTime : D, maxTime : D,
                    tombs : D],
         TombstonesSorted(d), NEW keys, NEW min \in Int64, NEW max \in Int64
  PROVE  TombstonesSorted(DeleteRange(d, keys, min, max))
<1> DEFINE plan == DeletePlan(d, keys, min, max)
           new == plan.new
           r == [min |-> min, max |-> max]
           dropped == DeleteKeys(d, plan.full)
<1>1. r \in Span64
  BY DEF Span64
<1>2. \A k \in DOMAIN new : new[k] = InsertRange(TombstoneRange(d, k), r)
  BY DEF DeletePlan
<1> HIDE DEF new
<1>3. \A k \in DOMAIN new : TombstoneList(new[k])
  BY <1>1, <1>2, RangeSorted, InsertSorted
<1>4. dropped.tombs = d.tombs /\ "tombs" \in DOMAIN dropped
  <2> HIDE DEF plan
  <2> QED  BY DEF DeleteKeys
<1> DEFINE all == [k \in DOMAIN new \cup DOMAIN d.tombs |->
                      IF k \in DOMAIN new THEN new[k] ELSE d.tombs[k]]
<1>5. DeleteRange(d, keys, min, max) = [dropped EXCEPT !.tombs = all]
  <2>1. DeleteRange(d, keys, min, max) = StoreTombstones(dropped, new)
    BY DEF DeleteRange, new
  <2> HIDE DEF dropped
  <2> QED  BY <1>4, <2>1 DEF StoreTombstones
<1> HIDE DEF dropped
<1>6. DeleteRange(d, keys, min, max).tombs = all
  <2> HIDE DEF all
  <2> QED  BY <1>4, <1>5
<1>7. \A k \in DOMAIN all : TombstoneList(all[k])
  BY <1>3 DEF TombstonesSorted
<1> QED  BY <1>6, <1>7 DEF TombstonesSorted
(* Two sequences of the same length with the same elements. *)
LEMMA SeqEqual ==
  ASSUME NEW T, NEW s \in Seq(T), NEW u \in Seq(T), Len(s) = Len(u), \A i \in 1..Len(s) : s[i] = u[i]
  PROVE  s = u
  OBVIOUS

-----------------------------------------------------------------------------
(* Finding a key *)

(* Section i of the keys an index still lists, counted from 1. *)
Section(d, i) == SectionAt(d.b, d.offsets[i])

(* A section of the index: a key and its entries, the first with the least time and the
   last with the greatest, all within what the index says of itself. *)
SectionOK(d, s) ==
    /\ s.key \in Int /\ d.minKey <= s.key /\ s.key <= d.maxKey
    /\ Len(s.entries) \in Nat \ {0} /\ DOMAIN s.entries = 1..Len(s.entries)
    /\ \A i \in 1..Len(s.entries) :
          /\ s.entries[i].min \in Int64 /\ s.entries[i].max \in Int64
          /\ s.entries[1].min <= s.entries[i].min
          /\ s.entries[i].max <= s.entries[Len(s.entries)].max
    /\ d.minTime <= s.entries[1].min /\ s.entries[Len(s.entries)].max <= d.maxTime

(* An index as a writer leaves it, and as deletes keep it: its keys are in order. *)
IndexOK(d) ==
    /\ d = [b |-> d.b, offsets |-> d.offsets, minKey |-> d.minKey, maxKey |-> d.maxKey,
            minTime |-> d.minTime, maxTime |-> d.maxTime, tombs |-> d.tombs]
    /\ d.offsets \in Seq(Int)
    /\ d.minKey \in Int /\ d.maxKey \in Int /\ d.minTime \in Int /\ d.maxTime \in Int
    /\ \A i \in 1..Len(d.offsets) : SectionOK(d, Section(d, i))
    /\ \A i, j \in 1..Len(d.offsets) : i < j => Section(d, i).key < Section(d, j).key
    /\ TombstonesSorted(d)

(* The keys in their places. *)
LEMMA KeyFacts ==
  ASSUME NEW d, IndexOK(d)
  PROVE  /\ KeyCount(d) \in Nat /\ KeyCount(d) = Len(d.offsets)
         /\ \A i \in 0..KeyCount(d) - 1 : KeyAt(d, i) = Section(d, i + 1).key /\ KeyAt(d, i) \in Int
         /\ \A i, j \in 0..KeyCount(d) - 1 : i < j => KeyAt(d, i) < KeyAt(d, j)
<1> DEFINE n == Len(d.offsets)
<1>1. n \in Nat /\ KeyCount(d) = n
  BY DEF IndexOK, KeyCount
<1>2. \A i \in 1..n : Section(d, i).key \in Int
  BY DEF IndexOK, SectionOK
<1>3. \A i, j \in 1..n : i < j => Section(d, i).key < Section(d, j).key
  BY DEF IndexOK
<1> HIDE DEF n
<1>4. ASSUME NEW i \in 0..n - 1
      PROVE  i + 1 \in 1..n /\ KeyAt(d, i) = Section(d, i + 1).key
  <2>1. i + 1 \in 1..n /\ InRange(d, i)
    BY <1>1 DEF InRange
  <2> QED  BY <2>1 DEF KeyAt, Section
<1>5. \A i \in 0..n - 1 : KeyAt(d, i) = Section(d, i + 1).key /\ KeyAt(d, i) \in Int
  BY <1>2, <1>4
<1>6. ASSUME NEW i \in 0..n - 1, NEW j \in 0..n - 1, i < j PROVE KeyAt(d, i) < KeyAt(d, j)
  <2>1. i + 1 \in 1..n /\ j + 1 \in 1..n /\ i + 1 < j + 1
    BY <1>1, <1>6
  <2> QED  BY <1>3, <1>5, <2>1
<1> QED  BY <1>1, <1>5, <1>6 DEF n

(* Halving makes what is left smaller by one at least. *)
LEMMA Halves ==
  ASSUME NEW a \in Int, NEW b \in Int, NEW m \in Int, NEW n \in Int,
         0 <= a, a < b, b <= n - 1, b - a + m <= n - 1, NEW c, c = (a + b) \div 2
  PROVE  /\ c \in Int /\ a <= c /\ c < b /\ 0 <= c /\ c <= n - 1
         /\ c + 1 = b \/ b - (c + 1) + (m + 1) <= n - 1
         /\ a = c \/ c - a + (m + 1) <= n - 1
<1>1. c \in Int /\ a <= c /\ c < b
  OBVIOUS
<1>2. 0 <= c /\ c <= n - 1
  BY <1>1
<1>3. b - (c + 1) + (m + 1) <= n - 1 /\ c - a + (m + 1) <= n - 1
  BY <1>1
<1> QED  BY <1>1, <1>2, <1>3

(* What the loop of SearchBytesFixed has left to look at after each pass: it ends with one
   place, all keys before it are smaller, and the keys from it on are not, unless it is the
   last one, which was never compared. *)
LEMMA SearchBounds ==
  ASSUME NEW d, IndexOK(d), NEW key \in Int
  PROVE  LET r == SearchBytesFixed(d, key) IN
         /\ r \in Nat /\ (KeyCount(d) > 0 => r < KeyCount(d))
         /\ \A i \in 0..KeyCount(d) - 1 : i < r => KeyAt(d, i) < key
         /\ \A i \in 0..KeyCount(d) - 1 : r <= i /\ i < KeyCount(d) - 1 => key <= KeyAt(d, i)
<1> DEFINE n == KeyCount(d)
           K(i) == KeyAt(d, i)
           X == [i : Int, j : Int]
           base == [i |-> 0, j |-> n - 1]
           half(p) == (p.i + p.j) \div 2
           body(p) == IF p.i >= p.j THEN p
                      ELSE IF K(half(p)) < key THEN [i |-> half(p) + 1, j |-> p.j]
                      ELSE [i |-> p.i, j |-> half(p)]
           h == [m \in 1..n |-> [p \in X |-> body(p)]]
           Def(f) == f = [m \in 0..n |-> IF m = 0 THEN base ELSE body(f[m - 1])]
           f == CHOOSE x : Def(x)
<1>1. /\ n \in Nat
      /\ \A i \in 0..n - 1 : K(i) \in Int
      /\ \A i, j \in 0..n - 1 : i < j => K(i) < K(j)
  BY KeyFacts
<1>2. SearchBytesFixed(d, key) = f[n].i
  BY DEF SearchBytesFixed
<1> HIDE DEF n, K
<1>3. base \in X /\ \A p \in X : body(p) \in X
  <2>1. \A p \in X : p.i \in Int /\ p.j \in Int /\ half(p) \in Int
    OBVIOUS
  <2> HIDE DEF half
  <2> QED  BY <1>1, <2>1
<1> HIDE DEF body, base
<1>4. h \in [1..n -> [X -> X]] /\ \A m \in 1..n, p \in X : h[m][p] = body(p)
  <2> HIDE DEF X
  <2> QED  BY <1>3
<1> HIDE DEF h, X
<1>5. PICK g \in [0..n -> X] : g[0] = base /\ \A m \in 1..n : g[m] = h[m][g[m - 1]]
  <2>1. \E g \in [0..n -> X] : Stepwise(g, n, base, h)
    BY <1>1, <1>3, <1>4, StepwiseFunction
  <2> QED  BY <2>1 DEF Stepwise
<1>6. \A m \in 1..n : m - 1 \in 0..n /\ g[m - 1] \in X /\ g[m] = body(g[m - 1])
  BY <1>1, <1>4, <1>5
<1>7. Def(g)
  BY <1>1, <1>5, <1>6
<1>8. Def(f)
  <2> HIDE DEF Def
  <2> QED  BY <1>7
<1> HIDE DEF f
<1>9. f[0] = base /\ \A m \in 1..n : f[m] = body(f[m - 1])
  <2>1. \A m \in 0..n : f[m] = (IF m = 0 THEN base ELSE body(f[m - 1]))
    BY <1>8
  <2> QED  BY <1>1, <2>1
<1> DEFINE Good(p, m) ==
             /\ p \in X /\ 0 <= p.i /\ p.i <= p.j /\ p.j <= n - 1
             /\ p.i = p.j \/ p.j - p.i + m <= n - 1
             /\ \A i \in 0..n - 1 : i < p.i => K(i) < key
             /\ p.j < n - 1 => key <= K(p.j)
           S == {m \in 0..n : Good(f[m], m)}
<1>10. CASE n > 0
  <2>1. 0 \in S
    <3>1. base \in X /\ base.i = 0 /\ base.j = n - 1
      BY <1>3 DEF base
    <3>2. Good(base, 0)
      BY <1>1, <1>10, <3>1
    <3> HIDE DEF Good
    <3> QED  BY <1>1, <1>9, <3>2
  <2>2. ASSUME NEW m \in 0..n, m \in S, m < n PROVE m + 1 \in S
    <3> PICK p : p = f[m]
      OBVIOUS
    <3>1. Good(p, m) /\ p \in X /\ p.i \in Int /\ p.j \in Int
      BY <2>2 DEF X
    <3>2. m + 1 \in 1..n /\ m + 1 \in 0..n /\ f[m + 1] = body(p)
      BY <1>1, <1>9, <2>2
    <3>3. Good(body(p), m + 1)
      <4>1. CASE p.i >= p.j
        <5>1. body(p) = p
          BY <4>1 DEF body
        <5> QED  BY <3>1, <4>1, <5>1, <1>1
      <4>2. CASE p.i < p.j
        <5>0. PICK a, b, c : a = p.i /\ b = p.j /\ c = half(p)
          OBVIOUS
        <5>1. /\ a \in Int /\ b \in Int /\ c \in Int /\ 0 <= a /\ a < b /\ b <= n - 1
              /\ c = (a + b) \div 2 /\ b - a + m <= n - 1 /\ (b < n - 1 => key <= K(b))
          BY <3>1, <4>2, <5>0
        <5>2. /\ a <= c /\ c < b /\ 0 <= c /\ c <= n - 1
              /\ c + 1 = b \/ b - (c + 1) + (m + 1) <= n - 1
              /\ a = c \/ c - a + (m + 1) <= n - 1
          BY <1>1, <2>2, <5>1, Halves
        <5>3. \A i \in 0..n - 1 : i < a => K(i) < key
          BY <3>1, <5>0
        <5>4. c \in 0..n - 1 /\ K(c) \in Int
          <6>1. c \in 0..n - 1
            BY <1>1, <5>1, <5>2
          <6> QED  BY <1>1, <6>1
        <5> PICK q : q = body(p)
          OBVIOUS
        <5>5. CASE K(c) < key
          <6>1. body(p) = [i |-> c + 1, j |-> b]
            BY <3>1, <4>2, <5>0, <5>5 DEF body
          <6>2. q \in X /\ q.i = c + 1 /\ q.j = b
            BY <5>1, <6>1 DEF X
          <6>3. \A i \in 0..n - 1 : i < q.i => K(i) < key
            <7> SUFFICES ASSUME NEW i \in 0..n - 1, i < q.i PROVE K(i) < key
              OBVIOUS
            <7>1. i = c \/ i < c
              BY <5>1, <6>2
            <7>2. K(i) \in Int /\ (i < c => K(i) < K(c))
              BY <1>1, <5>4
            <7> QED  BY <5>4, <5>5, <7>1, <7>2
          <6>4. 0 <= q.i /\ q.i <= q.j /\ q.j <= n - 1 /\ (q.i = q.j \/ q.j - q.i + (m + 1) <= n - 1)
            <7>1. 0 <= c + 1 /\ c + 1 <= b
              BY <5>1, <5>2
            <7> QED  BY <5>1, <5>2, <6>2, <7>1
          <6>5. Good(q, m + 1)
            BY <5>1, <6>2, <6>3, <6>4
          <6> HIDE DEF Good
          <6> QED  BY <6>5
        <5>6. CASE ~(K(c) < key)
          <6>1. body(p) = [i |-> a, j |-> c]
            BY <3>1, <4>2, <5>0, <5>6 DEF body
          <6>2. q \in X /\ q.i = a /\ q.j = c /\ key <= K(c)
            BY <5>1, <5>4, <5>6, <6>1 DEF X
          <6>3. 0 <= q.i /\ q.i <= q.j /\ q.j <= n - 1 /\ (q.i = q.j \/ q.j - q.i + (m + 1) <= n - 1)
            BY <1>1, <5>1, <5>2, <6>2
          <6>4. Good(q, m + 1)
            BY <5>3, <6>2, <6>3
          <6> HIDE DEF Good
          <6> QED  BY <6>4
        <5> QED  BY <5>5, <5>6
      <4> QED  BY <3>1, <4>1, <4>2
    <3> HIDE DEF Good
    <3> QED  BY <3>2, <3>3
  <2>3. n \in S
    <3> HIDE DEF S
    <3>1. \A m \in 0..n : m \in S
      BY <1>1, <2>1, <2>2, SetInduction
    <3> QED  BY <1>1, <3>1
  <2> PICK p : p = f[n]
    OBVIOUS
  <2>4. Good(p, n) /\ p.i \in Int /\ p.j \in Int
    BY <2>3 DEF X
  <2>5. p.i = p.j /\ p.i \in 0..n - 1
    BY <1>1, <1>10, <2>4
  <2>6. \A i \in 0..n - 1 : p.i <= i /\ i < n - 1 => key <= K(i)
    <3> SUFFICES ASSUME NEW i \in 0..n - 1, p.i <= i, i < n - 1 PROVE key <= K(i)
      OBVIOUS
    <3>1. key <= K(p.i) /\ K(p.i) \in Int /\ K(i) \in Int
      BY <1>1, <2>4, <2>5
    <3>2. i = p.i \/ K(p.i) < K(i)
      BY <1>1, <2>5
    <3> QED  BY <3>1, <3>2
  <2> QED  BY <1>1, <1>2, <1>10, <2>4, <2>5, <2>6 DEF n, K
<1>11. CASE n = 0
  <2>1. f[n].i = 0
    BY <1>9, <1>11 DEF base
  <2> QED  BY <1>2, <1>11, <2>1 DEF n
<1> QED  BY <1>1, <1>10, <1>11

(* A key that is listed is found in its place. *)
LEMMA SearchFinds ==
  ASSUME NEW d, IndexOK(d), NEW i \in 0..KeyCount(d) - 1
  PROVE  SearchBytesFixed(d, KeyAt(d, i)) = i
<1> DEFINE n == KeyCount(d)
           K(x) == KeyAt(d, x)
<1>1. n \in Nat /\ \A x \in 0..n - 1 : K(x) \in Int
  BY KeyFacts
<1>2. \A x, y \in 0..n - 1 : x < y => K(x) < K(y)
  BY KeyFacts
<1> PICK r : r = SearchBytesFixed(d, K(i))
  OBVIOUS
<1>3. /\ r \in Nat /\ (n > 0 => r < n)
      /\ \A x \in 0..n - 1 : x < r => K(x) < K(i)
      /\ \A x \in 0..n - 1 : r <= x /\ x < n - 1 => K(i) <= K(x)
  <2>1. K(i) \in Int
    BY <1>1
  <2> QED  BY <2>1, SearchBounds
<1> HIDE DEF n, K
<1>4. i \in 0..n - 1
  BY DEF n
<1>5. r \in 0..n - 1 /\ K(r) \in Int /\ K(i) \in Int
  BY <1>1, <1>3, <1>4
<1>6. ~(i < r)
  BY <1>3, <1>4, <1>5
<1>7. ~(r < i)
  <2> SUFFICES ASSUME r < i PROVE FALSE
    OBVIOUS
  <2>1. r < n - 1
    BY <1>1, <1>4, <1>5
  <2>2. K(i) <= K(r) /\ K(r) < K(i)
    BY <1>2, <1>3, <1>4, <1>5, <2>1
  <2> QED  BY <1>5, <2>2
<1>8. r = i
  BY <1>4, <1>5, <1>6, <1>7
<1> QED  BY <1>8 DEF K

(* The entries of a listed key, by the search of indirectIndex.search. *)
LEMMA EntriesListed ==
  ASSUME NEW d, IndexOK(d), NEW i \in 1..Len(d.offsets)
  PROVE  Entries(d, Section(d, i).key) = Section(d, i).entries
<1> DEFINE k == Section(d, i).key
<1>1. i - 1 \in 0..KeyCount(d) - 1 /\ (i - 1) + 1 = i
  BY KeyFacts
<1>2. KeyAt(d, i - 1) = k
  BY <1>1, KeyFacts
<1>3. SearchBytesFixed(d, k) = i - 1
  BY <1>1, <1>2, SearchFinds
<1>4. ContainsKey(d, k)
  BY DEF IndexOK, SectionOK, ContainsKey
<1>5. EntriesAt(d, i - 1) = Section(d, i).entries
  <2>1. InRange(d, i - 1)
    BY <1>1, KeyFacts DEF InRange
  <2> QED  BY <1>1, <2>1 DEF EntriesAt, Section
<1> HIDE DEF k
<1>6. Entries(d, k) = EntriesAt(d, i - 1)
  BY <1>2, <1>3, <1>4 DEF Entries
<1> QED  BY <1>5, <1>6 DEF k

(* A key that is not listed has none. *)
LEMMA EntriesUnlisted ==
  ASSUME NEW d, IndexOK(d), NEW k \in Int, \A i \in 1..Len(d.offsets) : Section(d, i).key # k
  PROVE  Entries(d, k) = <<>>
<1> PICK r : r = SearchBytesFixed(d, k)
  OBVIOUS
<1>1. r \in Nat /\ (KeyCount(d) > 0 => r < KeyCount(d)) /\ KeyCount(d) \in Nat
      /\ KeyCount(d) = Len(d.offsets)
  BY SearchBounds, KeyFacts
<1>2. CASE InRange(d, r)
  <2>1. r \in 0..KeyCount(d) - 1 /\ r + 1 \in 1..Len(d.offsets)
    BY <1>1, <1>2 DEF InRange
  <2>2. KeyAt(d, r) # k
    BY <2>1, KeyFacts
  <2> QED  BY <2>2 DEF Entries
<1>3. CASE ~InRange(d, r)
  <2>1. EntriesAt(d, r) = <<>>
    BY <1>3 DEF EntriesAt
  <2> QED  BY <2>1 DEF Entries
<1> QED  BY <1>2, <1>3

(* indirectIndex.Seek returns the place of every key that the index lists, and a search for
   its entries finds them, though the binary search over the offsets never compares the
   last one: for an index of any size, however many keys deletes have removed. *)
THEOREM SeekFindsEveryKey ==
  ASSUME NEW d, IndexOK(d), NEW i \in 0..KeyCount(d) - 1
  PROVE  Seek(d, KeyAt(d, i)) = i /\ Entries(d, KeyAt(d, i)) = EntriesAt(d, i)
<1>1. KeyCount(d) \in Nat /\ KeyCount(d) = Len(d.offsets) /\ i + 1 \in 1..Len(d.offsets)
      /\ KeyAt(d, i) = Section(d, i + 1).key /\ i < KeyCount(d)
  BY KeyFacts
<1>2. Seek(d, KeyAt(d, i)) = i
  BY <1>1, SearchFinds DEF Seek
<1>3. EntriesAt(d, i) = Section(d, i + 1).entries
  <2>1. InRange(d, i)
    BY <1>1 DEF InRange
  <2> QED  BY <2>1 DEF EntriesAt, Section
<1> QED  BY <1>1, <1>2, <1>3, EntriesListed

(* One of the key's entries has the time. *)
Indexed(d, k, t) ==
    \E i \in 1..Len(d.offsets) :
        /\ Section(d, i).key = k
        /\ \E e \in DOMAIN Section(d, i).entries : HasTime(Section(d, i).entries[e], t)

(* A range has it. *)
Deleted(ts, t) == \E i \in DOMAIN ts : HasTime(ts[i], t)

(* A point may be in the file: one of the key's entries has its time, no tombstone does. *)
MayHold(d, k, t) == Indexed(d, k, t) /\ ~Deleted(TombstoneRange(d, k), t)

(* That is what ContainsValue answers. *)
LEMMA ContainsMeaning ==
  ASSUME NEW d, IndexOK(d), NEW k \in Int, NEW t
  PROVE  ContainsValue(d, k, t) <=> MayHold(d, k, t)
<1>2. Entry(d, k, t) # {} <=> \E e \in DOMAIN Entries(d, k) : HasTime(Entries(d, k)[e], t)
  <2> PICK es : es = Entries(d, k)
    OBVIOUS
  <2> DEFINE at == {e \in DOMAIN es : HasTime(es[e], t)}
  <2>1. Entry(d, k, t) = IF at = {} THEN {} ELSE {es[Min(at)]}
    BY DEF Entry
  <2>2. (\E e \in DOMAIN es : HasTime(es[e], t)) <=> at # {}
    OBVIOUS
  <2> HIDE DEF at
  <2> QED  BY <2>1, <2>2
<1>3. CASE \E i \in 1..Len(d.offsets) : Section(d, i).key = k
  <2>1. PICK i \in 1..Len(d.offsets) : Section(d, i).key = k
    BY <1>3
  <2>2. Entries(d, k) = Section(d, i).entries
    BY <2>1, EntriesListed
  <2>3. \A j \in 1..Len(d.offsets) : Section(d, j).key = k => Section(d, j).entries = Entries(d, k)
    BY EntriesListed
  <2> QED  BY <1>2, <2>1, <2>2, <2>3 DEF ContainsValue, MayHold, Indexed, Deleted
<1>4. CASE \A i \in 1..Len(d.offsets) : Section(d, i).key # k
  <2>1. Entries(d, k) = <<>>
    BY <1>4, EntriesUnlisted
  <2>2. Entry(d, k, t) = {}
    BY <1>2, <2>1
  <2> QED  BY <1>4, <2>2 DEF ContainsValue, MayHold, Indexed, Deleted
<1> QED  BY <1>3, <1>4
-----------------------------------------------------------------------------
(* Deleting *)

(* The offsets pk, got from those of d without the keys: in the same order, none twice. *)
Packed(d, keys, pk, m) ==
    /\ pk \in Seq(Int) /\ Len(pk) <= m
    /\ \A j \in 1..Len(pk) : \E i \in 1..m : pk[j] = d.offsets[i] /\ Section(d, i).key \notin keys
    /\ \A i \in 1..m : Section(d, i).key \notin keys => \E j \in 1..Len(pk) : pk[j] = d.offsets[i]
    /\ \A j, x \in 1..Len(pk) : j < x => SectionAt(d.b, pk[j]).key < SectionAt(d.b, pk[x]).key
    /\ Len(pk) = m => \A i \in 1..m : pk[i] = d.offsets[i]

(* One more offset keeps them packed. *)
LEMMA PackOne ==
  ASSUME NEW d, IndexOK(d), NEW keys, NEW m \in Nat, m < Len(d.offsets), NEW pk,
         Packed(d, keys, pk, m)
  PROVE  /\ Section(d, m + 1).key \in keys => Packed(d, keys, pk, m + 1)
         /\ Section(d, m + 1).key \notin keys => Packed(d, keys, Append(pk, d.offsets[m + 1]), m + 1)
<1> DEFINE n == Len(d.offsets)
           K(o) == SectionAt(d.b, o).key
<1>0. n \in Nat /\ m + 1 \in 1..n /\ \A i \in 1..m : i \in 1..n /\ i < m + 1 /\ i \in 1..(m + 1)
  <2>1. d.offsets \in Seq(Int)
    BY DEF IndexOK
  <2>2. n \in Nat /\ m < n
    BY <2>1
  <2> HIDE DEF n
  <2> QED  BY <2>2
<1>1. \A i \in 1..n : d.offsets[i] \in Int /\ Section(d, i).key = K(d.offsets[i])
  BY DEF IndexOK, Section
<1>2. \A i \in 1..m : K(d.offsets[i]) < K(d.offsets[m + 1])
  BY <1>0, <1>1 DEF IndexOK
<1>3. /\ pk \in Seq(Int) /\ Len(pk) \in Nat /\ Len(pk) <= m
      /\ \A j \in 1..Len(pk) : \E i \in 1..m : pk[j] = d.offsets[i] /\ K(d.offsets[i]) \notin keys
      /\ \A i \in 1..m : K(d.offsets[i]) \notin keys => \E j \in 1..Len(pk) : pk[j] = d.offsets[i]
      /\ \A j, x \in 1..Len(pk) : j < x => K(pk[j]) < K(pk[x])
      /\ Len(pk) = m => \A i \in 1..m : pk[i] = d.offsets[i]
  <2>1. pk \in Seq(Int) /\ Len(pk) <= m
    BY DEF Packed
  <2>2. Len(pk) \in Nat
    BY <2>1
  <2>3. /\ \A j \in 1..Len(pk) : \E i \in 1..m : pk[j] = d.offsets[i] /\ K(d.offsets[i]) \notin keys
        /\ \A i \in 1..m : K(d.offsets[i]) \notin keys => \E j \in 1..Len(pk) : pk[j] = d.offsets[i]
    BY Zenon DEF Packed, Section
  <2>4. /\ \A j, x \in 1..Len(pk) : j < x => K(pk[j]) < K(pk[x])
        /\ Len(pk) = m => \A i \in 1..m : pk[i] = d.offsets[i]
    BY Zenon DEF Packed
  <2> QED  BY <2>1, <2>2, <2>3, <2>4, Zenon
<1> PICK o : o = d.offsets[m + 1]
  OBVIOUS
<1> HIDE DEF n, K
<1>4. \A i \in 1..(m + 1) : i \in 1..m \/ i = m + 1
  OBVIOUS
<1>5. CASE K(o) \in keys
  <2>1. Len(pk) <= m + 1 /\ Len(pk) # m + 1
    BY <1>3
  <2>2. \A j \in 1..Len(pk) : \E i \in 1..(m + 1) : pk[j] = d.offsets[i] /\ K(d.offsets[i]) \notin keys
    BY <1>0, <1>3
  <2>3. \A i \in 1..(m + 1) : K(d.offsets[i]) \notin keys => \E j \in 1..Len(pk) : pk[j] = d.offsets[i]
    BY <1>3, <1>4, <1>5
  <2>4. Packed(d, keys, pk, m + 1)
    BY <1>0, <1>1, <1>3, <1>4, <2>1, <2>2, <2>3 DEF Packed, K
  <2> QED  BY <1>0, <1>1, <1>5, <2>4
<1>6. CASE K(o) \notin keys
  <2> DEFINE q == Append(pk, o)
             l == Len(pk)
  <2>1. /\ q \in Seq(Int) /\ Len(q) = l + 1 /\ q[l + 1] = o /\ \A j \in 1..l : q[j] = pk[j]
        /\ l \in Nat /\ \A j \in 1..(l + 1) : j \in 1..l \/ j = l + 1
    BY <1>0, <1>1, <1>3
  <2> HIDE DEF q, l
  <2>2. \A j \in 1..(l + 1) : \E i \in 1..(m + 1) : q[j] = d.offsets[i] /\ K(d.offsets[i]) \notin keys
    <3>1. \A j \in 1..l : \E i \in 1..(m + 1) : q[j] = d.offsets[i] /\ K(d.offsets[i]) \notin keys
      BY <1>0, <1>3, <2>1 DEF l
    <3>2. m + 1 \in 1..(m + 1)
      OBVIOUS
    <3> QED  BY <1>6, <2>1, <3>1, <3>2
  <2>3. \A i \in 1..(m + 1) : K(d.offsets[i]) \notin keys => \E j \in 1..(l + 1) : q[j] = d.offsets[i]
    <3>1. \A j \in 1..l : j \in 1..(l + 1)
      BY <2>1
    <3>2. l + 1 \in 1..(l + 1)
      BY <2>1
    <3>3. \A i \in 1..m : K(d.offsets[i]) \notin keys => \E j \in 1..l : q[j] = d.offsets[i]
      BY <1>3, <2>1 DEF l
    <3> QED  BY <1>4, <2>1, <3>1, <3>2, <3>3
  <2>4. ASSUME NEW j \in 1..(l + 1), NEW x \in 1..(l + 1), j < x PROVE K(q[j]) < K(q[x])
    <3>1. j \in 1..l /\ q[j] = pk[j]
      BY <2>1, <2>4
    <3>2. CASE x \in 1..l
      BY <1>3, <2>1, <2>4, <3>1, <3>2 DEF l
    <3>3. CASE x = l + 1
      <4>1. PICK i \in 1..m : pk[j] = d.offsets[i]
        BY <1>3, <3>1 DEF l
      <4> QED  BY <1>2, <2>1, <3>1, <3>3, <4>1
    <3> QED  BY <2>1, <3>2, <3>3
  <2>5. l + 1 = m + 1 => \A i \in 1..(m + 1) : q[i] = d.offsets[i]
    <3>1. l + 1 = m + 1 => l = m
      BY <2>1
    <3> QED  BY <1>3, <1>4, <2>1, <3>1 DEF l
  <2>6. l + 1 <= m + 1
    BY <1>3, <2>1 DEF l
  <2>7. \A j, x \in 1..(l + 1) : j < x => K(q[j]) < K(q[x])
    BY <2>4
  <2>8. Packed(d, keys, q, m + 1)
    BY <2>1, <2>2, <2>3, <2>5, <2>6, <2>7 DEF Packed, K, Section
  <2>9. Section(d, m + 1).key = K(o)
    BY <1>0, <1>1
  <2> QED  BY <1>6, <2>8, <2>9 DEF q
<1> QED  BY <1>5, <1>6

(* The keys before the place where indirectIndex.Delete begins are not among those to
   delete. *)
LEMMA BeforeStart ==
  ASSUME NEW d, IndexOK(d), NEW first \in Int, NEW i \in 1..Len(d.offsets), i <= Seek(d, first)
  PROVE  Section(d, i).key < first
<1> PICK r : r = SearchBytesFixed(d, first)
  OBVIOUS
<1>1. /\ KeyCount(d) \in Nat /\ KeyCount(d) = Len(d.offsets) /\ r \in Nat
      /\ KeyCount(d) > 0 => r < KeyCount(d)
      /\ \A x \in 0..KeyCount(d) - 1 : x < r => KeyAt(d, x) < first
  BY SearchBounds, KeyFacts
<1>2. Seek(d, first) = r
  BY <1>1 DEF Seek
<1>3. i - 1 \in 0..KeyCount(d) - 1 /\ i - 1 < r /\ (i - 1) + 1 = i
  BY <1>1, <1>2
<1>4. KeyAt(d, i - 1) = Section(d, i).key
  BY <1>3, KeyFacts
<1> QED  BY <1>1, <1>3, <1>4

(* indirectIndex.Delete takes out the offsets of the keys, and those alone. *)
LEMMA DeletePacks ==
  ASSUME NEW d, IndexOK(d), NEW keys \in SUBSET Nat
  PROVE  \E pk : /\ DeleteKeys(d, keys) = [d EXCEPT !.offsets = pk]
                 /\ Packed(d, keys, pk, Len(d.offsets))
<1> DEFINE n == Len(d.offsets)
<1>0. n \in Nat /\ KeyCount(d) = n /\ \A i \in 1..n : d.offsets[i] \in Int
  BY KeyFacts DEF IndexOK
<1>1. CASE keys = {}
  <2>1. DeleteKeys(d, keys) = d
    BY <1>1 DEF DeleteKeys
  <2>2. d = [d EXCEPT !.offsets = d.offsets]
    BY DEF IndexOK
  <2>3. Packed(d, keys, d.offsets, Len(d.offsets))
    <3> PICK os : os = d.offsets
      OBVIOUS
    <3>1. os \in Seq(Int) /\ \A i \in 1..Len(os) : Section(d, i).key = SectionAt(d.b, os[i]).key
      BY DEF IndexOK, Section
    <3>2. \A i, j \in 1..Len(os) : i < j => SectionAt(d.b, os[i]).key < SectionAt(d.b, os[j]).key
      BY <3>1 DEF IndexOK
    <3>3. Len(os) <= Len(os)
      BY <3>1
    <3> QED  BY <1>1, <3>1, <3>2, <3>3 DEF Packed
  <2> QED  BY <2>1, <2>2, <2>3
<1>2. CASE keys # {}
  <2> DEFINE first == CHOOSE k \in keys : \A m \in keys : k <= m
             start == Seek(d, first)
             kept(i) == i <= start \/ SectionAt(d.b, d.offsets[i]).key \notin keys
             body(i, p) == IF kept(i) THEN Append(p, d.offsets[i]) ELSE p
             h == [i \in 1..n |-> [p \in Seq(Int) |-> body(i, p)]]
             Def(f) == f = [i \in 0..n |-> IF i = 0 THEN <<>> ELSE body(i, f[i - 1])]
             f == CHOOSE x : Def(x)
  <2>1. first \in keys /\ \A m \in keys : first <= m
    BY <1>2, NatLeast
  <2>2. DeleteKeys(d, keys) = [d EXCEPT !.offsets = f[n]]
    BY <1>0, <1>2 DEF DeleteKeys
  <2>3. \A i \in 1..n : kept(i) <=> Section(d, i).key \notin keys
    <3> SUFFICES ASSUME NEW i \in 1..n, i <= start PROVE Section(d, i).key \notin keys
      BY DEF Section
    <3>1. Section(d, i).key < first
      <4> HIDE DEF first
      <4> QED  BY <2>1, BeforeStart
    <3>2. Section(d, i).key \in Int
      BY DEF IndexOK, SectionOK
    <3> HIDE DEF first
    <3> QED  BY <2>1, <3>1, <3>2
  <2> HIDE DEF n, kept, first, start
  <2>4. \A i \in 1..n, p \in Seq(Int) : body(i, p) \in Seq(Int)
    BY <1>0 DEF n
  <2> HIDE DEF body
  <2>5. h \in [1..n -> [Seq(Int) -> Seq(Int)]] /\ \A i \in 1..n, p \in Seq(Int) : h[i][p] = body(i, p)
    BY <2>4
  <2> HIDE DEF h
  <2>6. PICK g \in [0..n -> Seq(Int)] : g[0] = <<>> /\ \A i \in 1..n : g[i] = h[i][g[i - 1]]
    <3>1. <<>> \in Seq(Int)
      OBVIOUS
    <3>2. \E g \in [0..n -> Seq(Int)] : Stepwise(g, n, <<>>, h)
      BY <1>0, <2>5, <3>1, StepwiseFunction
    <3> QED  BY <3>2 DEF Stepwise
  <2>7. \A i \in 1..n : i - 1 \in 0..n /\ g[i - 1] \in Seq(Int) /\ g[i] = body(i, g[i - 1])
    <3> SUFFICES ASSUME NEW i \in 1..n
                 PROVE  i - 1 \in 0..n /\ g[i - 1] \in Seq(Int) /\ g[i] = body(i, g[i - 1])
      OBVIOUS
    <3>1. i - 1 \in 0..n
      BY <1>0
    <3>2. g[i - 1] \in Seq(Int)
      BY <2>6, <3>1
    <3> QED  BY <2>5, <2>6, <3>1, <3>2
  <2>8. Def(g)
    BY <1>0, <2>6, <2>7
  <2>9. Def(f)
    <3> HIDE DEF Def
    <3> QED  BY <2>8
  <2> HIDE DEF f
  <2>10. f[0] = <<>> /\ \A i \in 1..n : f[i] = body(i, f[i - 1])
    <3>1. \A i \in 0..n : f[i] = (IF i = 0 THEN <<>> ELSE body(i, f[i - 1]))
      BY <2>9
    <3> QED  BY <1>0, <3>1
  <2> DEFINE S == {m \in 0..n : Packed(d, keys, f[m], m)}
  <2>11. 0 \in S
    <3>1. Packed(d, keys, <<>>, 0)
      BY DEF Packed
    <3> QED  BY <1>0, <2>10, <3>1
  <2>12. ASSUME NEW m \in 0..n, m \in S, m < n PROVE m + 1 \in S
    <3>0. m < Len(d.offsets)
      BY <2>12 DEF n
    <3>1. m + 1 \in 1..n /\ (m + 1) - 1 = m /\ m + 1 \in 0..n /\ m \in Nat
      <4> HIDE DEF S
      <4>1. n \in Nat /\ m \in 0..n /\ m < n
        BY <1>0, <2>12
      <4> QED  BY <4>1
    <3>2. Packed(d, keys, f[m], m) /\ f[m + 1] = body(m + 1, f[m])
      BY <2>10, <2>12, <3>1
    <3>3. CASE Section(d, m + 1).key \in keys
      <4>1. f[m + 1] = f[m]
        BY <2>3, <3>1, <3>2, <3>3 DEF body
      <4> QED  BY <3>0, <3>1, <3>2, <3>3, <4>1, PackOne
    <3>4. CASE Section(d, m + 1).key \notin keys
      <4>1. f[m + 1] = Append(f[m], d.offsets[m + 1])
        BY <2>3, <3>1, <3>2, <3>4 DEF body
      <4> QED  BY <3>0, <3>1, <3>2, <3>4, <4>1, PackOne
    <3> QED  BY <3>3, <3>4
  <2>13. n \in S
    <3> HIDE DEF S
    <3>1. \A m \in 0..n : m \in S
      BY <1>0, <2>11, <2>12, SetInduction
    <3> QED  BY <1>0, <3>1
  <2>14. Packed(d, keys, f[n], Len(d.offsets))
    BY <2>13 DEF n
  <2> QED  BY <2>2, <2>14
<1> QED  BY <1>1, <1>2

(* What is left after indirectIndex.Delete is an index of the other keys. *)
LEMMA DeleteKeysOK ==
  ASSUME NEW d, IndexOK(d), NEW keys \in SUBSET Nat
  PROVE  LET e == DeleteKeys(d, keys) IN
         /\ IndexOK(e) /\ e.b = d.b /\ e.tombs = d.tombs /\ Len(e.offsets) <= Len(d.offsets)
         /\ Len(e.offsets) = Len(d.offsets) => e = d
         /\ \A j \in 1..Len(e.offsets) : \E i \in 1..Len(d.offsets) :
               Section(e, j) = Section(d, i) /\ Section(d, i).key \notin keys
         /\ \A i \in 1..Len(d.offsets) : Section(d, i).key \notin keys =>
               \E j \in 1..Len(e.offsets) : Section(e, j) = Section(d, i)
<1>1. PICK pk : DeleteKeys(d, keys) = [d EXCEPT !.offsets = pk] /\ Packed(d, keys, pk, Len(d.offsets))
  BY DeletePacks
<1> PICK e : e = DeleteKeys(d, keys)
  OBVIOUS
<1>2. /\ e = [b |-> d.b, offsets |-> pk, minKey |-> d.minKey, maxKey |-> d.maxKey,
              minTime |-> d.minTime, maxTime |-> d.maxTime, tombs |-> d.tombs]
  BY <1>1 DEF IndexOK
<1>3. /\ e.b = d.b /\ e.offsets = pk /\ e.tombs = d.tombs /\ e.minKey = d.minKey /\ e.maxKey = d.maxKey
      /\ e.minTime = d.minTime /\ e.maxTime = d.maxTime
  BY <1>2
<1> PICK n : n = Len(d.offsets)
  OBVIOUS
<1>4. /\ pk \in Seq(Int) /\ Len(pk) \in Nat /\ Len(pk) <= n /\ n \in Nat
      /\ \A j \in 1..Len(pk) : \E i \in 1..n :
            SectionAt(d.b, pk[j]) = SectionAt(d.b, d.offsets[i]) /\ SectionAt(d.b, d.offsets[i]).key \notin keys
      /\ \A i \in 1..n : SectionAt(d.b, d.offsets[i]).key \notin keys =>
            \E j \in 1..Len(pk) : SectionAt(d.b, pk[j]) = SectionAt(d.b, d.offsets[i])
      /\ \A j, x \in 1..Len(pk) : j < x => SectionAt(d.b, pk[j]).key < SectionAt(d.b, pk[x]).key
      /\ Len(pk) = n => \A i \in 1..n : pk[i] = d.offsets[i]
  <2>1. n \in Nat
    BY KeyFacts
  <2> QED  BY <1>1, <2>1 DEF Packed, Section
<1>5. \A j \in 1..Len(pk) : Section(e, j) = SectionAt(d.b, pk[j])
  BY <1>3 DEF Section
<1>6. \A i \in 1..n : Section(d, i) = SectionAt(d.b, d.offsets[i])
  BY DEF Section
<1>7. \A j \in 1..Len(pk) : \E i \in 1..n : Section(e, j) = Section(d, i) /\ Section(d, i).key \notin keys
  BY <1>4, <1>5, <1>6
<1>8. \A i \in 1..n : Section(d, i).key \notin keys => \E j \in 1..Len(pk) : Section(e, j) = Section(d, i)
  BY <1>4, <1>5, <1>6
<1>9. \A s : SectionOK(d, s) => SectionOK(e, s)
  BY <1>3 DEF SectionOK
<1>10. IndexOK(e)
  <2>1. \A j \in 1..Len(pk) : SectionOK(e, Section(e, j))
    BY <1>7, <1>9 DEF IndexOK
  <2>2. \A j, x \in 1..Len(pk) : j < x => Section(e, j).key < Section(e, x).key
    BY <1>4, <1>5
  <2>3. TombstonesSorted(e)
    BY <1>3 DEF IndexOK, TombstonesSorted
  <2>4. e = [b |-> e.b, offsets |-> e.offsets, minKey |-> e.minKey, maxKey |-> e.maxKey,
             minTime |-> e.minTime, maxTime |-> e.maxTime, tombs |-> e.tombs]
    BY <1>2, <1>3
  <2>5. e.minKey \in Int /\ e.maxKey \in Int /\ e.minTime \in Int /\ e.maxTime \in Int
    BY <1>3 DEF IndexOK
  <2> QED  BY <1>3, <1>4, <2>1, <2>2, <2>3, <2>4, <2>5 DEF IndexOK
<1>11. Len(pk) = n => e = d
  <2> SUFFICES ASSUME Len(pk) = n PROVE e = d
    OBVIOUS
  <2>1. pk = d.offsets
    <3>1. d.offsets \in Seq(Int) /\ \A i \in 1..n : pk[i] = d.offsets[i]
      BY <1>4 DEF IndexOK
    <3> QED  BY <1>4, <3>1, SeqEqual
  <2> QED  BY <1>2, <2>1 DEF IndexOK
<1>12. /\ IndexOK(e) /\ e.b = d.b /\ e.tombs = d.tombs /\ Len(e.offsets) <= n
       /\ Len(e.offsets) = n => e = d
       /\ \A j \in 1..Len(e.offsets) : \E i \in 1..n :
             Section(e, j) = Section(d, i) /\ Section(d, i).key \notin keys
       /\ \A i \in 1..n : Section(d, i).key \notin keys =>
             \E j \in 1..Len(e.offsets) : Section(e, j) = Section(d, i)
  BY <1>3, <1>4, <1>7, <1>8, <1>10, <1>11
<1> QED  BY <1>12, Zenon

(* Storing tombstones in order leaves an index. *)
LEMMA StoreOK ==
  ASSUME NEW d, IndexOK(d), NEW new, \A k \in DOMAIN new : TombstoneList(new[k])
  PROVE  LET e == StoreTombstones(d, new) IN
         /\ IndexOK(e) /\ e.b = d.b /\ e.offsets = d.offsets
         /\ \A k : TombstoneRange(e, k) = IF k \in DOMAIN new THEN new[k] ELSE TombstoneRange(d, k)
<1> PICK e : e = StoreTombstones(d, new)
  OBVIOUS
<1> DEFINE all == [k \in DOMAIN new \cup DOMAIN d.tombs |->
                      IF k \in DOMAIN new THEN new[k] ELSE d.tombs[k]]
<1>1. /\ \A k \in DOMAIN all : TombstoneList(all[k])
      /\ \A k : (IF k \in DOMAIN all THEN all[k] ELSE <<>>)
                = IF k \in DOMAIN new THEN new[k] ELSE TombstoneRange(d, k)
  BY DEF IndexOK, TombstonesSorted, TombstoneRange
<1>2. e = [d EXCEPT !.tombs = all]
  BY DEF StoreTombstones, IndexOK
<1> HIDE DEF all
<1>3. e = [b |-> d.b, offsets |-> d.offsets, minKey |-> d.minKey, maxKey |-> d.maxKey,
           minTime |-> d.minTime, maxTime |-> d.maxTime, tombs |-> all]
  BY <1>2 DEF IndexOK
<1>4. /\ e.b = d.b /\ e.offsets = d.offsets /\ e.tombs = all /\ e.minKey = d.minKey /\ e.maxKey = d.maxKey
      /\ e.minTime = d.minTime /\ e.maxTime = d.maxTime
  BY <1>3
<1>5. \A k : TombstoneRange(e, k) = IF k \in DOMAIN new THEN new[k] ELSE TombstoneRange(d, k)
  BY <1>1, <1>4 DEF TombstoneRange
<1>6. IndexOK(e)
  <2>1. \A i : Section(e, i) = Section(d, i)
    BY <1>4 DEF Section
  <2>2. \A s : SectionOK(d, s) => SectionOK(e, s)
    BY <1>4 DEF SectionOK
  <2>3. \A i \in 1..Len(e.offsets) : SectionOK(e, Section(e, i))
    BY <1>4, <2>1, <2>2 DEF IndexOK
  <2>4. \A i, j \in 1..Len(e.offsets) : i < j => Section(e, i).key < Section(e, j).key
    BY <1>4, <2>1 DEF IndexOK
  <2>5. TombstonesSorted(e)
    BY <1>1, <1>4 DEF TombstonesSorted
  <2>6. e = [b |-> e.b, offsets |-> e.offsets, minKey |-> e.minKey, maxKey |-> e.maxKey,
             minTime |-> e.minTime, maxTime |-> e.maxTime, tombs |-> e.tombs]
    BY <1>3, <1>4
  <2>7. /\ e.offsets \in Seq(Int) /\ e.minKey \in Int /\ e.maxKey \in Int
        /\ e.minTime \in Int /\ e.maxTime \in Int
    BY <1>4 DEF IndexOK
  <2> QED  BY <2>3, <2>4, <2>5, <2>6, <2>7 DEF IndexOK
<1>7. /\ IndexOK(e) /\ e.b = d.b /\ e.offsets = d.offsets
      /\ \A k : TombstoneRange(e, k) = IF k \in DOMAIN new THEN new[k] ELSE TombstoneRange(d, k)
  BY <1>4, <1>5, <1>6
<1> QED  BY <1>7, Zenon

(* The first and the last entry of a key bound the times of all. *)
LEMMA IndexedBounds ==
  ASSUME NEW d, IndexOK(d), NEW k \in Int, NEW t \in Int64, Indexed(d, k, t)
  PROVE  LET s == Entries(d, k) IN
         /\ s # <<>> /\ s[1].min \in Int /\ s[Len(s)].max \in Int /\ t \in Int
         /\ s[1].min <= t /\ t <= s[Len(s)].max
         /\ d.minTime <= s[1].min /\ s[Len(s)].max <= d.maxTime
         /\ \E i \in 0..KeyCount(d) - 1 : KeyAt(d, i) = k
<1>1. PICK i \in 1..Len(d.offsets) :
        Section(d, i).key = k /\ \E e \in DOMAIN Section(d, i).entries : HasTime(Section(d, i).entries[e], t)
  BY DEF Indexed
<1>2. Entries(d, k) = Section(d, i).entries
  BY <1>1, EntriesListed
<1>3. PICK e \in DOMAIN Entries(d, k) : HasTime(Entries(d, k)[e], t)
  BY <1>1, <1>2
<1> PICK s : s = Entries(d, k)
  OBVIOUS
<1>4. /\ Len(s) \in Nat \ {0} /\ DOMAIN s = 1..Len(s)
      /\ \A x \in 1..Len(s) : /\ s[x].min \in Int64 /\ s[x].max \in Int64
                              /\ s[1].min <= s[x].min /\ s[x].max <= s[Len(s)].max
      /\ d.minTime <= s[1].min /\ s[Len(s)].max <= d.maxTime
  BY <1>2 DEF IndexOK, SectionOK
<1>5. \A x \in Int64 : x \in Int
  BY TimeAssumption DEF Int64
<1>6. /\ s # <<>> /\ s[1].min \in Int /\ s[Len(s)].max \in Int /\ e \in 1..Len(s)
      /\ s[e].min \in Int /\ s[e].max \in Int /\ s[1].min <= s[e].min /\ s[e].max <= s[Len(s)].max
  BY <1>3, <1>4, <1>5
<1>7. s[1].min <= t /\ t <= s[Len(s)].max /\ t \in Int
  <2>1. s[e].min <= t /\ s[e].max >= t
    BY <1>3 DEF HasTime
  <2> PICK a, b, c, f : a = s[1].min /\ b = s[e].min /\ c = s[e].max /\ f = s[Len(s)].max
    OBVIOUS
  <2>2. a \in Int /\ b \in Int /\ c \in Int /\ f \in Int /\ a <= b /\ c <= f /\ b <= t /\ t <= c /\ t \in Int
    BY <1>5, <1>6, <2>1
  <2>3. a <= t /\ t <= f
    BY <2>2
  <2> QED  BY <2>2, <2>3
<1>8. \E x \in 0..KeyCount(d) - 1 : KeyAt(d, x) = k
  <2>1. i - 1 \in 0..KeyCount(d) - 1 /\ (i - 1) + 1 = i
    BY KeyFacts
  <2>2. KeyAt(d, i - 1) = k
    BY <1>1, <2>1, KeyFacts
  <2> QED  BY <2>1, <2>2
<1> QED  BY <1>4, <1>6, <1>7, <1>8

(* What a delete of range r has to do with a key: drop it, or leave a tombstone, or there
   is nothing of it to delete. *)
PlanOK(d, keys, r, plan) ==
    /\ plan.full \subseteq keys
    /\ \A k \in DOMAIN plan.new : k \in keys /\ plan.new[k] = InsertRange(TombstoneRange(d, k), r)
    /\ \A k \in keys, t \in Int64 :
          k \notin plan.full /\ k \notin DOMAIN plan.new /\ Indexed(d, k, t) => ~HasTime(r, t)

(* That is how indirectIndex.DeleteRange sorts the keys. *)
LEMMA PlanFacts ==
  ASSUME NEW d, IndexOK(d), NEW keys \in SUBSET Nat, NEW min \in Int64, NEW max \in Int64
  PROVE  PlanOK(d, keys, [min |-> min, max |-> max], DeletePlan(d, keys, min, max))
<1> DEFINE r == [min |-> min, max |-> max]
           es(k) == Entries(d, k)
           lo(k) == es(k)[1].min
           hi(k) == es(k)[Len(es(k))].max
           listed == {k \in keys : \E i \in 0..KeyCount(d) - 1 : KeyAt(d, i) = k}
           hit == {k \in listed : es(k) # <<>> /\ ~(min > hi(k) \/ max < lo(k))}
           whole == {k \in hit : min <= lo(k) /\ max >= hi(k)}
           new == [k \in hit \ whole |-> InsertRange(TombstoneRange(d, k), r)]
           spanned == {k \in hit \ whole : Window(new[k]).min <= lo(k) /\ Window(new[k]).max >= hi(k)}
           none == [k \in {} |-> <<>>]
<1>1. DeletePlan(d, keys, min, max) =
        IF min = MinInt64 /\ max = MaxInt64 THEN [full |-> keys, new |-> none]
        ELSE IF min > d.maxTime \/ max < d.minTime THEN [full |-> {}, new |-> none]
        ELSE [full |-> whole \cup spanned, new |-> new]
  BY DEF DeletePlan
<1>2. ASSUME NEW k \in keys, NEW t \in Int64, Indexed(d, k, t)
      PROVE  /\ es(k) # <<>> /\ lo(k) \in Int /\ hi(k) \in Int /\ lo(k) <= t /\ t <= hi(k) /\ t \in Int
             /\ d.minTime <= lo(k) /\ hi(k) <= d.maxTime /\ k \in listed
  <2>1. k \in Int
    OBVIOUS
  <2> QED  BY <1>2, <2>1, IndexedBounds
<1>3. min \in Int /\ max \in Int
  BY TimeAssumption DEF Int64
<1>4. whole \subseteq keys /\ spanned \subseteq keys /\ hit \subseteq keys
  OBVIOUS
<1>5. DOMAIN none = {} /\ DOMAIN new = hit \ whole
  OBVIOUS
<1>6. \A k \in DOMAIN new : k \in keys /\ new[k] = InsertRange(TombstoneRange(d, k), r)
  OBVIOUS
<1>7. ASSUME NEW k \in keys, NEW t \in Int64, Indexed(d, k, t), HasTime(r, t)
      PROVE  ~(min > d.maxTime \/ max < d.minTime) /\ k \in hit
  <2>1. r.min <= t /\ r.max >= t /\ r.min = min /\ r.max = max
    BY <1>7 DEF HasTime
  <2>2. d.minTime \in Int /\ d.maxTime \in Int
    BY DEF IndexOK
  <2> HIDE DEF lo, hi, es, listed
  <2>3. ~(min > d.maxTime \/ max < d.minTime) /\ ~(min > hi(k) \/ max < lo(k))
    BY <1>2, <1>3, <1>7, <2>1, <2>2
  <2> QED  BY <1>2, <1>7, <2>3
<1> PICK plan : plan = DeletePlan(d, keys, min, max)
  OBVIOUS
<1> HIDE DEF hit, new, none
<1>8. \A k \in hit : k \in whole \/ k \in DOMAIN new
  BY <1>5
<1> HIDE DEF whole, spanned, r
<1>9. /\ plan.full \subseteq keys
      /\ \A k \in DOMAIN plan.new : k \in keys /\ plan.new[k] = InsertRange(TombstoneRange(d, k), r)
      /\ \A k \in keys, t \in Int64 :
            k \notin plan.full /\ k \notin DOMAIN plan.new /\ Indexed(d, k, t) => ~HasTime(r, t)
  <2>1. CASE min = MinInt64 /\ max = MaxInt64
    <3>1. plan.full = keys /\ plan.new = none
      BY <1>1, <2>1
    <3> QED  BY <1>5, <3>1
  <2>2. CASE ~(min = MinInt64 /\ max = MaxInt64) /\ (min > d.maxTime \/ max < d.minTime)
    <3>1. plan.full = {} /\ plan.new = none
      BY <1>1, <2>2
    <3> QED  BY <1>5, <1>7, <2>2, <3>1
  <2>3. CASE ~(min = MinInt64 /\ max = MaxInt64) /\ ~(min > d.maxTime \/ max < d.minTime)
    <3>1. plan.full = whole \cup spanned /\ plan.new = new
      BY <1>1, <2>3
    <3> QED  BY <1>4, <1>6, <1>7, <1>8, <3>1
  <2> QED  BY <2>1, <2>2, <2>3
<1> QED  BY <1>9 DEF r, PlanOK

(* The tombstones with one more range. *)
LEMMA InsertDeletes ==
  ASSUME NEW ts, TombstoneList(ts), NEW r \in Span64, NEW t
  PROVE  Deleted(InsertRange(ts, r), t) <=> Deleted(ts, t) \/ HasTime(r, t)
<1> PICK new : new = InsertRange(ts, r)
  OBVIOUS
<1>1. /\ \A j \in DOMAIN new : new[j] = r \/ \E i \in DOMAIN ts : new[j] = ts[i]
      /\ \E j \in DOMAIN new : new[j] = r
      /\ \A i \in DOMAIN ts : \E j \in DOMAIN new : new[j] = ts[i]
  BY InsertSorted
<1> QED  BY <1>1 DEF Deleted

(* What dropping the keys of a plan does: it leaves an index, and takes away only what the
   delete has asked for. *)
DropOK(d, keys, r, full, e) ==
    /\ IndexOK(e) /\ e.b = d.b /\ \A k : TombstoneRange(e, k) = TombstoneRange(d, k)
    /\ \A k \in Nat, t \in Int64 :
          /\ MayHold(e, k, t) <=> MayHold(d, k, t) /\ k \notin full
          /\ MayHold(d, k, t) /\ k \in full => k \in keys /\ HasTime(r, t)

(* indirectIndex.DeleteRange, its first part: the keys whose every time is deleted go. *)
LEMMA DropEffect ==
  ASSUME NEW d, IndexOK(d), NEW keys \in SUBSET Nat, NEW min \in Int64, NEW max \in Int64
  PROVE  LET full == DeletePlan(d, keys, min, max).full IN
         DropOK(d, keys, [min |-> min, max |-> max], full, DeleteKeys(d, full))
<1> PICK plan : plan = DeletePlan(d, keys, min, max)
  OBVIOUS
<1> DEFINE r == [min |-> min, max |-> max]
<1>1. plan.full \subseteq keys
  <2>1. PlanOK(d, keys, r, plan)
    BY PlanFacts
  <2> HIDE DEF r
  <2> QED  BY <2>1 DEF PlanOK
<1> PICK e : e = DeleteKeys(d, plan.full)
  OBVIOUS
<1>2. /\ IndexOK(e) /\ e.b = d.b /\ e.tombs = d.tombs
      /\ \A j \in 1..Len(e.offsets) : \E i \in 1..Len(d.offsets) :
            Section(e, j) = Section(d, i) /\ Section(d, i).key \notin plan.full
      /\ \A i \in 1..Len(d.offsets) : Section(d, i).key \notin plan.full =>
            \E j \in 1..Len(e.offsets) : Section(e, j) = Section(d, i)
  <2>1. plan.full \in SUBSET Nat
    BY <1>1
  <2> QED  BY <2>1, DeleteKeysOK
<1>3. \A k, t : Indexed(e, k, t) <=> Indexed(d, k, t) /\ k \notin plan.full
  <2> DEFINE In(s, k, t) == s.key = k /\ \E x \in DOMAIN s.entries : HasTime(s.entries[x], t)
  <2>1. \A k, t : Indexed(e, k, t) <=> \E j \in 1..Len(e.offsets) : In(Section(e, j), k, t)
    BY DEF Indexed
  <2>2. \A k, t : Indexed(d, k, t) <=> \E i \in 1..Len(d.offsets) : In(Section(d, i), k, t)
    BY DEF Indexed
  <2>3. \A s, k, t : In(s, k, t) => s.key = k
    OBVIOUS
  <2> HIDE DEF In
  <2> QED  BY <1>2, <2>1, <2>2, <2>3
<1>4. \A k : TombstoneRange(e, k) = TombstoneRange(d, k)
  BY <1>2 DEF TombstoneRange
<1>5. ASSUME NEW k \in Nat, NEW t \in Int64
      PROVE  /\ MayHold(e, k, t) <=> MayHold(d, k, t) /\ k \notin plan.full
             /\ MayHold(d, k, t) /\ k \in plan.full => k \in keys /\ HasTime(r, t)
  <2>1. MayHold(e, k, t) <=> MayHold(d, k, t) /\ k \notin plan.full
    BY <1>3, <1>4 DEF MayHold
  <2>2. ASSUME MayHold(d, k, t), k \in plan.full PROVE HasTime(r, t)
    <3> PICK s : s = Entries(d, k)
      OBVIOUS
    <3>1. s[1].min \in Int /\ s[Len(s)].max \in Int /\ s[1].min <= t /\ t <= s[Len(s)].max
      BY <2>2, IndexedBounds DEF MayHold
    <3>2. HasTime(r, t) \/ Deleted(TombstoneRange(d, k), t)
      BY <2>2, <3>1, DroppedKeysAreDeleted DEF IndexOK, Deleted
    <3> QED  BY <2>2, <3>2 DEF MayHold
  <2>3. k \in plan.full => k \in keys
    BY <1>1
  <2> HIDE DEF r
  <2> QED  BY <2>1, <2>2, <2>3
<1>6. DropOK(d, keys, r, plan.full, e)
  <2> HIDE DEF r
  <2> QED  BY <1>2, <1>4, <1>5, Zenon DEF DropOK
<1> QED  BY <1>6, Zenon

(* What storing one more range does for the keys of new. *)
KeepOK(d, keys, r, e) ==
    /\ IndexOK(e) /\ e.b = d.b /\ e.offsets = d.offsets
    /\ \A k \in Nat, t \in Int64 : MayHold(e, k, t) <=> MayHold(d, k, t) /\ ~(k \in keys /\ HasTime(r, t))

(* indirectIndex.DeleteRange, its second part: the tombstones of the other keys. *)
LEMMA StoreEffect ==
  ASSUME NEW d, IndexOK(d), NEW r \in Span64, NEW new,
         \A k \in DOMAIN new : new[k] = InsertRange(TombstoneRange(d, k), r)
  PROVE  KeepOK(d, DOMAIN new, r, StoreTombstones(d, new))
<1> PICK f : f = StoreTombstones(d, new)
  OBVIOUS
<1>1. \A k : TombstoneList(TombstoneRange(d, k))
  BY RangeSorted DEF IndexOK
<1>2. \A k \in DOMAIN new : TombstoneList(new[k])
  BY <1>1, InsertSorted
<1>3. /\ IndexOK(f) /\ f.b = d.b /\ f.offsets = d.offsets
      /\ \A k : TombstoneRange(f, k) = IF k \in DOMAIN new THEN new[k] ELSE TombstoneRange(d, k)
  BY <1>2, StoreOK
<1>4. \A k, t : Indexed(f, k, t) <=> Indexed(d, k, t)
  BY <1>3 DEF Indexed, Section
<1>5. ASSUME NEW k \in Nat, NEW t \in Int64
      PROVE  MayHold(f, k, t) <=> MayHold(d, k, t) /\ ~(k \in DOMAIN new /\ HasTime(r, t))
  <2>1. CASE k \in DOMAIN new
    <3>1. TombstoneRange(f, k) = InsertRange(TombstoneRange(d, k), r)
      BY <1>3, <2>1
    <3>2. Deleted(TombstoneRange(f, k), t) <=> Deleted(TombstoneRange(d, k), t) \/ HasTime(r, t)
      BY <1>1, <3>1, InsertDeletes
    <3> QED  BY <1>4, <2>1, <3>2 DEF MayHold
  <2>2. CASE k \notin DOMAIN new
    <3>1. TombstoneRange(f, k) = TombstoneRange(d, k)
      BY <1>3, <2>2
    <3> QED  BY <1>4, <2>2, <3>1 DEF MayHold
  <2> QED  BY <2>1, <2>2
<1>6. KeepOK(d, DOMAIN new, r, f)
  BY <1>3, <1>5, Zenon DEF KeepOK
<1> QED  BY <1>6

(* What deleting a range of keys does. *)
ExactOK(d, keys, min, max, e) ==
    /\ IndexOK(e) /\ e.b = d.b
    /\ \A k \in Nat, t \in Int64 : MayHold(e, k, t) <=> MayHold(d, k, t) /\ ~(k \in keys /\ min <= t /\ t <= max)

(* Both parts together. *)
LEMMA DeleteRangeEffect ==
  ASSUME NEW d, IndexOK(d), NEW keys \in SUBSET Nat, NEW min \in Int64, NEW max \in Int64
  PROVE  ExactOK(d, keys, min, max, DeleteRange(d, keys, min, max))
<1> PICK plan : plan = DeletePlan(d, keys, min, max)
  OBVIOUS
<1> DEFINE r == [min |-> min, max |-> max]
<1>1. /\ plan.full \subseteq keys
      /\ \A k \in DOMAIN plan.new : k \in keys /\ plan.new[k] = InsertRange(TombstoneRange(d, k), r)
      /\ \A k \in keys, t \in Int64 :
            k \notin plan.full /\ k \notin DOMAIN plan.new /\ Indexed(d, k, t) => ~HasTime(r, t)
  <2>1. PlanOK(d, keys, r, plan)
    BY PlanFacts
  <2> HIDE DEF r
  <2> QED  BY <2>1 DEF PlanOK
<1>2. r \in Span64 /\ \A t \in Int64 : HasTime(r, t) <=> min <= t /\ t <= max
  <2>1. r \in Span64
    BY DEF Span64
  <2>2. \A t \in Int64 : t \in Int
    BY TimeAssumption DEF Int64
  <2>3. min \in Int /\ max \in Int /\ r.min = min /\ r.max = max
    BY <2>2
  <2> QED  BY <2>1, <2>2, <2>3 DEF HasTime
<1> PICK e : e = DeleteKeys(d, plan.full)
  OBVIOUS
<1> PICK f : f = StoreTombstones(e, plan.new)
  OBVIOUS
<1>3. DeleteRange(d, keys, min, max) = f
  BY DEF DeleteRange
<1>4. DropOK(d, keys, r, plan.full, e)
  BY DropEffect
<1> HIDE DEF r
<1>5. /\ IndexOK(e) /\ e.b = d.b /\ \A k : TombstoneRange(e, k) = TombstoneRange(d, k)
      /\ \A k \in Nat, t \in Int64 :
            /\ MayHold(e, k, t) <=> MayHold(d, k, t) /\ k \notin plan.full
            /\ MayHold(d, k, t) /\ k \in plan.full => k \in keys /\ HasTime(r, t)
  BY <1>4, Zenon DEF DropOK
<1>6. \A k \in DOMAIN plan.new : plan.new[k] = InsertRange(TombstoneRange(e, k), r)
  BY <1>1, <1>5
<1>7. KeepOK(e, DOMAIN plan.new, r, f)
  BY <1>2, <1>5, <1>6, StoreEffect
<1>8. /\ IndexOK(f) /\ f.b = e.b
      /\ \A k \in Nat, t \in Int64 : MayHold(f, k, t) <=> MayHold(e, k, t) /\ ~(k \in DOMAIN plan.new /\ HasTime(r, t))
  BY <1>7, Zenon DEF KeepOK
<1>9. ASSUME NEW k \in Nat, NEW t \in Int64
      PROVE  MayHold(f, k, t) <=> MayHold(d, k, t) /\ ~(k \in keys /\ min <= t /\ t <= max)
  <2>1. MayHold(e, k, t) <=> MayHold(d, k, t) /\ k \notin plan.full
    BY <1>5
  <2>2. MayHold(d, k, t) /\ k \in plan.full => k \in keys /\ HasTime(r, t)
    BY <1>5
  <2>3. MayHold(f, k, t) <=> MayHold(e, k, t) /\ ~(k \in DOMAIN plan.new /\ HasTime(r, t))
    BY <1>8
  <2>4. HasTime(r, t) <=> min <= t /\ t <= max
    BY <1>2
  <2>5. k \in DOMAIN plan.new => k \in keys
    BY <1>1
  <2>6. k \in keys /\ k \notin plan.full /\ k \notin DOMAIN plan.new /\ MayHold(d, k, t) => ~HasTime(r, t)
    BY <1>1 DEF MayHold
  <2> QED  BY <2>1, <2>2, <2>3, <2>4, <2>5, <2>6, Zenon
<1>10. f.b = d.b
  BY <1>5, <1>8
<1> QED  BY <1>3, <1>8, <1>9, <1>10, Zenon DEF ExactOK

(* indirectIndex.DeleteRange deletes what it was asked to delete and nothing else: after it
   ContainsValue finds a point exactly when it did before and the point is not one of the
   keys' in the range.  Whether a key is dropped whole, or a tombstone is left, or the keys
   or the times are found not to be in the file at all, makes no difference; and the index
   is one to which the same applies again, so this holds of any sequence of deletes, and of
   the one that opens a file with its tombstones. *)
THEOREM DeleteRangeExact ==
  ASSUME NEW d, IndexOK(d), NEW keys \in SUBSET Nat, NEW min \in Int64, NEW max \in Int64
  PROVE  /\ IndexOK(DeleteRange(d, keys, min, max))
         /\ \A k \in Nat, t \in Int64 :
               ContainsValue(DeleteRange(d, keys, min, max), k, t) <=>
                   ContainsValue(d, k, t) /\ ~(k \in keys /\ min <= t /\ t <= max)
<1> PICK e : e = DeleteRange(d, keys, min, max)
  OBVIOUS
<1>1. /\ IndexOK(e)
      /\ \A k \in Nat, t \in Int64 : MayHold(e, k, t) <=> MayHold(d, k, t) /\ ~(k \in keys /\ min <= t /\ t <= max)
  <2>1. ExactOK(d, keys, min, max, e)
    BY DeleteRangeEffect
  <2> QED  BY <2>1, Zenon DEF ExactOK
<1>2. ASSUME NEW k \in Nat, NEW t \in Int64
      PROVE  ContainsValue(e, k, t) <=> ContainsValue(d, k, t) /\ ~(k \in keys /\ min <= t /\ t <= max)
  <2>1. ContainsValue(e, k, t) <=> MayHold(e, k, t)
    BY <1>1, ContainsMeaning
  <2>2. ContainsValue(d, k, t) <=> MayHold(d, k, t)
    BY ContainsMeaning
  <2> QED  BY <1>1, <2>1, <2>2
<1> QED  BY <1>1, <1>2
=============================================================================
