---------------------------- MODULE SSTRead_proofs ----------------------------
(***************************************************************************)
(* Proofs about SSTFile, on top of SSTFile_proofs: what is read through    *)
(* the indexes is what was written, without the points that were deleted,  *)
(* and a walk over the files meets every key.                              *)
(***************************************************************************)
EXTENDS SSTFile_proofs
-----------------------------------------------------------------------------
(* Slices of points *)

(* Points from T in order of time. *)
PointList(a, T) ==
    /\ a \in Seq(T) /\ \A x \in 1..Len(a) : a[x].t \in Int
    /\ \A x, y \in 1..Len(a) : x < y => a[x].t < a[y].t

LEMMA PointHalves ==
  ASSUME NEW a \in Int, NEW b \in Int, NEW m \in Int, NEW n \in Int,
         0 <= a, a < b, b <= n, b - a + m <= n, NEW c, c = (a + b) \div 2
  PROVE  /\ c \in Int /\ a <= c /\ c < b /\ 0 <= c /\ c + 1 <= n
         /\ b - (c + 1) + (m + 1) <= n /\ c - a + (m + 1) <= n
<1>1. c \in Int /\ a <= c /\ c < b
  OBVIOUS
<1> QED  BY <1>1

(* Values.search: the points before the place are earlier, the others are not. *)
LEMMA SearchTime ==
  ASSUME NEW T, NEW a, PointList(a, T), NEW t \in Int, NEW r, r = Search(a, t)
  PROVE  /\ r \in 0..Len(a) /\ Len(a) \in Nat
         /\ \A x \in 1..Len(a) : a[x].t < t <=> x <= r
<1> DEFINE n == Len(a)
           X == [lo : Int, hi : Int]
           base == [lo |-> 0, hi |-> n]
           half(p) == (p.lo + p.hi) \div 2
           body(p) == IF p.lo >= p.hi THEN p
                      ELSE IF a[half(p) + 1].t < t THEN [lo |-> half(p) + 1, hi |-> p.hi]
                      ELSE [lo |-> p.lo, hi |-> half(p)]
           h == [m \in 1..n |-> [p \in X |-> body(p)]]
           Def(f) == f = [m \in 0..n |-> IF m = 0 THEN base ELSE body(f[m - 1])]
           f == CHOOSE x : Def(x)
<1>1. /\ n \in Nat
      /\ \A x \in 1..n : a[x].t \in Int
      /\ \A x, y \in 1..n : x < y => a[x].t < a[y].t
  BY DEF PointList
<1>2. r = f[n].lo
  BY DEF Search
<1> HIDE DEF n
<1>3. base \in X /\ \A p \in X : body(p) \in X
  <2>1. \A p \in X : p.lo \in Int /\ p.hi \in Int /\ half(p) \in Int
    OBVIOUS
  <2> HIDE DEF half
  <2> QED  BY <1>1, <2>1
<1> HIDE DEF body, base
<1>4. h \in [1..n -> [X -> X]] /\ \A m \in 1..n, p \in X : h[m][p] = body(p)
  <2> HIDE DEF X
  <2> QED  BY <1>3
<1> HIDE DEF h, X
<1>5. PICK g \in [0..n -> X] : g[0] = base /\ \A m \in 1..n : g[m] = h[m][g[m - 1]]
  <2>1. \E g \in [0..n -> X] : Stepwise(g, n, base, h)
    BY <1>1, <1>3, <1>4, StepwiseFunction
  <2> QED  BY <2>1 DEF Stepwise
<1>6. \A m \in 1..n : m - 1 \in 0..n /\ g[m - 1] \in X /\ g[m] = body(g[m - 1])
  BY <1>1, <1>4, <1>5
<1>7. Def(g)
  BY <1>1, <1>5, <1>6
<1>8. Def(f)
  <2> HIDE DEF Def
  <2> QED  BY <1>7
<1> HIDE DEF f
<1>9. f[0] = base /\ \A m \in 1..n : f[m] = body(f[m - 1])
  <2>1. \A m \in 0..n : f[m] = (IF m = 0 THEN base ELSE body(f[m - 1]))
    BY <1>8
  <2> QED  BY <1>1, <2>1
<1> DEFINE Good(p, m) ==
             /\ p \in X /\ 0 <= p.lo /\ p.lo <= p.hi /\ p.hi <= n
             /\ p.lo = p.hi \/ p.hi - p.lo + m <= n
             /\ \A x \in 1..n : (x <= p.lo => a[x].t < t) /\ (p.hi < x => ~(a[x].t < t))
           S == {m \in 0..n : Good(f[m], m)}
<1>10. 0 \in S
  <2>1. base \in X /\ base.lo = 0 /\ base.hi = n
    BY <1>3 DEF base
  <2>2. Good(base, 0)
    BY <1>1, <2>1
  <2> HIDE DEF Good
  <2> QED  BY <1>1, <1>9, <2>2
<1>11. ASSUME NEW m \in 0..n, m \in S, m < n PROVE m + 1 \in S
  <2> PICK p : p = f[m]
    OBVIOUS
  <2>1. Good(p, m) /\ p \in X /\ p.lo \in Int /\ p.hi \in Int
    BY <1>11 DEF X
  <2>2. m + 1 \in 1..n /\ m + 1 \in 0..n /\ f[m + 1] = body(p)
    BY <1>1, <1>9, <1>11
  <2>3. Good(body(p), m + 1)
    <3>1. CASE p.lo >= p.hi
      <4>1. body(p) = p
        BY <3>1 DEF body
      <4> QED  BY <1>1, <2>1, <3>1, <4>1
    <3>2. CASE p.lo < p.hi
      <4>0. PICK lo, hi, c : lo = p.lo /\ hi = p.hi /\ c = half(p)
        OBVIOUS
      <4>1. /\ lo \in Int /\ hi \in Int /\ 0 <= lo /\ lo < hi /\ hi <= n /\ hi - lo + m <= n
            /\ c = (lo + hi) \div 2
        BY <2>1, <3>2, <4>0
      <4>2. /\ c \in Int /\ lo <= c /\ c < hi /\ 0 <= c /\ c + 1 <= n
            /\ hi - (c + 1) + (m + 1) <= n /\ c - lo + (m + 1) <= n
        BY <1>1, <4>1, PointHalves
      <4>3. \A x \in 1..n : (x <= lo => a[x].t < t) /\ (hi < x => ~(a[x].t < t))
        BY <2>1, <4>0
      <4>4. c + 1 \in 1..n /\ a[c + 1].t \in Int
        <5>1. c + 1 \in 1..n
          BY <1>1, <4>2
        <5> QED  BY <1>1, <5>1
      <4>5. \A x \in 1..n : (x < c + 1 => a[x].t < a[c + 1].t) /\ (c + 1 < x => a[c + 1].t < a[x].t)
        BY <1>1, <4>4
      <4>8. body(p) = IF lo >= hi THEN p ELSE IF a[c + 1].t < t THEN [lo |-> c + 1, hi |-> hi] ELSE [lo |-> lo, hi |-> c]
        BY <4>0, Zenon DEF body
      <4>9. ~(lo >= hi)
        BY <4>1
      <4> PICK q : q = body(p)
        OBVIOUS
      <4>6. CASE a[c + 1].t < t
        <5>1. body(p) = [lo |-> c + 1, hi |-> hi]
          BY <4>6, <4>8, <4>9
        <5>2. q \in X /\ q.lo = c + 1 /\ q.hi = hi
          BY <4>1, <4>2, <5>1 DEF X
        <5>3. \A x \in 1..n : x <= c + 1 => a[x].t < t
          <6> SUFFICES ASSUME NEW x \in 1..n, x <= c + 1 PROVE a[x].t < t
            OBVIOUS
          <6>1. x = c + 1 \/ x < c + 1
            BY <4>2
          <6>2. a[x].t \in Int
            BY <1>1
          <6> QED  BY <4>4, <4>5, <4>6, <6>1, <6>2
        <5>4. 0 <= c + 1 /\ c + 1 <= hi
          BY <4>1, <4>2
        <5>5. Good(q, m + 1)
          BY <4>1, <4>2, <4>3, <5>2, <5>3, <5>4
        <5> HIDE DEF Good
        <5> QED  BY <5>5
      <4>7. CASE ~(a[c + 1].t < t)
        <5>1. body(p) = [lo |-> lo, hi |-> c]
          BY <4>7, <4>8, <4>9
        <5>2. q \in X /\ q.lo = lo /\ q.hi = c
          BY <4>1, <4>2, <5>1 DEF X
        <5>3. \A x \in 1..n : c < x => ~(a[x].t < t)
          <6> SUFFICES ASSUME NEW x \in 1..n, c < x PROVE ~(a[x].t < t)
            OBVIOUS
          <6>1. x = c + 1 \/ c + 1 < x
            BY <4>2
          <6>2. a[x].t \in Int
            BY <1>1
          <6> QED  BY <4>4, <4>5, <4>7, <6>1, <6>2
        <5>4. c <= n
          BY <1>1, <4>2
        <5>5. Good(q, m + 1)
          BY <4>1, <4>2, <4>3, <5>2, <5>3, <5>4
        <5> HIDE DEF Good
        <5> QED  BY <5>5
      <4> QED  BY <4>6, <4>7
    <3> QED  BY <2>1, <3>1, <3>2
  <2> HIDE DEF Good
  <2> QED  BY <2>2, <2>3
<1>12. n \in S
  <2> HIDE DEF S
  <2>1. \A m \in 0..n : m \in S
    BY <1>1, <1>10, <1>11, SetInduction
  <2> QED  BY <1>1, <2>1
<1> PICK p : p = f[n]
  OBVIOUS
<1>13. Good(p, n) /\ p.lo \in Int /\ p.hi \in Int
  BY <1>12 DEF X
<1>14. p.lo = p.hi /\ p.lo \in 0..n
  BY <1>1, <1>13
<1>15. \A x \in 1..n : a[x].t < t <=> x <= p.lo
  BY <1>13, <1>14
<1> QED  BY <1>1, <1>2, <1>14, <1>15 DEF n

(* A slice without the points from some place to some other. *)
Cut(a, i, j) == SubSeq(a, 1, i) \o SubSeq(a, j + 1, Len(a))

LEMMA CutOut ==
  ASSUME NEW T, NEW a, PointList(a, T), NEW i \in 0..Len(a), NEW j \in 0..Len(a), i <= j,
         NEW b, b = Cut(a, i, j)
  PROVE  /\ PointList(b, T)
         /\ \A p : p \in Range(b) <=> \E x \in 1..Len(a) : p = a[x] /\ (x <= i \/ j < x)
<1>1. PICK n, u, v : n = Len(a) /\ u = SubSeq(a, 1, i) /\ v = SubSeq(a, j + 1, n)
  OBVIOUS
<1>2. /\ a \in Seq(T) /\ n \in Nat /\ DOMAIN a = 1..n /\ i \in 0..n /\ j \in 0..n
      /\ \A x \in 1..n : a[x] \in T /\ a[x].t \in Int
      /\ \A x, y \in 1..n : x < y => a[x].t < a[y].t
  BY <1>1 DEF PointList
<1>3. /\ u \in Seq(T) /\ Len(u) = i /\ \A x \in 1..i : u[x] = a[x]
  BY <1>1, <1>2
<1>4. /\ v \in Seq(T) /\ Len(v) = n - j /\ \A x \in 1..(n - j) : v[x] = a[j + x]
  BY <1>1, <1>2
<1>5. PICK m : m = i + (n - j)
  OBVIOUS
<1>6. m \in Nat /\ i \in Nat /\ n - j \in Nat
  BY <1>2, <1>5
<1>7. /\ b \in Seq(T) /\ Len(b) = m
      /\ \A x \in 1..m : b[x] = IF x <= i THEN u[x] ELSE v[x - i]
  <2>1. b = u \o v
    BY <1>1 DEF Cut
  <2>2. /\ u \o v \in Seq(T) /\ Len(u \o v) = Len(u) + Len(v)
        /\ \A x \in 1..(Len(u) + Len(v)) : (u \o v)[x] = IF x <= Len(u) THEN u[x] ELSE v[x - Len(u)]
    BY <1>3, <1>4, JoinTwo
  <2> QED  BY <1>3, <1>4, <1>5, <2>1, <2>2
<1>8. ASSUME NEW x \in 1..m PROVE (x <= i => x \in 1..i /\ x \in 1..n) /\ (~(x <= i) => x - i \in 1..(n - j) /\ j + (x - i) \in 1..n)
  BY <1>2, <1>5
<1>9. \A x \in 1..m : /\ x <= i => b[x] = a[x] /\ x \in 1..n
                      /\ ~(x <= i) => b[x] = a[j + (x - i)] /\ j + (x - i) \in 1..n
  BY <1>3, <1>4, <1>7, <1>8
<1>10. \A x \in 1..m : b[x].t \in Int
  BY <1>2, <1>9
<1>11. ASSUME NEW x \in 1..m, NEW y \in 1..m, x < y PROVE b[x].t < b[y].t
  <2>1. CASE y <= i
    <3>1. x <= i
      BY <1>2, <1>11, <2>1
    <3>2. b[x] = a[x] /\ b[y] = a[y] /\ x \in 1..n /\ y \in 1..n
      BY <1>9, <2>1, <3>1
    <3> QED  BY <1>2, <1>11, <3>2
  <2>2. CASE x <= i /\ ~(y <= i)
    <3>1. x < j + (y - i)
      BY <1>2, <2>2
    <3> QED  BY <1>2, <1>9, <2>2, <3>1
  <2>3. CASE ~(x <= i)
    <3>1. ~(y <= i) /\ j + (x - i) < j + (y - i)
      BY <1>2, <1>11, <2>3
    <3> QED  BY <1>2, <1>9, <2>3, <3>1
  <2> QED  BY <1>2, <1>11, <2>1, <2>2, <2>3
<1>12. PointList(b, T)
  BY <1>7, <1>10, <1>11 DEF PointList
<1>120. DOMAIN b = 1..m
  <2>1. \A s \in Seq(T) : DOMAIN s = 1..Len(s)
    OBVIOUS
  <2> QED  BY <1>7, <2>1, Zenon
<1>13. ASSUME NEW p, p \in Range(b) PROVE \E x \in 1..n : p = a[x] /\ (x <= i \/ j < x)
  <2>1. PICK x \in 1..m : p = b[x]
    BY <1>120, <1>13 DEF Range
  <2>2. CASE x <= i
    BY <1>9, <2>1, <2>2
  <2>3. CASE ~(x <= i)
    <3>1. PICK y : y = j + (x - i)
      OBVIOUS
    <3>2. j < y /\ y \in 1..n /\ p = a[y]
      <4>1. y \in 1..n /\ p = a[y]
        BY <1>9, <2>1, <2>3, <3>1
      <4>2. x \in Int /\ i \in Int /\ j \in Int /\ i < x
        BY <1>2, <1>6, <2>3
      <4>3. j < y
        BY <3>1, <4>2
      <4> QED  BY <4>1, <4>3
    <3> QED  BY <3>2
  <2> QED  BY <2>2, <2>3
<1>14. ASSUME NEW x \in 1..n, x <= i \/ j < x PROVE a[x] \in Range(b)
  <2>1. CASE x <= i
    <3>1. x \in 1..m
      BY <1>2, <1>5, <2>1
    <3>2. b[x] = a[x]
      BY <1>9, <2>1, <3>1
    <3> QED  BY <1>120, <3>1, <3>2 DEF Range
  <2>2. CASE j < x
    <3>1. PICK y : y = (x - j) + i
      OBVIOUS
    <3>2. y \in 1..m /\ ~(y <= i) /\ j + (y - i) = x
      BY <1>2, <1>5, <2>2, <3>1
    <3>3. b[y] = a[x]
      BY <1>9, <3>2
    <3> QED  BY <1>120, <3>2, <3>3 DEF Range
  <2> QED  BY <1>14, <2>1, <2>2
<1> QED  BY <1>1, <1>12, <1>13, <1>14
(* Values.Exclude takes the points of a range away, and no others. *)
LEMMA ExcludeFacts ==
  ASSUME NEW T, NEW a, PointList(a, T), NEW min \in Int, NEW max \in Int, NEW b, b = Exclude(a, min, max)
  PROVE  /\ PointList(b, T)
         /\ \A p : p \in Range(b) <=> p \in Range(a) /\ ~(min <= p.t /\ p.t <= max)
<1>1. PICK n, r1, r2 : n = Len(a) /\ r1 = Search(a, min) /\ r2 = Search(a, max)
  OBVIOUS
<1>2. /\ a \in Seq(T) /\ n \in Nat /\ DOMAIN a = 1..n
      /\ \A x \in 1..n : a[x] \in T /\ a[x].t \in Int
      /\ \A x, y \in 1..n : x < y => a[x].t < a[y].t
  BY <1>1 DEF PointList
<1>3. \A p : p \in Range(a) <=> \E x \in 1..n : p = a[x]
  BY <1>2 DEF Range
<1>4. CASE a = <<>> \/ min > max \/ MaxTime(a) < min \/ MinTime(a) > max
  <2>1. b = a
    <3>1. FindRange(a, min, max) = <<-1, -1>>
      BY <1>4 DEF FindRange
    <3> QED  BY <3>1, Zenon DEF Exclude
  <2>2. ASSUME NEW x \in 1..n PROVE ~(min <= a[x].t /\ a[x].t <= max)
    <3>1. n # 0 /\ 1 \in 1..n /\ n \in 1..n /\ a # <<>>
      BY <1>2, <2>2
    <3>2. a[1].t \in Int /\ a[n].t \in Int /\ a[x].t \in Int
      BY <1>2, <3>1
    <3>3. (x = 1 \/ 1 < x) /\ (x = n \/ x < n)
      BY <1>2, <2>2
    <3>4. (x = 1 \/ a[1].t < a[x].t) /\ (x = n \/ a[x].t < a[n].t)
      BY <1>2, <3>1, <3>3
    <3>5. a[1].t <= a[x].t /\ a[x].t <= a[n].t
      BY <3>2, <3>4
    <3>6. MinTime(a) = a[1].t /\ MaxTime(a) = a[n].t
      BY <1>1 DEF MinTime, MaxTime
    <3> QED  BY <1>4, <3>1, <3>2, <3>5, <3>6
  <2> QED  BY <1>3, <2>1, <2>2
<1>5. CASE ~(a = <<>> \/ min > max \/ MaxTime(a) < min \/ MinTime(a) > max)
  <2>1. r1 \in 0..n /\ \A x \in 1..n : a[x].t < min <=> x <= r1
    BY <1>1, SearchTime
  <2>2. r2 \in 0..n /\ \A x \in 1..n : a[x].t < max <=> x <= r2
    BY <1>1, SearchTime
  <2>3. min <= max
    BY <1>5
  <2>4. PICK end : end = After(a, r2, max)
    OBVIOUS
  <2>5. end = IF r2 < n /\ a[r2 + 1].t = max THEN r2 + 1 ELSE r2
    BY <1>1, <2>4 DEF After
  <2>6. b = SubSeq(a, 0 + 1, r1) \o SubSeq(a, end + 1, n)
    <3>1. PICK u : u = FindRange(a, min, max)
      OBVIOUS
    <3>2. u = <<r1, r2>>
      BY <1>1, <1>5, <3>1 DEF FindRange
    <3>3. u # <<-1, -1>> /\ u[1] = r1 /\ u[2] = r2
      BY <2>1, <3>2
    <3>4. b = IF u = <<-1, -1>> THEN a ELSE Slice(a, 0, u[1]) \o Slice(a, After(a, u[2], max), Len(a))
      BY <3>1, Zenon DEF Exclude
    <3>5. b = Slice(a, 0, r1) \o Slice(a, end, n)
      BY <1>1, <2>4, <3>3, <3>4
    <3> QED  BY <3>5 DEF Slice
  <2>7. end \in 0..n /\ \A x \in 1..n : a[x].t <= max <=> x <= end
    <3>1. CASE r2 < n /\ a[r2 + 1].t = max
      <4>1. end = r2 + 1 /\ r2 + 1 \in 1..n
        BY <1>2, <2>2, <2>5, <3>1
      <4>2. ASSUME NEW x \in 1..n PROVE a[x].t <= max <=> x <= r2 + 1
        <5>1. x <= r2 \/ x = r2 + 1 \/ r2 + 1 < x
          BY <2>2
        <5>2. a[x].t \in Int
          BY <1>2
        <5>3. CASE x <= r2
          BY <2>2, <5>2, <5>3
        <5>4. CASE x = r2 + 1
          BY <2>2, <3>1, <5>4
        <5>5. CASE r2 + 1 < x
          <6>1. max < a[x].t
            BY <1>2, <3>1, <4>1, <5>5
          <6>2. ~(x <= r2 + 1)
            BY <2>2, <5>5
          <6> QED  BY <5>2, <6>1, <6>2
        <5> QED  BY <5>1, <5>3, <5>4, <5>5
      <4> QED  BY <1>2, <4>1, <4>2
    <3>2. CASE ~(r2 < n /\ a[r2 + 1].t = max)
      <4>1. end = r2
        BY <2>5, <3>2
      <4>2. ASSUME NEW x \in 1..n PROVE a[x].t <= max <=> x <= r2
        <5>1. a[x].t \in Int
          BY <1>2
        <5>2. CASE x <= r2
          BY <2>2, <5>1, <5>2
        <5>3. CASE ~(x <= r2)
          <6>1. r2 < n /\ r2 + 1 \in 1..n /\ (x = r2 + 1 \/ r2 + 1 < x)
            BY <1>2, <2>2, <5>3
          <6>2. a[r2 + 1].t # max /\ a[r2 + 1].t \in Int /\ ~(r2 + 1 <= r2)
            BY <1>2, <2>2, <3>2, <6>1
          <6>3. ~(a[r2 + 1].t < max)
            BY <2>2, <6>1, <6>2
          <6>4. max < a[r2 + 1].t
            BY <6>2, <6>3
          <6>5. x = r2 + 1 \/ a[r2 + 1].t < a[x].t
            BY <1>2, <6>1
          <6>6. max < a[x].t
            BY <5>1, <6>2, <6>4, <6>5
          <6> QED  BY <5>1, <5>3, <6>6
        <5> QED  BY <5>2, <5>3
      <4> QED  BY <2>2, <4>1, <4>2
    <3> QED  BY <3>1, <3>2
  <2>8. r1 <= end
    <3>1. CASE r1 = 0
      BY <2>7, <3>1
    <3>2. CASE r1 # 0
      <4>1. r1 \in 1..n /\ r1 <= r1
        BY <2>1, <3>2
      <4>2. a[r1].t < min /\ a[r1].t \in Int
        BY <1>2, <2>1, <4>1
      <4>3. a[r1].t <= max
        BY <2>3, <4>2
      <4> QED  BY <2>7, <4>1, <4>3
    <3> QED  BY <3>1, <3>2
  <2>9. b = Cut(a, r1, end)
    BY <1>1, <2>6 DEF Cut
  <2>10. r1 \in 0..Len(a) /\ end \in 0..Len(a)
    BY <1>1, <2>1, <2>7
  <2>11. /\ PointList(b, T)
         /\ \A p : p \in Range(b) <=> \E x \in 1..Len(a) : p = a[x] /\ (x <= r1 \/ end < x)
    BY <2>8, <2>9, <2>10, CutOut
  <2>12. \A x \in 1..n : (x <= r1 \/ end < x) <=> ~(min <= a[x].t /\ a[x].t <= max)
    <3> SUFFICES ASSUME NEW x \in 1..n PROVE (x <= r1 \/ end < x) <=> ~(min <= a[x].t /\ a[x].t <= max)
      OBVIOUS
    <3>1. a[x].t \in Int /\ x \in Int /\ end \in Int
      BY <1>2, <2>7
    <3>2. (a[x].t < min <=> x <= r1) /\ (a[x].t <= max <=> x <= end)
      BY <2>1, <2>7
    <3> QED  BY <3>1, <3>2
  <2>13. \A p : p \in Range(b) <=> \E x \in 1..n : p = a[x] /\ ~(min <= a[x].t /\ a[x].t <= max)
    BY <1>1, <2>11, <2>12
  <2> QED  BY <1>3, <2>11, <2>13
<1> QED  BY <1>4, <1>5

(* What the tombstones leave of a block. *)
Stripped(a, ts) ==
    LET left[i \in 0..Len(ts)] == IF i = 0 THEN a ELSE Exclude(left[i - 1], ts[i].min, ts[i].max)
    IN  left[Len(ts)]

LEMMA StripFacts ==
  ASSUME NEW T, NEW a, PointList(a, T), NEW ts, TombstoneList(ts), NEW b, b = Stripped(a, ts)
  PROVE  /\ PointList(b, T)
         /\ \A p : p \in Range(b) <=> p \in Range(a) /\ ~Deleted(ts, p.t)
<1> DEFINE n == Len(ts)
           X == {s \in Seq(T) : PointList(s, T)}
           body(i, s) == Exclude(s, ts[i].min, ts[i].max)
           h == [i \in 1..n |-> [s \in X |-> body(i, s)]]
           Def(f) == f = [i \in 0..n |-> IF i = 0 THEN a ELSE body(i, f[i - 1])]
           f == CHOOSE x : Def(x)
<1>1. n \in Nat /\ DOMAIN ts = 1..n /\ \A i \in 1..n : ts[i].min \in Int /\ ts[i].max \in Int
  <2>1. ts \in Seq(Span64)
    BY DEF TombstoneList
  <2>2. \A r \in Span64 : r.min \in Int /\ r.max \in Int
    BY TimeAssumption DEF Span64, Int64
  <2> QED  BY <2>1, <2>2
<1>2. b = f[n]
  BY DEF Stripped
<1> HIDE DEF n, body
<1>3. /\ a \in X
      /\ \A i \in 1..n, s \in X : body(i, s) \in X
      /\ \A i \in 1..n, s \in X : \A p : p \in Range(body(i, s)) <=> p \in Range(s) /\ ~HasTime(ts[i], p.t)
  <2>1. a \in X
    BY DEF PointList
  <2>2. ASSUME NEW i \in 1..n, NEW s \in X
        PROVE  /\ body(i, s) \in X
               /\ \A p : p \in Range(body(i, s)) <=> p \in Range(s) /\ ~HasTime(ts[i], p.t)
    <3>1. PICK min, max, c : min = ts[i].min /\ max = ts[i].max /\ c = body(i, s)
      OBVIOUS
    <3>2. c = Exclude(s, min, max) /\ min \in Int /\ max \in Int /\ PointList(s, T)
      BY <1>1, <3>1 DEF body
    <3>3. /\ PointList(c, T)
          /\ \A p : p \in Range(c) <=> p \in Range(s) /\ ~(min <= p.t /\ p.t <= max)
      BY <3>2, ExcludeFacts
    <3>4. c \in Seq(T)
      BY <3>3 DEF PointList
    <3>5. \A p \in Range(s) : p.t \in Int
      BY <3>2 DEF PointList, Range
    <3>6. \A p \in Range(s) : HasTime(ts[i], p.t) <=> (min <= p.t /\ p.t <= max)
      BY <3>1, <3>2, <3>5 DEF HasTime
    <3> QED  BY <3>1, <3>3, <3>4, <3>6
  <2> QED  BY <2>1, <2>2
<1> HIDE DEF X
<1>4. h \in [1..n -> [X -> X]] /\ \A m \in 1..n, p \in X : h[m][p] = body(m, p)
  BY <1>3
<1> HIDE DEF h
<1>5. PICK g \in [0..n -> X] : g[0] = a /\ \A m \in 1..n : g[m] = h[m][g[m - 1]]
  <2>1. \E g \in [0..n -> X] : Stepwise(g, n, a, h)
    BY <1>1, <1>3, <1>4, StepwiseFunction
  <2> QED  BY <2>1 DEF Stepwise
<1>6. \A m \in 1..n : m - 1 \in 0..n /\ g[m - 1] \in X /\ g[m] = body(m, g[m - 1])
  BY <1>1, <1>4, <1>5
<1>7. Def(g)
  BY <1>1, <1>5, <1>6
<1>8. Def(f)
  <2> HIDE DEF Def
  <2> QED  BY <1>7
<1> HIDE DEF f
<1>9. f[0] = a /\ \A m \in 1..n : f[m] = body(m, f[m - 1])
  <2>1. \A m \in 0..n : f[m] = (IF m = 0 THEN a ELSE body(m, f[m - 1]))
    BY <1>8
  <2> QED  BY <1>1, <2>1
<1> DEFINE Left(s, m) == s \in X /\ \A p : p \in Range(s) <=> p \in Range(a) /\ \A i \in 1..m : ~HasTime(ts[i], p.t)
           S == {m \in 0..n : Left(f[m], m)}
<1>10. 0 \in S
  <2>1. Left(a, 0)
    BY <1>3
  <2> HIDE DEF Left
  <2> QED  BY <1>1, <1>9, <2>1
<1>11. ASSUME NEW m \in 0..n, m \in S, m < n PROVE m + 1 \in S
  <2>1. PICK s, s2 : s = f[m] /\ s2 = f[m + 1]
    OBVIOUS
  <2>2. m + 1 \in 1..n /\ m + 1 \in 0..n /\ s2 = body(m + 1, s)
    BY <1>1, <1>9, <1>11, <2>1
  <2>3. s \in X /\ \A p : p \in Range(s) <=> p \in Range(a) /\ \A i \in 1..m : ~HasTime(ts[i], p.t)
    BY <1>11, <2>1
  <2>4. s2 \in X /\ \A p : p \in Range(s2) <=> p \in Range(s) /\ ~HasTime(ts[m + 1], p.t)
    BY <1>3, <2>2, <2>3
  <2>5. \A i : i \in 1..(m + 1) <=> i \in 1..m \/ i = m + 1
    OBVIOUS
  <2>6. Left(s2, m + 1)
    BY <2>3, <2>4, <2>5, Zenon
  <2> HIDE DEF Left
  <2> QED  BY <2>1, <2>2, <2>6
<1>12. n \in S
  <2> HIDE DEF S
  <2>1. \A m \in 0..n : m \in S
    BY <1>1, <1>10, <1>11, SetInduction
  <2> QED  BY <1>1, <2>1
<1>13. b \in X /\ \A p : p \in Range(b) <=> p \in Range(a) /\ \A i \in 1..n : ~HasTime(ts[i], p.t)
  BY <1>2, <1>12
<1>14. PointList(b, T)
  BY <1>13 DEF X
<1> QED  BY <1>1, <1>13, <1>14, Zenon DEF Deleted
-----------------------------------------------------------------------------
(* Reading through an index *)

(* The points of all inputs. *)
FilePoint == UNION {Range(b) : b \in InputBlocks}

(* readBlock: an entry leads to its block. *)
LEMMA EntryLeads ==
  ASSUME NEW x, NEW n, BlocksOK(x.blocks, n), NEW e, NEW b \in 1..Len(x.blocks), EntryOf(e, x.blocks, b)
  PROVE  BlockAt(x, e) = x.blocks[b].points /\ BlockAt(x, e) \in InputBlocks
<1>1. PICK bs, m : bs = x.blocks /\ m = Len(bs)
  OBVIOUS
<1>2. /\ bs \in Seq(FileBlock) /\ m \in Nat /\ DOMAIN bs = 1..m /\ b \in 1..m
      /\ \A i, k \in 1..m : i < k => bs[i].offset < bs[k].offset
  BY <1>1 DEF BlocksOK
<1>3. bs[b].offset = e.offset /\ bs[b].size = e.size
  BY <1>1 DEF EntryOf
<1>4. \A i \in 1..m : bs[i].offset \in Int /\ bs[i].points \in InputBlocks
  <2>1. \A y \in FileBlock : y.offset \in Int /\ y.points \in InputBlocks
    BY DEF FileBlock
  <2>2. \A i \in 1..m : bs[i] \in FileBlock
    BY <1>1, <1>2
  <2> QED  BY <2>1, <2>2, Zenon
<1>5. \A i \in 1..m : bs[i].offset = e.offset => i = b
  <2> SUFFICES ASSUME NEW i \in 1..m, bs[i].offset = e.offset, i # b PROVE FALSE
    OBVIOUS
  <2>1. i < b \/ b < i
    BY <1>2
  <2>2. bs[i].offset < bs[b].offset \/ bs[b].offset < bs[i].offset
    BY <1>2, <2>1
  <2>3. bs[i].offset \in Int /\ bs[b].offset \in Int
    BY <1>2, <1>4
  <2> QED  BY <1>3, <2>2, <2>3
<1> DEFINE at == {i \in DOMAIN bs : bs[i].offset = e.offset /\ bs[i].size = e.size}
<1>6. BlockAt(x, e) = IF at = {} THEN <<>> ELSE bs[CHOOSE i \in at : TRUE].points
  BY <1>1 DEF BlockAt
<1>7. b \in at /\ \A i \in at : i = b
  BY <1>2, <1>3, <1>5
<1> HIDE DEF at
<1>8. at # {} /\ (CHOOSE i \in at : TRUE) = b
  BY <1>7
<1>9. BlockAt(x, e) = bs[b].points
  BY <1>6, <1>8
<1> QED  BY <1>1, <1>2, <1>4, <1>9

(* The block of an entry has its times. *)
LEMMA BlockOfEntry ==
  ASSUME NEW file, FileOK(file), NEW x \in DOMAIN file.index, NEW j \in DOMAIN file.index[x].entries,
         NEW e, e = file.index[x].entries[j], NEW a, a = BlockAt(file, e)
  PROVE  /\ PointList(a, FilePoint) /\ a # <<>> /\ e.min \in Int /\ e.max \in Int
         /\ \A p \in Range(a) : p.t \in Int64 /\ HasTime(e, p.t)
<1>1. PICK bs, n, es : bs = file.blocks /\ n = Len(bs) /\ es = file.index[x].entries
  OBVIOUS
<1>2. /\ bs \in Seq(FileBlock) /\ n \in Nat /\ DOMAIN bs = 1..n
      /\ \A i, k \in 1..n : i < k => bs[i].offset < bs[k].offset
  BY <1>1 DEF FileOK, BlocksOK
<1>3. EntriesOK(es, bs)
  BY <1>1 DEF FileOK, SectionsOK
<1>4. PICK b \in 1..n : EntryOf(e, bs, b)
  <2>1. es \in Seq(FileEntry) /\ \A i \in 1..Len(es) : \E b \in 1..n : EntryOf(es[i], bs, b)
    BY <1>1, <1>3 DEF EntriesOK
  <2>2. j \in 1..Len(es) /\ e = es[j]
    BY <1>1, <2>1
  <2> QED  BY <2>1, <2>2
<1>5. /\ bs[b].offset = e.offset /\ bs[b].size = e.size
      /\ e.min = MinTime(bs[b].points) /\ e.max = MaxTime(bs[b].points)
  BY <1>4 DEF EntryOf
<1>9. a = bs[b].points /\ a \in InputBlocks
  <2>1. PICK k : BlocksOK(file.blocks, k)
    BY DEF FileOK
  <2> QED  BY <1>1, <1>4, <2>1, EntryLeads
<1>10. /\ Len(a) \in Nat \ {0} /\ DOMAIN a = 1..Len(a) /\ a # <<>>
       /\ \A y \in 1..Len(a) : a[y].t \in Int64
       /\ \A y, z \in 1..Len(a) : y < z => a[y].t < a[z].t
       /\ MinTime(a) \in Int64 /\ MaxTime(a) \in Int64
       /\ \A y \in 1..Len(a) : MinTime(a) <= a[y].t /\ a[y].t <= MaxTime(a)
  BY <1>9, BlockFacts
<1>11. \A t \in Int64 : t \in Int
  BY TimeAssumption DEF Int64
<1>12. e.min = MinTime(a) /\ e.max = MaxTime(a) /\ e.min \in Int /\ e.max \in Int
  BY <1>5, <1>9, <1>10, <1>11
<1>13. \A p \in Range(a) : p.t \in Int64 /\ HasTime(e, p.t)
  <2> SUFFICES ASSUME NEW y \in 1..Len(a) PROVE a[y].t \in Int64 /\ HasTime(e, a[y].t)
    BY <1>10 DEF Range
  <2>1. a[y].t \in Int /\ a[y].t \in Int64 /\ MinTime(a) <= a[y].t /\ a[y].t <= MaxTime(a)
    BY <1>10, <1>11
  <2> QED  BY <1>12, <2>1 DEF HasTime
<1>14. a \in Seq(FilePoint)
  <2>1. Range(a) \subseteq FilePoint
    BY <1>9, Zenon DEF FilePoint
  <2>2. a \in Seq(Range(a))
    <3>1. PICK s \in Inputs : \E i \in DOMAIN s : a = s[i].block
      BY <1>9 DEF InputBlocks
    <3> QED  BY <3>1, SSTAssumption DEF Ordered
  <2>3. \A S : S \subseteq FilePoint => \A u \in Seq(S) : u \in Seq(FilePoint)
    OBVIOUS
  <2> QED  BY <2>1, <2>2, <2>3, Zenon
<1>15. PointList(a, FilePoint)
  BY <1>10, <1>11, <1>14 DEF PointList
<1> QED  BY <1>10, <1>12, <1>13, <1>15

(* The elements of two sequences one after the other. *)
LEMMA RangeJoined ==
  ASSUME NEW T, NEW a \in Seq(T), NEW b \in Seq(T)
  PROVE  \A p : p \in Range(a \o b) <=> p \in Range(a) \/ p \in Range(b)
<1>1. PICK c, m, n : c = a \o b /\ m = Len(a) /\ n = Len(b)
  OBVIOUS
<1>2. /\ m \in Nat /\ n \in Nat /\ DOMAIN a = 1..m /\ DOMAIN b = 1..n /\ DOMAIN c = 1..(m + n)
      /\ \A i \in 1..(m + n) : c[i] = IF i <= m THEN a[i] ELSE b[i - m]
  BY <1>1, JoinTwo
<1>3. ASSUME NEW p, p \in Range(c) PROVE p \in Range(a) \/ p \in Range(b)
  <2>1. PICK i \in 1..(m + n) : p = c[i]
    BY <1>2, <1>3 DEF Range
  <2>2. CASE i <= m
    <3>1. i \in 1..m /\ p = a[i]
      BY <1>2, <2>1, <2>2
    <3> QED  BY <1>2, <3>1 DEF Range
  <2>3. CASE ~(i <= m)
    <3>1. i - m \in 1..n /\ p = b[i - m]
      BY <1>2, <2>1, <2>3
    <3> QED  BY <1>2, <3>1 DEF Range
  <2> QED  BY <2>2, <2>3
<1>4. ASSUME NEW p, p \in Range(a) PROVE p \in Range(c)
  <2>1. PICK i \in 1..m : p = a[i]
    BY <1>2, <1>4 DEF Range
  <2>2. i \in 1..(m + n) /\ c[i] = p
    BY <1>2, <2>1
  <2> QED  BY <1>2, <2>2 DEF Range
<1>5. ASSUME NEW p, p \in Range(b) PROVE p \in Range(c)
  <2>1. PICK i \in 1..n : p = b[i]
    BY <1>2, <1>5 DEF Range
  <2>2. PICK k : k = m + i
    OBVIOUS
  <2>3. k \in 1..(m + n) /\ ~(k <= m) /\ k - m = i
    BY <1>2, <2>2
  <2>4. c[k] = p
    BY <1>2, <2>1, <2>3
  <2> QED  BY <1>2, <2>3, <2>4 DEF Range
<1> QED  BY <1>1, <1>3, <1>4, <1>5

(* readAll, in parts. *)
Skips(e, ts) == \E i \in DOMAIN ts : ts[i].min <= e.min /\ ts[i].max >= e.max

ReadOf(file, ts, es) ==
    LET read[i \in 0..Len(es)] ==
            IF i = 0 THEN <<>>
            ELSE IF Skips(es[i], ts) THEN read[i - 1]
            ELSE read[i - 1] \o Stripped(BlockAt(file, es[i]), ts)
    IN  read[Len(es)]

LEMMA ReadAllParts ==
  ASSUME NEW file, NEW d, NEW key
  PROVE  ReadAll(file, d, key) = ReadOf(file, TombstoneRange(d, key), Entries(d, key))
  BY Zenon DEF ReadAll, ReadOf, Skips, Stripped

(* All points of the key's blocks are read, except those in a tombstone. *)
ReadsAll(out, file, ts, es) ==
    \A p : p \in Range(out) <=> ~Deleted(ts, p.t) /\ \E j \in DOMAIN es : p \in Range(BlockAt(file, es[j]))

LEMMA ReadFacts ==
  ASSUME NEW file, FileOK(file), NEW ts, TombstoneList(ts), NEW x \in DOMAIN file.index,
         NEW es, es = file.index[x].entries, NEW out, out = ReadOf(file, ts, es)
  PROVE  ReadsAll(out, file, ts, es)
<1>0. PICK T : T = FilePoint
  OBVIOUS
<1> DEFINE n == Len(es)
           X == Seq(T)
           part(i) == Stripped(BlockAt(file, es[i]), ts)
           body(i, s) == IF Skips(es[i], ts) THEN s ELSE s \o part(i)
           h == [i \in 1..n |-> [s \in X |-> body(i, s)]]
           Def(f) == f = [i \in 0..n |-> IF i = 0 THEN <<>> ELSE body(i, f[i - 1])]
           f == CHOOSE y : Def(y)
           Left(i, p) == p \in Range(BlockAt(file, es[i])) /\ ~Deleted(ts, p.t)
<1>1. n \in Nat /\ DOMAIN es = 1..n
  <2>1. EntriesOK(es, file.blocks)
    BY DEF FileOK, SectionsOK
  <2> QED  BY <2>1 DEF EntriesOK
<1>2. out = f[n]
  BY DEF ReadOf
<1> HIDE DEF n
<1>3. ASSUME NEW i \in 1..n
      PROVE  /\ part(i) \in X /\ (\A p : p \in Range(part(i)) <=> Left(i, p))
             /\ Skips(es[i], ts) => \A p : ~Left(i, p)
  <2>1. PICK a, b, e : e = es[i] /\ a = BlockAt(file, e) /\ b = Stripped(a, ts)
    OBVIOUS
  <2>2. /\ PointList(a, T) /\ e.min \in Int /\ e.max \in Int /\ \A p \in Range(a) : p.t \in Int64 /\ HasTime(e, p.t)
    BY <1>0, <1>1, <2>1, BlockOfEntry
  <2>3. PointList(b, T) /\ \A p : p \in Range(b) <=> p \in Range(a) /\ ~Deleted(ts, p.t)
    BY <2>1, <2>2, StripFacts
  <2>4. b \in X
    BY <2>3 DEF PointList
  <2>5. ASSUME Skips(e, ts), NEW p \in Range(a) PROVE Deleted(ts, p.t)
    <3>1. PICK k \in DOMAIN ts : ts[k].min <= e.min /\ ts[k].max >= e.max
      BY <2>5 DEF Skips
    <3>2. ts[k].min \in Int /\ ts[k].max \in Int
      <4>1. \A r \in Span64 : r.min \in Int /\ r.max \in Int
        BY TimeAssumption DEF Span64, Int64
      <4>2. ts[k] \in Span64
        BY DEF TombstoneList
      <4> QED  BY <4>1, <4>2
    <3>3. p.t \in Int /\ e.min <= p.t /\ e.max >= p.t
      BY <2>2, <2>5, TimeAssumption DEF Int64, HasTime
    <3>4. HasTime(ts[k], p.t)
      BY <2>2, <3>1, <3>2, <3>3 DEF HasTime
    <3> QED  BY <3>4 DEF Deleted
  <2> QED  BY <2>1, <2>3, <2>4, <2>5
<1> HIDE DEF part, Left
<1>4. /\ <<>> \in X
      /\ \A i \in 1..n, s \in X : body(i, s) \in X
      /\ \A i \in 1..n, s \in X : \A p : p \in Range(body(i, s)) <=> p \in Range(s) \/ Left(i, p)
  <2>1. <<>> \in X
    OBVIOUS
  <2>2. ASSUME NEW i \in 1..n, NEW s \in X
        PROVE  body(i, s) \in X /\ \A p : p \in Range(body(i, s)) <=> p \in Range(s) \/ Left(i, p)
    <3>1. CASE Skips(es[i], ts)
      BY <1>3, <3>1
    <3>2. CASE ~Skips(es[i], ts)
      <4>1. PICK c : c = part(i)
        OBVIOUS
      <4>2. c \in X /\ \A p : p \in Range(c) <=> Left(i, p)
        BY <1>3, <4>1
      <4>3. s \o c \in X /\ \A p : p \in Range(s \o c) <=> p \in Range(s) \/ p \in Range(c)
        BY <4>2, JoinTwo, RangeJoined
      <4>4. body(i, s) = s \o c
        BY <3>2, <4>1
      <4> QED  BY <4>2, <4>3, <4>4, Zenon
    <3> QED  BY <3>1, <3>2
  <2> QED  BY <2>1, <2>2
<1> HIDE DEF body, X
<1>5. h \in [1..n -> [X -> X]] /\ \A m \in 1..n, s \in X : h[m][s] = body(m, s)
  BY <1>4
<1> HIDE DEF h
<1>6. PICK g \in [0..n -> X] : g[0] = <<>> /\ \A m \in 1..n : g[m] = h[m][g[m - 1]]
  <2>1. \E g \in [0..n -> X] : Stepwise(g, n, <<>>, h)
    BY <1>1, <1>4, <1>5, StepwiseFunction
  <2> QED  BY <2>1 DEF Stepwise
<1>7. \A m \in 1..n : m - 1 \in 0..n /\ g[m - 1] \in X /\ g[m] = body(m, g[m - 1])
  BY <1>1, <1>5, <1>6
<1>8. Def(g)
  BY <1>1, <1>6, <1>7
<1>9. Def(f)
  <2> HIDE DEF Def
  <2> QED  BY <1>8
<1> HIDE DEF f
<1>10. f[0] = <<>> /\ \A m \in 1..n : f[m] = body(m, f[m - 1])
  <2>1. \A m \in 0..n : f[m] = (IF m = 0 THEN <<>> ELSE body(m, f[m - 1]))
    BY <1>9
  <2> QED  BY <1>1, <2>1
<1> DEFINE Good(s, m) == s \in X /\ \A p : p \in Range(s) <=> \E i \in 1..m : Left(i, p)
           S == {m \in 0..n : Good(f[m], m)}
<1>11. 0 \in S
  <2>1. \A p : p \notin Range(<<>>)
    BY DEF Range
  <2>2. Good(<<>>, 0)
    BY <1>4, <2>1
  <2> HIDE DEF Good
  <2> QED  BY <1>1, <1>10, <2>2
<1>12. ASSUME NEW m \in 0..n, m \in S, m < n PROVE m + 1 \in S
  <2>1. PICK s, s2 : s = f[m] /\ s2 = f[m + 1]
    OBVIOUS
  <2>2. m + 1 \in 1..n /\ m + 1 \in 0..n /\ s2 = body(m + 1, s)
    BY <1>1, <1>10, <1>12, <2>1
  <2>3. s \in X /\ \A p : p \in Range(s) <=> \E i \in 1..m : Left(i, p)
    BY <1>12, <2>1
  <2>4. s2 \in X /\ \A p : p \in Range(s2) <=> p \in Range(s) \/ Left(m + 1, p)
    BY <1>4, <2>2, <2>3
  <2>5. \A i : i \in 1..(m + 1) <=> i \in 1..m \/ i = m + 1
    OBVIOUS
  <2>6. Good(s2, m + 1)
    BY <2>3, <2>4, <2>5, Zenon
  <2> HIDE DEF Good
  <2> QED  BY <2>1, <2>2, <2>6
<1>13. n \in S
  <2> HIDE DEF S
  <2>1. \A m \in 0..n : m \in S
    BY <1>1, <1>11, <1>12, SetInduction
  <2> QED  BY <1>1, <2>1
<1>14. \A p : p \in Range(out) <=> \E i \in 1..n : Left(i, p)
  BY <1>2, <1>13
<1> QED  BY <1>1, <1>14, Zenon DEF Left, ReadsAll
(* The entries found for a key of an open index are those of its section in the file. *)
LEMMA EntriesOfFile ==
  ASSUME NEW file, FileOK(file), NEW d, IndexOK(d), d.b = file.index, NEW k \in Nat
  PROVE  Entries(d, k) = <<>> \/ \E x \in DOMAIN file.index : file.index[x].key = k /\ Entries(d, k) = file.index[x].entries
<1>1. CASE \A i \in 1..Len(d.offsets) : Section(d, i).key # k
  BY <1>1, EntriesUnlisted
<1>2. CASE \E i \in 1..Len(d.offsets) : Section(d, i).key = k
  <2>1. PICK i \in 1..Len(d.offsets) : Section(d, i).key = k
    BY <1>2
  <2>2. Entries(d, k) = Section(d, i).entries
    BY <2>1, EntriesListed
  <2>3. PICK x \in DOMAIN d.b : Section(d, i) = d.b[x]
    BY SectionOfFile
  <2> QED  BY <2>1, <2>2, <2>3
<1> QED  BY <1>1, <1>2

(* ... and an index has no more than one section of a key. *)
LEMMA EntriesOfKey ==
  ASSUME NEW file, FileOK(file), NEW d, IndexOK(d), d.b = file.index, NEW x \in DOMAIN file.index,
         NEW k, k = file.index[x].key, Entries(d, k) # <<>>
  PROVE  Entries(d, k) = file.index[x].entries
<1>1. /\ Len(file.index) \in Nat /\ DOMAIN file.index = 1..Len(file.index)
      /\ \A i \in 1..Len(file.index) : file.index[i].key \in Nat
      /\ \A i, j \in 1..Len(file.index) : i < j => file.index[i].key < file.index[j].key
  BY DEF FileOK, SectionsOK
<1>2. k \in Nat
  BY <1>1
<1>3. PICK y \in DOMAIN file.index : file.index[y].key = k /\ Entries(d, k) = file.index[y].entries
  BY <1>2, EntriesOfFile
<1>4. y = x
  <2> SUFFICES ASSUME y # x PROVE FALSE
    OBVIOUS
  <2>1. x \in 1..Len(file.index) /\ y \in 1..Len(file.index) /\ (x < y \/ y < x)
    BY <1>1
  <2>2. file.index[x].key < file.index[y].key \/ file.index[y].key < file.index[x].key
    BY <1>1, <2>1
  <2> QED  BY <1>2, <1>3, <2>2
<1> QED  BY <1>3, <1>4

(* Where a point may be, its key has entries. *)
LEMMA HeldEntries ==
  ASSUME NEW d, IndexOK(d), NEW k \in Nat, NEW t, MayHold(d, k, t)
  PROVE  Entries(d, k) # <<>>
<1>1. ContainsValue(d, k, t)
  BY ContainsMeaning
<1>2. Entry(d, k, t) # {}
  BY <1>1 DEF ContainsValue
<1>3. PICK es : es = Entries(d, k)
  OBVIOUS
<1>4. CASE es = <<>>
  <2> DEFINE at == {i \in DOMAIN es : HasTime(es[i], t)}
  <2>1. Entry(d, k, t) = IF at = {} THEN {} ELSE {es[Min(at)]}
    BY <1>3 DEF Entry
  <2>2. at = {}
    BY <1>4
  <2> HIDE DEF at
  <2> QED  BY <1>2, <2>1, <2>2
<1> QED  BY <1>3, <1>4

(* A read returns a point of the file if and only if the index may hold its time. *)
LEMMA ReadHeld ==
  ASSUME NEW file, FileOK(file), NEW d, IndexOK(d), d.b = file.index, NEW x \in DOMAIN file.index,
         NEW k, k = file.index[x].key, NEW j \in DOMAIN file.index[x].entries,
         NEW p \in Range(BlockAt(file, file.index[x].entries[j]))
  PROVE  /\ k \in Nat /\ p.t \in Int64 /\ HasTime(file.index[x].entries[j], p.t)
         /\ p \in Range(ReadAll(file, d, k)) <=> MayHold(d, k, p.t)
<1>1. PICK es, e, a, ts, out : /\ es = file.index[x].entries /\ e = es[j] /\ a = BlockAt(file, e)
                               /\ ts = TombstoneRange(d, k) /\ out = ReadAll(file, d, k)
  OBVIOUS
<1>2. p.t \in Int64 /\ HasTime(e, p.t)
  BY <1>1, BlockOfEntry
<1>3. k \in Nat /\ DOMAIN es = 1..Len(es) /\ Len(es) \in Nat
  <2>1. k \in Nat /\ EntriesOK(es, file.blocks)
    BY <1>1 DEF FileOK, SectionsOK
  <2> QED  BY <2>1 DEF EntriesOK
<1>4. TombstoneList(ts)
  BY <1>1, RangeSorted DEF IndexOK
<1>5. out = ReadOf(file, ts, Entries(d, k))
  BY <1>1, ReadAllParts
<1>6. CASE Entries(d, k) = <<>>
  <2>1. ~MayHold(d, k, p.t)
    BY <1>3, <1>6, HeldEntries
  <2>2. out = <<>>
    <3> DEFINE es0 == <<>>
               Def(f) == f = [i \in 0..Len(es0) |-> IF i = 0 THEN <<>>
                                 ELSE IF Skips(es0[i], ts) THEN f[i - 1]
                                 ELSE f[i - 1] \o Stripped(BlockAt(file, es0[i]), ts)]
               g == [i \in 0..0 |-> <<>>]
    <3>1. out = (CHOOSE f : Def(f))[Len(es0)]
      BY <1>5, <1>6 DEF ReadOf
    <3>2. Len(es0) = 0
      OBVIOUS
    <3>3. Def(g)
      BY <3>2
    <3>4. Def(CHOOSE f : Def(f))
      <4> HIDE DEF Def
      <4> QED  BY <3>3
    <3>5. PICK f : f = CHOOSE y : Def(y)
      OBVIOUS
    <3>6. Def(f)
      BY <3>4, <3>5
    <3>7. f[0] = <<>>
      BY <3>2, <3>6
    <3> QED  BY <3>1, <3>2, <3>5, <3>7
  <2>3. p \notin Range(out)
    BY <2>2 DEF Range
  <2> QED  BY <1>1, <1>2, <1>3, <2>1, <2>3
<1>7. CASE Entries(d, k) # <<>>
  <2>1. Entries(d, k) = es
    BY <1>1, <1>7, EntriesOfKey
  <2>2. out = ReadOf(file, ts, es)
    BY <1>5, <2>1
  <2>3. p \in Range(out) <=> ~Deleted(ts, p.t) /\ \E i \in DOMAIN es : p \in Range(BlockAt(file, es[i]))
    <3>1. es = file.index[x].entries
      BY <1>1
    <3>2. ReadsAll(out, file, ts, es)
      BY <1>4, <2>2, <3>1, ReadFacts
    <3> QED  BY <3>2, Zenon DEF ReadsAll
  <2>4. p \in Range(out) <=> ~Deleted(ts, p.t)
    BY <1>1, <2>3
  <2>5. Indexed(d, k, p.t)
    <3>1. PICK i \in 1..Len(d.offsets) : Section(d, i).key = k
      BY <1>3, <1>7, EntriesUnlisted
    <3>2. Section(d, i).entries = es
      BY <2>1, <3>1, EntriesListed
    <3> QED  BY <1>1, <1>2, <3>1, <3>2 DEF Indexed
  <2> QED  BY <1>1, <1>2, <1>3, <2>4, <2>5 DEF MayHold
<1> QED  BY <1>6, <1>7
(* FileStore.Read: the block of one file that has the time. *)
LEMMA ReadHit ==
  ASSUME NEW file, FileOK(file), NEW d, IndexOK(d), d.b = file.index, NEW x \in DOMAIN file.index,
         NEW k, k = file.index[x].key, k \in Nat, NEW j \in DOMAIN file.index[x].entries,
         NEW e, e = file.index[x].entries[j], NEW t \in Int64, HasTime(e, t), MayHold(d, k, t)
  PROVE  Read(file, d, k, t) = BlockAt(file, e)
<1>1. PICK es : es = file.index[x].entries
  OBVIOUS
<1>2. Entries(d, k) = es
  BY <1>1, HeldEntries, EntriesOfKey
<1>3. /\ Len(es) \in Nat /\ DOMAIN es = 1..Len(es)
      /\ \A i \in 1..Len(es) : es[i].min \in Int /\ es[i].max \in Int
      /\ \A i, m \in 1..Len(es) : i < m => es[i].max < es[m].min
  <2>1. EntriesOK(es, file.blocks)
    BY <1>1 DEF FileOK, SectionsOK
  <2>2. es \in Seq(FileEntry) /\ \A i, m \in 1..Len(es) : i < m => es[i].max < es[m].min
    BY <2>1 DEF EntriesOK
  <2>3. \A y \in FileEntry : y.min \in Int /\ y.max \in Int
    BY TimeAssumption DEF FileEntry, Int64
  <2>4. Len(es) \in Nat /\ DOMAIN es = 1..Len(es) /\ \A i \in 1..Len(es) : es[i] \in FileEntry
    BY <2>2
  <2> QED  BY <2>2, <2>3, <2>4, Zenon
<1>4. t \in Int /\ j \in 1..Len(es) /\ e = es[j]
  BY <1>1, <1>3, TimeAssumption DEF Int64
<1>5. \A i \in DOMAIN es : HasTime(es[i], t) <=> i = j
  <2> SUFFICES ASSUME NEW i \in 1..Len(es), HasTime(es[i], t), i # j PROVE FALSE
    BY <1>3, <1>4
  <2>1. i < j \/ j < i
    BY <1>3, <1>4
  <2>2. es[i].max < es[j].min \/ es[j].max < es[i].min
    BY <1>3, <1>4, <2>1
  <2>3. es[i].min <= t /\ es[i].max >= t /\ es[j].min <= t /\ es[j].max >= t
    BY <1>4 DEF HasTime
  <2>4. PICK a, b, c, m : a = es[i].min /\ b = es[i].max /\ c = es[j].min /\ m = es[j].max
    OBVIOUS
  <2>5. a \in Int /\ b \in Int /\ c \in Int /\ m \in Int
    BY <1>3, <1>4, <2>4
  <2>6. (b < c \/ m < a) /\ a <= t /\ b >= t /\ c <= t /\ m >= t
    BY <2>2, <2>3, <2>4
  <2> QED  BY <1>4, <2>5, <2>6
<1>6. Entry(d, k, t) = {e}
  <2> DEFINE at == {i \in DOMAIN es : HasTime(es[i], t)}
  <2>1. Entry(d, k, t) = IF at = {} THEN {} ELSE {es[Min(at)]}
    BY <1>2 DEF Entry
  <2>2. at = {j}
    BY <1>3, <1>4, <1>5
  <2> HIDE DEF at
  <2>3. Min(at) = j
    BY <1>3, <1>4, <2>2 DEF Min
  <2> QED  BY <1>4, <2>1, <2>2, <2>3
<1>7. (CHOOSE y \in {e} : TRUE) = e /\ {e} # {}
  OBVIOUS
<1> QED  BY <1>6, <1>7 DEF Read

(* A file that answers has an entry of the key with the time. *)
LEMMA ReadFound ==
  ASSUME NEW file, FileOK(file), NEW d, IndexOK(d), d.b = file.index, NEW k \in Nat, NEW t,
         Read(file, d, k, t) # <<>>
  PROVE  \E x \in DOMAIN file.index : /\ file.index[x].key = k
                                     /\ \E j \in DOMAIN file.index[x].entries : HasTime(file.index[x].entries[j], t)
<1>1. PICK es : es = Entries(d, k)
  OBVIOUS
<1>2. Entry(d, k, t) # {}
  BY DEF Read
<1>3. PICK j \in DOMAIN es : HasTime(es[j], t)
  <2> DEFINE at == {i \in DOMAIN es : HasTime(es[i], t)}
  <2>1. Entry(d, k, t) = IF at = {} THEN {} ELSE {es[Min(at)]}
    BY <1>1 DEF Entry
  <2>2. at # {}
    <3> HIDE DEF at
    <3> QED  BY <1>2, <2>1
  <2> QED  BY <2>2
<1>4. es # <<>>
  BY <1>3
<1>5. PICK x \in DOMAIN file.index : file.index[x].key = k /\ es = file.index[x].entries
  BY <1>1, <1>4, EntriesOfFile
<1> QED  BY <1>3, <1>5

(* No two files have a time of a key. *)
LEMMA OneFileHas ==
  ASSUME WriteInv, NEW f \in DOMAIN files, NEW g \in DOMAIN files, NEW k, NEW t \in Int64,
         InFile(files[f], k, t), InFile(files[g], k, t)
  PROVE  f = g
<1>1. ASSUME NEW a \in DOMAIN files, NEW b \in DOMAIN files, a < b, InFile(files[a], k, t), InFile(files[b], k, t)
      PROVE  FALSE
  <2>1. PICK fa, fb : fa = files[a] /\ fb = files[b]
    OBVIOUS
  <2>2. FileOK(fa) /\ FileOK(fb) /\ PrecedeAll(fa.index, fb.index)
    BY <1>1, <2>1 DEF WriteInv
  <2>30. PICK x \in DOMAIN fa.index :
            fa.index[x].key = k /\ \E i \in DOMAIN fa.index[x].entries : HasTime(fa.index[x].entries[i], t)
    BY <1>1, <2>1 DEF InFile
  <2>3. PICK i \in DOMAIN fa.index[x].entries : fa.index[x].key = k /\ HasTime(fa.index[x].entries[i], t)
    BY <2>30
  <2>40. PICK y \in DOMAIN fb.index :
            fb.index[y].key = k /\ \E j \in DOMAIN fb.index[y].entries : HasTime(fb.index[y].entries[j], t)
    BY <1>1, <2>1 DEF InFile
  <2>4. PICK j \in DOMAIN fb.index[y].entries : fb.index[y].key = k /\ HasTime(fb.index[y].entries[j], t)
    BY <2>40
  <2>5. PICK ea, eb : ea = fa.index[x].entries[i] /\ eb = fb.index[y].entries[j]
    OBVIOUS
  <2>6. Precede(fa.index, fb.index[y].key, eb.min)
    BY <2>2, <2>5 DEF PrecedeAll
  <2>7. k < k \/ ea.max < eb.min
    BY <2>3, <2>4, <2>5, <2>6 DEF Precede
  <2>8. k \in Nat
    BY <2>2, <2>3 DEF FileOK, SectionsOK
  <2>9. ea.min \in Int /\ ea.max \in Int /\ eb.min \in Int /\ eb.max \in Int
    BY <2>2, <2>5, BlockOfEntry
  <2>10. ea.max >= t /\ eb.min <= t /\ t \in Int
    BY <2>3, <2>4, <2>5, TimeAssumption DEF HasTime, Int64
  <2> QED  BY <2>7, <2>8, <2>9, <2>10
<1>2. f \in Int /\ g \in Int
  BY DEF WriteInv
<1> QED  BY <1>1, <1>2

(* Where a point of a file lies. *)
LEMMA PointPlace ==
  ASSUME NEW f, NEW i \in DOMAIN files[f].index, NEW p \in Points(f, i), FileOK(files[f])
  PROVE  \E j \in DOMAIN files[f].index[i].entries : p \in Range(BlockAt(files[f], files[f].index[i].entries[j]))
  BY DEF Points, Range

(* What every open file does with each of its points. *)
LEMMA PointHeld ==
  ASSUME WriteInv, DeleteInv, idx # <<>>, NEW f \in DOMAIN files, NEW i \in DOMAIN files[f].index,
         NEW p \in Points(f, i), NEW k, k = files[f].index[i].key
  PROVE  /\ k \in Nat /\ p.t \in Int64
         /\ Covered(k, p.t, asked) => ~MayHold(idx[f], k, p.t)
         /\ ~Covered(k, p.t, requested) => MayHold(idx[f], k, p.t)
         /\ ContainsValue(idx[f], k, p.t) <=> MayHold(idx[f], k, p.t)
         /\ p \in Range(ReadAll(files[f], idx[f], k)) <=> MayHold(idx[f], k, p.t)
         /\ MayHold(idx[f], k, p.t) => p \in Range(StoreRead(k, p.t))
<1>1. PICK file, d, t : file = files[f] /\ d = idx[f] /\ t = p.t
  OBVIOUS
<1>2. FileOK(file) /\ FileHeld(d, file, requested, asked)
  BY <1>1 DEF WriteInv, DeleteInv, Held
<1>3. IndexOK(d) /\ d.b = file.index
  BY <1>2 DEF FileHeld
<1>4. PICK j \in DOMAIN file.index[i].entries : p \in Range(BlockAt(file, file.index[i].entries[j]))
  BY <1>1, <1>2, PointPlace
<1>5. PICK e : e = file.index[i].entries[j]
  OBVIOUS
<1>6. /\ k \in Nat /\ t \in Int64 /\ HasTime(e, t)
      /\ p \in Range(ReadAll(file, d, k)) <=> MayHold(d, k, t)
  BY <1>1, <1>2, <1>3, <1>4, <1>5, ReadHeld
<1>7. InFile(file, k, t)
  BY <1>1, <1>5, <1>6 DEF InFile
<1>8. (~Covered(k, t, requested) => MayHold(d, k, t)) /\ (MayHold(d, k, t) => ~Covered(k, t, asked))
  BY <1>2, <1>6, <1>7 DEF FileHeld
<1>9. ContainsValue(d, k, t) <=> MayHold(d, k, t)
  BY <1>3, <1>6, ContainsMeaning
<1>10. ASSUME MayHold(d, k, t) PROVE p \in Range(StoreRead(k, t))
  <2> DEFINE hits == {g \in DOMAIN idx : Read(files[g], idx[g], k, t) # <<>>}
             first == CHOOSE x \in hits : \A y \in hits : x <= y
  <2>1. StoreRead(k, t) = IF hits = {} THEN <<>> ELSE Read(files[first], idx[first], k, t)
    BY DEF StoreRead
  <2>2. Read(file, d, k, t) = BlockAt(file, e)
    BY <1>1, <1>2, <1>3, <1>5, <1>6, <1>10, ReadHit
  <2>3. BlockAt(file, e) # <<>>
    <3>1. PICK a : a = BlockAt(file, e)
      OBVIOUS
    <3> QED  BY <1>1, <1>2, <1>5, <3>1, BlockOfEntry
  <2>4. DOMAIN idx = DOMAIN files /\ \A g \in DOMAIN files : FileHeld(idx[g], files[g], requested, asked)
    BY DEF DeleteInv, Held
  <2>5. f \in hits
    BY <1>1, <2>2, <2>3, <2>4
  <2>6. ASSUME NEW g \in hits PROVE g = f
    <3>1. g \in DOMAIN files /\ Read(files[g], idx[g], k, t) # <<>>
      BY <2>4
    <3>2. PICK fg, dg : fg = files[g] /\ dg = idx[g]
      OBVIOUS
    <3>3. FileOK(fg) /\ IndexOK(dg) /\ dg.b = fg.index /\ Read(fg, dg, k, t) # <<>>
      BY <2>4, <3>1, <3>2 DEF WriteInv, FileHeld
    <3>4. InFile(fg, k, t)
      BY <1>6, <3>3, ReadFound DEF InFile
    <3> QED  BY <1>1, <1>6, <1>7, <3>1, <3>2, <3>4, OneFileHas
  <2> HIDE DEF hits
  <2>7. f \in Int
    BY DEF WriteInv
  <2>8. hits = {f} /\ first = f
    <3>1. hits = {f}
      BY <2>5, <2>6
    <3>2. f <= f
      BY <2>7
    <3> QED  BY <3>1, <3>2
  <2>9. StoreRead(k, t) = Read(files[f], idx[f], k, t)
    BY <2>1, <2>8
  <2> QED  BY <1>1, <1>4, <1>5, <2>2, <2>9
<1> QED  BY <1>1, <1>6, <1>8, <1>9, <1>10

(* Once a delete has returned without an error ContainsValue and ReadAll find no point it was
   asked to take away, however deletes, failures and restarts follow each other: SSTFile's
   DeletedGone.  SSTReader.Read and FileStore.Read do not look at tombstones and are not meant. *)
THEOREM DeletesTakeAway == Spec => []DeletedGone
<1>1. Inv => DeletedGone
  <2> SUFFICES ASSUME Inv, idx # <<>>, NEW f \in DOMAIN files, NEW i \in DOMAIN files[f].index,
                      NEW p \in Points(f, i), NEW k, k = files[f].index[i].key, Covered(k, p.t, asked)
               PROVE  /\ ~ContainsValue(idx[f], k, p.t)
                      /\ p \notin Range(ReadAll(files[f], idx[f], k))
    BY DEF DeletedGone
  <2>1. WriteInv /\ DeleteInv
    BY DEF Inv
  <2> QED  BY <2>1, PointHeld
<1> QED  BY <1>1, FileInvariant, PTL

(* A point that no delete was asked to take away is found by every read at any time, while
   deletes of other ranges and keys are recorded, fail, are applied and recovered: SSTFile's
   OthersKept. *)
THEOREM DeletesSpareOthers == Spec => []OthersKept
<1>1. Inv => OthersKept
  <2> SUFFICES ASSUME Inv, idx # <<>>, NEW f \in DOMAIN files, NEW i \in DOMAIN files[f].index,
                      NEW p \in Points(f, i), NEW k, k = files[f].index[i].key, ~Covered(k, p.t, requested)
               PROVE  /\ ContainsValue(idx[f], k, p.t)
                      /\ p \in Range(ReadAll(files[f], idx[f], k))
                      /\ p \in Range(StoreRead(k, p.t))
    BY DEF OthersKept
  <2>1. WriteInv /\ DeleteInv
    BY DEF Inv
  <2> QED  BY <2>1, PointHeld
<1> QED  BY <1>1, FileInvariant, PTL
-----------------------------------------------------------------------------
(* What was written is what the indexes lead to *)

(* What a section leads to, through the blocks of a writer or of a file x. *)
BlocksOf(x, s) == [i \in DOMAIN s.entries |-> [key |-> s.key, block |-> BlockAt(x, s.entries[i])]]

BlocksOfAll(x, secs) == [i \in DOMAIN secs |-> BlocksOf(x, secs[i])]

All(ss) == Joined(ss)[Len(ss)]

FilePair == [key : Nat, block : InputBlocks]

(* One more sequence. *)
LEMMA AllAppend ==
  ASSUME NEW T, NEW ss \in Seq(Seq(T)), NEW a \in Seq(T)
  PROVE  All(Append(ss, a)) = All(ss) \o a /\ All(ss) \in Seq(T) /\ All(Append(ss, a)) \in Seq(T)
<1>1. PICK n, tt : n = Len(ss) /\ tt = Append(ss, a)
  OBVIOUS
<1>2. PICK X : X = Seq(T)
  OBVIOUS
<1>3. /\ n \in Nat /\ tt \in Seq(X) /\ Len(tt) = n + 1 /\ tt[n + 1] = a
      /\ \A i \in 1..n : tt[i] = ss[i]
  <2>1. ss \in Seq(X) /\ a \in X
    BY <1>2
  <2> QED  BY <1>1, <2>1, Appended
<1>4. /\ \A i \in 1..Len(ss) : ss[i] \in Seq(T)
      /\ \A i \in 1..Len(tt) : tt[i] \in Seq(T)
  BY <1>2, <1>3
<1>5. /\ n \in 0..Len(ss) /\ n + 1 \in 1..Len(tt) /\ (n + 1) - 1 = n /\ Len(ss) \in Nat /\ Len(tt) \in Nat
      /\ Len(ss) <= Len(tt) /\ n + 1 \in 0..Len(tt)
  BY <1>1, <1>3
<1>6. Joined(ss)[n] = Joined(tt)[n]
  <2>1. \A i \in 1..Len(ss) : ss[i] = tt[i]
    BY <1>1, <1>3
  <2>2. \A i \in 0..Len(ss) : Joined(ss)[i] = Joined(tt)[i]
    BY <1>4, <1>5, <2>1, JoinedSame
  <2> QED  BY <1>5, <2>2
<1>7. Joined(tt)[n + 1] = Joined(tt)[(n + 1) - 1] \o tt[n + 1] /\ Joined(tt)[n + 1] \in Seq(T)
  BY <1>4, <1>5, JoinedFacts
<1>8. Joined(ss)[n] \in Seq(T)
  BY <1>4, <1>5, JoinedFacts
<1>9. Joined(tt)[n + 1] = Joined(ss)[n] \o a
  BY <1>3, <1>5, <1>6, <1>7
<1> QED  BY <1>1, <1>3, <1>7, <1>8, <1>9 DEF All

LEMMA AllNone ==
  All(<<>>) = <<>>
<1>1. Len(<<>>) = 0 /\ \A i \in 1..0 : <<>>[i] \in Seq(Nat)
  OBVIOUS
<1>2. PICK ss : ss = <<>>
  OBVIOUS
<1>3. Joined(ss)[0] = <<>>
  <2>1. Len(ss) \in Nat /\ \A i \in 1..Len(ss) : ss[i] \in Seq(Nat)
    BY <1>1, <1>2
  <2> QED  BY <2>1, JoinedFacts
<1> QED  BY <1>1, <1>2, <1>3 DEF All

(* A section leads to a block for each of its entries. *)
LeadsTo(x, s, g) ==
    /\ g \in Seq(FilePair) /\ Len(s.entries) \in Nat \ {0} /\ Len(g) = Len(s.entries)
    /\ \A j \in 1..Len(s.entries) : g[j] = [key |-> s.key, block |-> BlockAt(x, s.entries[j])]

LEMMA BlocksOfFacts ==
  ASSUME NEW x, NEW n, BlocksOK(x.blocks, n), NEW s, s.key \in Nat, EntriesOK(s.entries, x.blocks),
         NEW g, g = BlocksOf(x, s)
  PROVE  LeadsTo(x, s, g)
<1>1. PICK es, l, h : /\ es = s.entries /\ l = Len(es)
                      /\ h = [j \in 1..l |-> [key |-> s.key, block |-> BlockAt(x, es[j])]]
  OBVIOUS
<1>2. /\ es \in Seq(FileEntry) /\ es # <<>>
      /\ \A j \in 1..l : \E b \in 1..Len(x.blocks) : EntryOf(es[j], x.blocks, b)
  BY <1>1 DEF EntriesOK
<1>3. l \in Nat \ {0} /\ DOMAIN es = 1..l
  BY <1>1, <1>2
<1>4. \A j \in 1..l : BlockAt(x, es[j]) \in InputBlocks
  BY <1>2, EntryLeads
<1>5. \A j \in 1..l : [key |-> s.key, block |-> BlockAt(x, es[j])] \in FilePair
  BY <1>4 DEF FilePair
<1>6. h \in [1..l -> FilePair] /\ \A j \in 1..l : h[j] = [key |-> s.key, block |-> BlockAt(x, es[j])]
  BY <1>1, <1>5
<1>7. \A X : \A u \in [1..l -> X] : u \in Seq(X) /\ Len(u) = l
  BY <1>3
<1>8. h \in Seq(FilePair) /\ Len(h) = l
  BY <1>6, <1>7, Zenon
<1>9. g = h
  BY <1>1, <1>3 DEF BlocksOf
<1> QED  BY <1>1, <1>3, <1>6, <1>8, <1>9 DEF LeadsTo

LEMMA BlocksOfAllFacts ==
  ASSUME NEW x, NEW n, BlocksOK(x.blocks, n), NEW secs, SectionsOK(secs, x.blocks),
         NEW g, g = BlocksOfAll(x, secs)
  PROVE  /\ g \in Seq(Seq(FilePair)) /\ Len(secs) \in Nat /\ Len(g) = Len(secs)
         /\ \A i \in 1..Len(secs) : g[i] = BlocksOf(x, secs[i])
<1>1. PICK l, h, X : l = Len(secs) /\ h = [i \in 1..l |-> BlocksOf(x, secs[i])] /\ X = Seq(FilePair)
  OBVIOUS
<1>2. /\ l \in Nat /\ DOMAIN secs = 1..l
      /\ \A i \in 1..l : secs[i].key \in Nat /\ EntriesOK(secs[i].entries, x.blocks)
  BY <1>1 DEF SectionsOK
<1>3. \A i \in 1..l : BlocksOf(x, secs[i]) \in X
  <2> SUFFICES ASSUME NEW i \in 1..l PROVE BlocksOf(x, secs[i]) \in Seq(FilePair)
    BY <1>1
  <2>1. PICK s : s = secs[i]
    OBVIOUS
  <2>2. s.key \in Nat /\ EntriesOK(s.entries, x.blocks)
    BY <1>2, <2>1
  <2>3. BlocksOf(x, s) \in Seq(FilePair)
    BY <2>2, BlocksOfFacts DEF LeadsTo
  <2> QED  BY <2>1, <2>3
<1>4. h \in [1..l -> X] /\ \A i \in 1..l : h[i] = BlocksOf(x, secs[i])
  BY <1>1, <1>3
<1>5. \A Y : \A u \in [1..l -> Y] : u \in Seq(Y) /\ Len(u) = l
  BY <1>2
<1>6. h \in Seq(X) /\ Len(h) = l
  BY <1>4, <1>5, Zenon
<1>7. g = h
  BY <1>1, <1>2 DEF BlocksOfAll
<1> QED  BY <1>1, <1>2, <1>4, <1>6, <1>7
(* One more section. *)
LEMMA BlocksOfMore ==
  ASSUME NEW x, NEW n, BlocksOK(x.blocks, n), NEW secs \in Seq(FileSection), NEW s \in FileSection,
         NEW new, new = Append(secs, s), SectionsOK(new, x.blocks)
  PROVE  /\ All(BlocksOfAll(x, new)) = All(BlocksOfAll(x, secs)) \o BlocksOf(x, s)
         /\ All(BlocksOfAll(x, secs)) \in Seq(FilePair) /\ BlocksOf(x, s) \in Seq(FilePair)
         /\ All(BlocksOfAll(x, new)) \in Seq(FilePair)
<1>1. SectionsOK(secs, x.blocks) /\ s.key \in Nat /\ EntriesOK(s.entries, x.blocks)
  <2>1. SectionsOK(Append(secs, s), x.blocks)
    OBVIOUS
  <2> QED  BY <2>1, SectionsLess
<1>2. PICK l, a, g, h : /\ l = Len(secs) /\ a = BlocksOf(x, s) /\ g = BlocksOfAll(x, secs)
                        /\ h = BlocksOfAll(x, new)
  OBVIOUS
<1>3. /\ Len(new) = l + 1 /\ l \in Nat /\ new[l + 1] = s /\ \A i \in 1..l : new[i] = secs[i] /\ i \in 1..(l + 1)
      /\ \A i : i \in 1..(l + 1) <=> i \in 1..l \/ i = l + 1
  BY <1>2, Appended
<1>4. /\ g \in Seq(Seq(FilePair)) /\ Len(g) = l
      /\ \A i \in 1..l : g[i] = BlocksOf(x, secs[i])
  BY <1>1, <1>2, BlocksOfAllFacts
<1>5. /\ h \in Seq(Seq(FilePair)) /\ Len(h) = l + 1
      /\ \A i \in 1..(l + 1) : h[i] = BlocksOf(x, new[i])
  <2>1. /\ h \in Seq(Seq(FilePair)) /\ Len(h) = Len(new)
        /\ \A i \in 1..Len(new) : h[i] = BlocksOf(x, new[i])
    BY <1>2, BlocksOfAllFacts
  <2> QED  BY <1>3, <2>1
<1>6. a \in Seq(FilePair)
  BY <1>1, <1>2, BlocksOfFacts DEF LeadsTo
<1>7. PICK X : X = Seq(FilePair)
  OBVIOUS
<1>8. h = Append(g, a)
  <2>1. PICK u : u = Append(g, a)
    OBVIOUS
  <2>2. u \in Seq(X) /\ Len(u) = l + 1 /\ u[l + 1] = a /\ \A i \in 1..l : u[i] = g[i]
    BY <1>4, <1>6, <1>7, <2>1, Appended
  <2>3. \A i \in 1..l : h[i] = u[i]
    BY <1>3, <1>4, <1>5, <2>2
  <2>4. h[l + 1] = u[l + 1]
    BY <1>2, <1>3, <1>5, <2>2
  <2>5. h \in Seq(X) /\ Len(h) = Len(u) /\ \A i \in 1..Len(h) : h[i] = u[i]
    BY <1>3, <1>5, <1>7, <2>2, <2>3, <2>4
  <2> QED  BY <2>1, <2>2, <2>5, SeqEqual
<1>9. All(Append(g, a)) = All(g) \o a /\ All(g) \in Seq(FilePair) /\ All(Append(g, a)) \in Seq(FilePair)
  BY <1>4, <1>6, AllAppend
<1> QED  BY <1>2, <1>6, <1>8, <1>9

(* The blocks written before lie where they were. *)
LEMMA BlocksStay ==
  ASSUME NEW x, NEW n, BlocksOK(x.blocks, n), NEW y, NEW m, BlocksOK(y.blocks, m),
         Len(x.blocks) <= Len(y.blocks), \A i \in 1..Len(x.blocks) : x.blocks[i] = y.blocks[i]
  PROVE  /\ \A s : EntriesOK(s.entries, x.blocks) => BlocksOf(y, s) = BlocksOf(x, s)
         /\ \A secs : SectionsOK(secs, x.blocks) => BlocksOfAll(y, secs) = BlocksOfAll(x, secs)
<1>1. PICK bx, by, k, l : bx = x.blocks /\ by = y.blocks /\ k = Len(bx) /\ l = Len(by)
  OBVIOUS
<1>2. k \in Nat /\ l \in Nat /\ k <= l /\ \A i \in 1..k : i \in 1..l /\ bx[i] = by[i]
  BY <1>1 DEF BlocksOK
<1>3. ASSUME NEW e, NEW b \in 1..k, EntryOf(e, bx, b) PROVE BlockAt(y, e) = BlockAt(x, e)
  <2>1. b \in 1..l /\ bx[b] = by[b] /\ EntryOf(e, by, b)
    BY <1>2, <1>3 DEF EntryOf
  <2>2. BlockAt(x, e) = bx[b].points
    BY <1>1, <1>3, EntryLeads
  <2>3. BlockAt(y, e) = by[b].points
    BY <1>1, <2>1, EntryLeads
  <2> QED  BY <2>1, <2>2, <2>3
<1>4. ASSUME NEW s, EntriesOK(s.entries, bx) PROVE BlocksOf(y, s) = BlocksOf(x, s)
  <2>1. PICK es : es = s.entries
    OBVIOUS
  <2>2. es \in Seq(FileEntry) /\ \A j \in 1..Len(es) : \E b \in 1..k : EntryOf(es[j], bx, b)
    BY <1>1, <1>4, <2>1 DEF EntriesOK
  <2>3. \A j \in DOMAIN es : BlockAt(y, es[j]) = BlockAt(x, es[j])
    BY <1>3, <2>2
  <2> QED  BY <2>1, <2>3 DEF BlocksOf
<1>5. ASSUME NEW secs, SectionsOK(secs, bx) PROVE BlocksOfAll(y, secs) = BlocksOfAll(x, secs)
  <2>1. \A i \in DOMAIN secs : EntriesOK(secs[i].entries, bx)
    BY <1>5 DEF SectionsOK
  <2>2. \A i \in DOMAIN secs : BlocksOf(y, secs[i]) = BlocksOf(x, secs[i])
    BY <1>4, <2>1
  <2> QED  BY <2>2 DEF BlocksOfAll
<1> QED  BY <1>1, <1>4, <1>5

(* What the writer leads to. *)
WriterBlocks(x) == All(BlocksOfAll(x, Secs(x)))

LEMMA WriterBlocksNew ==
  WriterBlocks(NewSSTWriter) = <<>>
<1>1. PICK x : x = NewSSTWriter
  OBVIOUS
<1>2. Secs(x) = <<>>
  BY <1>1 DEF NewSSTWriter, Secs
<1>3. BlocksOfAll(x, <<>>) = <<>>
  BY DEF BlocksOfAll
<1> QED  BY <1>1, <1>2, <1>3, AllNone DEF WriterBlocks

LEMMA WriterBlocksOK ==
  ASSUME NEW x, WriterOK(x)
  PROVE  WriterBlocks(x) \in Seq(FilePair)
<1>1. CASE x = NewSSTWriter
  <2>1. <<>> \in Seq(FilePair)
    OBVIOUS
  <2> QED  BY <1>1, <2>1, WriterBlocksNew
<1>2. CASE x # NewSSTWriter
  <2>1. x \in Writer /\ BlocksOK(x.blocks, x.n) /\ SectionsOK(Secs(x), x.blocks)
    BY <1>2 DEF WriterOK
  <2>2. PICK s : s = [key |-> x.key, entries |-> x.entries]
    OBVIOUS
  <2>3. Secs(x) = Append(x.sections, s) /\ s \in FileSection /\ x.sections \in Seq(FileSection)
    BY <1>2, <2>1, <2>2, SecsFacts, WriterFields
  <2> QED  BY <2>1, <2>3, BlocksOfMore DEF WriterBlocks
<1> QED  BY <1>1, <1>2
(* sstWriter.WriteBlock: the writer leads to one block more, at the end. *)
LEMMA WroteBlocks ==
  ASSUME NEW x, WriterOK(x), NEW key \in Nat \ {NoKey}, KeyLen(key) \in Nat, NEW block \in InputBlocks,
         Precede(Secs(x), key, MinTime(block)), NEW y, NEW n, NEW e, NEW b, Wrote(x, y, key, block, n, e, b)
  PROVE  WriterBlocks(y) = Append(WriterBlocks(x), [key |-> key, block |-> block])
<1>1. /\ b.offset = n /\ b.points = block /\ e.offset = n /\ e.size = b.size /\ b \in FileBlock
      /\ e.min = MinTime(block) /\ e.max = MaxTime(block) /\ e \in FileEntry
      /\ y \in Writer /\ y.key = key /\ y.blocks = Append(x.blocks, b)
      /\ x.key # key => y.sections = Secs(x) /\ y.entries = <<e>>
      /\ x.key = key => y.sections = x.sections /\ y.entries = Append(x.entries, e)
  BY DEF Wrote
<1>2. WriterOK(y) /\ y # NewSSTWriter
  BY WriteKeeps
<1>3. BlocksOK(y.blocks, y.n) /\ SectionsOK(Secs(y), y.blocks)
  BY <1>2 DEF WriterOK
<1>4. /\ x.blocks \in Seq(FileBlock) /\ BlocksOK(x.blocks, x.n)
      /\ SectionsOK(Secs(x), x.blocks)
  <2>1. CASE x = NewSSTWriter
    <3>1. x.n = 0 /\ x.blocks = <<>> /\ Secs(x) = <<>>
      BY <2>1 DEF NewSSTWriter, Secs
    <3>2. <<>> \in Seq(FileBlock) /\ <<>> \in Seq(FileSection) /\ Len(<<>>) = 0 /\ DOMAIN <<>> = 1..0
      OBVIOUS
    <3>3. BlocksOK(<<>>, 0)
      BY <3>2 DEF BlocksOK
    <3>4. SectionsOK(<<>>, <<>>)
      BY <3>2 DEF SectionsOK
    <3> QED  BY <3>1, <3>2, <3>3, <3>4
  <2>2. CASE x # NewSSTWriter
    BY <2>2, WriterFields DEF WriterOK
  <2> QED  BY <2>1, <2>2
<1>5. /\ Len(x.blocks) <= Len(y.blocks) /\ (\A i \in 1..Len(x.blocks) : x.blocks[i] = y.blocks[i])
      /\ Len(y.blocks) \in 1..Len(y.blocks) /\ y.blocks[Len(y.blocks)] = b
  <2>1. PICK bx, by, l : bx = x.blocks /\ by = y.blocks /\ l = Len(bx)
    OBVIOUS
  <2>2. l \in Nat /\ Len(by) = l + 1 /\ by[l + 1] = b /\ \A i \in 1..l : by[i] = bx[i]
    BY <1>1, <1>4, <2>1, Appended
  <2>3. l <= l + 1 /\ l + 1 \in 1..(l + 1)
    BY <2>2
  <2> QED  BY <2>1, <2>2, <2>3
<1>6. /\ \A s : EntriesOK(s.entries, x.blocks) => BlocksOf(y, s) = BlocksOf(x, s)
      /\ \A secs : SectionsOK(secs, x.blocks) => BlocksOfAll(y, secs) = BlocksOfAll(x, secs)
  BY <1>3, <1>4, <1>5, BlocksStay
<1>7. BlockAt(y, e) = block
  <2>1. EntryOf(e, y.blocks, Len(y.blocks))
    BY <1>1, <1>5 DEF EntryOf
  <2> QED  BY <1>1, <1>3, <1>5, <2>1, EntryLeads
<1>8. PICK p, s : p = [key |-> key, block |-> block] /\ s = [key |-> key, entries |-> y.entries]
  OBVIOUS
<1>9. /\ s \in FileSection /\ Secs(y) = Append(y.sections, s) /\ y.sections \in Seq(FileSection)
      /\ EntriesOK(y.entries, y.blocks) /\ s.key = key /\ s.entries = y.entries /\ p \in FilePair
      /\ s.key \in Nat
  BY <1>1, <1>2, <1>8, SecsFacts, WriterFields DEF FilePair
<1>10. /\ WriterBlocks(y) = All(BlocksOfAll(y, y.sections)) \o BlocksOf(y, s)
       /\ All(BlocksOfAll(y, y.sections)) \in Seq(FilePair)
  BY <1>3, <1>9, BlocksOfMore DEF WriterBlocks
<1>11. PICK g : g = BlocksOf(y, s)
  OBVIOUS
<1>12. /\ g \in Seq(FilePair) /\ Len(g) = Len(y.entries)
       /\ \A j \in 1..Len(y.entries) : g[j] = [key |-> key, block |-> BlockAt(y, y.entries[j])]
  <2>1. s.key \in Nat /\ EntriesOK(s.entries, y.blocks)
    BY <1>9
  <2>2. LeadsTo(y, s, g)
    BY <1>3, <1>11, <2>1, BlocksOfFacts
  <2> QED  BY <1>9, <2>2, Zenon DEF LeadsTo
<1>13. CASE x.key # key
  <2>1. y.sections = Secs(x) /\ y.entries = <<e>>
    BY <1>1, <1>13
  <2>2. g = <<p>>
    <3>1. Len(<<e>>) = 1 /\ <<e>>[1] = e /\ 1 \in 1..1
      OBVIOUS
    <3>2. Len(g) = 1 /\ g[1] = p
      BY <1>7, <1>8, <1>12, <2>1, <3>1
    <3> QED  BY <1>12, <3>2
  <2>3. BlocksOfAll(y, Secs(x)) = BlocksOfAll(x, Secs(x))
    BY <1>4, <1>6
  <2>4. WriterBlocks(y) = WriterBlocks(x) \o <<p>> /\ WriterBlocks(x) \in Seq(FilePair)
    BY <1>10, <1>11, <2>1, <2>2, <2>3 DEF WriterBlocks
  <2>5. \A q \in Seq(FilePair) : q \o <<p>> = Append(q, p)
    BY <1>9
  <2> QED  BY <1>8, <2>4, <2>5
<1>14. CASE x.key = key
  <2>1. y.sections = x.sections /\ y.entries = Append(x.entries, e)
    BY <1>1, <1>14
  <2>2. x # NewSSTWriter /\ x \in Writer
    BY <1>14 DEF NewSSTWriter, WriterOK
  <2>3. PICK sx, gx, l : /\ sx = [key |-> x.key, entries |-> x.entries] /\ gx = BlocksOf(x, sx)
                         /\ l = Len(x.entries)
    OBVIOUS
  <2>4. /\ x.sections \in Seq(FileSection) /\ Secs(x) = Append(x.sections, sx) /\ sx \in FileSection
        /\ x.entries \in Seq(FileEntry) /\ sx.key = key /\ sx.entries = x.entries
        /\ EntriesOK(x.entries, x.blocks) /\ sx.key \in Nat
    BY <1>14, <2>2, <2>3, WriterFields, SecsFacts
  <2>5. /\ WriterBlocks(x) = All(BlocksOfAll(x, x.sections)) \o gx
        /\ SectionsOK(x.sections, x.blocks)
    <3>1. WriterBlocks(x) = All(BlocksOfAll(x, x.sections)) \o gx
      BY <1>4, <2>3, <2>4, BlocksOfMore DEF WriterBlocks
    <3>2. SectionsOK(Append(x.sections, sx), x.blocks)
      BY <1>4, <2>4
    <3>3. SectionsOK(x.sections, x.blocks)
      BY <2>4, <3>2, SectionsLess
    <3> QED  BY <3>1, <3>3
  <2>6. /\ gx \in Seq(FilePair) /\ Len(gx) = l
        /\ \A j \in 1..l : gx[j] = [key |-> key, block |-> BlockAt(x, x.entries[j])]
    <3>1. sx.key \in Nat /\ EntriesOK(sx.entries, x.blocks)
      BY <2>4
    <3>2. LeadsTo(x, sx, gx)
      BY <1>4, <2>3, <3>1, BlocksOfFacts
    <3> QED  BY <2>3, <2>4, <3>2, Zenon DEF LeadsTo
  <2>7. /\ Len(y.entries) = l + 1 /\ l \in Nat /\ y.entries[l + 1] = e
        /\ \A i \in 1..l : y.entries[i] = x.entries[i] /\ i \in 1..(l + 1)
        /\ \A i : i \in 1..(l + 1) <=> i \in 1..l \/ i = l + 1
    BY <1>1, <2>1, <2>3, <2>4, Appended
  <2>8. \A j \in 1..l : BlockAt(y, x.entries[j]) = BlockAt(x, x.entries[j])
    <3>1. BlocksOf(y, sx) = gx
      BY <1>6, <2>3, <2>4
    <3>2. EntriesOK(sx.entries, y.blocks)
      <4>1. x.n \in Nat /\ n \in Nat /\ x.n <= n /\ y.n \in Nat /\ n < y.n
        <5>1. PICK z : z = b.size
          OBVIOUS
        <5>2. z \in Nat \ {0} /\ n \in Nat /\ x.n <= n /\ y.n = n + z
          BY <5>1 DEF Wrote
        <5>3. x.n \in Nat
          BY <2>2, WriterFields
        <5> QED  BY <5>2, <5>3
      <4> QED  BY <1>1, <1>4, <2>4, <4>1, BlocksMore
    <3>3. PICK gy : gy = BlocksOf(y, sx)
      OBVIOUS
    <3>4. \A j \in 1..l : gy[j] = [key |-> key, block |-> BlockAt(y, x.entries[j])]
      <4>1. sx.key \in Nat
        BY <2>4
      <4>2. LeadsTo(y, sx, gy)
        BY <1>3, <3>2, <3>3, <4>1, BlocksOfFacts
      <4> QED  BY <2>3, <2>4, <4>2, Zenon DEF LeadsTo
    <3>5. \A j \in 1..l : [key |-> key, block |-> BlockAt(y, x.entries[j])]
                             = [key |-> key, block |-> BlockAt(x, x.entries[j])]
      BY <2>6, <3>1, <3>3, <3>4
    <3>6. \A c, d : [key |-> key, block |-> c] = [key |-> key, block |-> d] => c = d
      OBVIOUS
    <3> QED  BY <3>5, <3>6, Zenon
  <2>9. g = Append(gx, p)
    <3>1. PICK u : u = Append(gx, p)
      OBVIOUS
    <3>2. u \in Seq(FilePair) /\ Len(u) = l + 1 /\ u[l + 1] = p /\ \A i \in 1..l : u[i] = gx[i]
      BY <1>9, <2>6, <3>1, Appended
    <3>3. \A i \in 1..l : g[i] = u[i]
      BY <1>12, <2>6, <2>7, <2>8, <3>2
    <3>4. g[l + 1] = u[l + 1]
      BY <1>7, <1>8, <1>12, <2>7, <3>2
    <3>5. Len(g) = Len(u) /\ \A i \in 1..Len(g) : g[i] = u[i]
      BY <1>12, <2>7, <3>2, <3>3, <3>4
    <3> QED  BY <1>12, <3>1, <3>2, <3>5, SeqEqual
  <2>10. BlocksOfAll(y, x.sections) = BlocksOfAll(x, x.sections)
    BY <1>6, <2>5
  <2>11. PICK q : q = All(BlocksOfAll(x, x.sections))
    OBVIOUS
  <2>12. q \in Seq(FilePair) /\ WriterBlocks(x) = q \o gx /\ WriterBlocks(y) = q \o Append(gx, p)
    BY <1>10, <1>11, <2>1, <2>5, <2>9, <2>10, <2>11
  <2>13. Append(q \o gx, p) = q \o Append(gx, p)
    <3>1. q \in Seq(FilePair) /\ gx \in Seq(FilePair) /\ p \in FilePair
      BY <1>9, <2>6, <2>12
    <3>2. \A v \in Seq(FilePair) : v \o <<p>> = Append(v, p)
      BY <3>1
    <3>3. PICK one, u : one = <<p>> /\ u = q \o gx
      OBVIOUS
    <3>4. one \in Seq(FilePair) /\ u \in Seq(FilePair)
      BY <3>1, <3>3
    <3>5. u \o one = q \o (gx \o one)
      BY <3>1, <3>3, <3>4, JoinLonger
    <3> QED  BY <3>1, <3>2, <3>3, <3>4, <3>5, Zenon
  <2> QED  BY <1>8, <2>12, <2>13
<1> QED  BY <1>13, <1>14
(* What the index of a file leads to, ... *)
FileBlocks(file) == All(BlocksOfAll(file, file.index))

LEMMA FileBlocksOK ==
  ASSUME NEW file, FileOK(file)
  PROVE  /\ BlocksOfAll(file, file.index) \in Seq(Seq(FilePair)) /\ FileBlocks(file) \in Seq(FilePair)
         /\ FlattenSeq(BlocksOfAll(file, file.index)) = FileBlocks(file)
<1>1. PICK n : BlocksOK(file.blocks, n)
  BY DEF FileOK
<1>2. SectionsOK(file.index, file.blocks)
  BY DEF FileOK
<1>3. PICK g, l, T : g = BlocksOfAll(file, file.index) /\ l = Len(g) /\ T = FilePair
  OBVIOUS
<1>4. g \in Seq(Seq(T))
  BY <1>1, <1>2, <1>3, BlocksOfAllFacts
<1>5. FlattenSeq(g) = Joined(g)[l]
  BY <1>3, <1>4, FlattenJoined
<1>6. l \in Nat /\ \A i \in 1..Len(g) : g[i] \in Seq(T)
  BY <1>3, <1>4
<1>7. l \in 0..Len(g) /\ Len(g) \in Nat
  BY <1>3, <1>6
<1>8. Joined(g)[l] \in Seq(T)
  BY <1>6, <1>7, JoinedFacts
<1> QED  BY <1>3, <1>4, <1>5, <1>8, Zenon DEF FileBlocks, All

(* sstWriter.WriteIndex: the file leads to what the writer led to. *)
LEMMA FileBlocksOf ==
  ASSUME NEW x, NEW file, Indexes(x, file)
  PROVE  FileBlocks(file) = WriterBlocks(x)
<1>1. /\ file.blocks = x.blocks /\ DOMAIN file.index = DOMAIN Secs(x)
      /\ \A i \in DOMAIN Secs(x) : file.index[i].key = Secs(x)[i].key /\ file.index[i].entries = Secs(x)[i].entries
  BY DEF Indexes
<1>2. \A e : BlockAt(file, e) = BlockAt(x, e)
  BY <1>1 DEF BlockAt
<1>3. ASSUME NEW i \in DOMAIN Secs(x) PROVE BlocksOf(file, file.index[i]) = BlocksOf(x, Secs(x)[i])
  <2>1. PICK s, u : s = file.index[i] /\ u = Secs(x)[i]
    OBVIOUS
  <2>2. s.key = u.key /\ s.entries = u.entries
    BY <1>1, <1>3, <2>1
  <2>3. BlocksOf(file, s) = BlocksOf(x, u)
    BY <1>2, <2>2 DEF BlocksOf
  <2> QED  BY <2>1, <2>3
<1>4. BlocksOfAll(file, file.index) = BlocksOfAll(x, Secs(x))
  BY <1>1, <1>3 DEF BlocksOfAll
<1> QED  BY <1>4 DEF FileBlocks, WriterBlocks

(* ... and the indexes of all files. *)
EachFile(fs) == [f \in DOMAIN fs |-> FileBlocks(fs[f])]

LEMMA EachFileOK ==
  ASSUME NEW fs, fs \in Seq(Range(fs)), \A f \in DOMAIN fs : FileOK(fs[f])
  PROVE  EachFile(fs) \in Seq(Seq(FilePair)) /\ Len(EachFile(fs)) = Len(fs)
<1>1. PICK n, X, g : n = Len(fs) /\ X = Seq(FilePair) /\ g = EachFile(fs)
  OBVIOUS
<1>2. n \in Nat /\ DOMAIN fs = 1..n
  BY <1>1
<1>3. \A f \in 1..n : FileBlocks(fs[f]) \in X
  BY <1>1, <1>2, FileBlocksOK
<1>4. g \in [1..n -> X]
  BY <1>1, <1>2, <1>3 DEF EachFile
<1>5. \A Y : \A u \in [1..n -> Y] : u \in Seq(Y) /\ Len(u) = n
  BY <1>2
<1>6. g \in Seq(X) /\ Len(g) = n
  BY <1>4, <1>5, Zenon
<1> QED  BY <1>1, <1>6

LEMMA EachFileMore ==
  ASSUME NEW fs, fs \in Seq(Range(fs)), \A f \in DOMAIN fs : FileOK(fs[f]), NEW file, FileOK(file)
  PROVE  /\ All(EachFile(Append(fs, file))) = All(EachFile(fs)) \o FileBlocks(file)
         /\ All(EachFile(fs)) \in Seq(FilePair)
<1>1. PICK n, gs : n = Len(fs) /\ gs = Append(fs, file)
  OBVIOUS
<1>2. /\ gs \in Seq(Range(gs)) /\ n \in Nat /\ DOMAIN fs = 1..n
      /\ \A f \in DOMAIN fs : gs[f] = fs[f] /\ f \in DOMAIN gs
      /\ gs[n + 1] = file
      /\ \A f \in DOMAIN gs : f \in DOMAIN fs \/ f = n + 1
  BY <1>1, FilesAppend
<1>3. \A f \in DOMAIN gs : FileOK(gs[f])
  BY <1>2
<1>4. PICK g, h, a, X : /\ g = EachFile(fs) /\ h = EachFile(gs) /\ a = FileBlocks(file) /\ X = Seq(FilePair)
  OBVIOUS
<1>5. g \in Seq(X) /\ Len(g) = n
  BY <1>1, <1>4, EachFileOK
<1>6. h \in Seq(X) /\ Len(h) = Len(gs)
  BY <1>2, <1>3, <1>4, EachFileOK
<1>7. a \in X
  BY <1>4, FileBlocksOK
<1>8. DOMAIN gs = 1..(n + 1) /\ Len(gs) = n + 1
  <2>1. PICK T : T = Range(fs) \cup {file}
    OBVIOUS
  <2>2. fs \in Seq(T) /\ file \in T
    BY <2>1
  <2> QED  BY <1>1, <2>2, Appended
<1>9. h = Append(g, a)
  <2>1. PICK u : u = Append(g, a)
    OBVIOUS
  <2>2. u \in Seq(X) /\ Len(u) = n + 1 /\ u[n + 1] = a /\ \A i \in 1..n : u[i] = g[i]
    BY <1>5, <1>7, <2>1, Appended
  <2>3. \A f \in 1..n : g[f] = FileBlocks(fs[f])
    BY <1>2, <1>4 DEF EachFile
  <2>4. \A f \in 1..(n + 1) : h[f] = FileBlocks(gs[f])
    BY <1>4, <1>8 DEF EachFile
  <2>5. \A f \in 1..(n + 1) : f \in 1..n \/ f = n + 1
    BY <1>2
  <2>6. \A f \in 1..(n + 1) : h[f] = u[f]
    BY <1>2, <1>4, <2>2, <2>3, <2>4, <2>5
  <2> QED  BY <1>6, <1>8, <2>1, <2>2, <2>6, SeqEqual
<1>10. g \in Seq(Seq(FilePair)) /\ a \in Seq(FilePair)
  BY <1>4, <1>5, <1>7
<1>11. All(Append(g, a)) = All(g) \o a /\ All(g) \in Seq(FilePair)
  BY <1>10, AllAppend
<1> QED  BY <1>1, <1>4, <1>9, <1>11

(* The input as blocks of keys. *)
LEMMA InputPairs ==
  ASSUME TodoOK
  PROVE  todo \in Seq(FilePair) /\ input \in Seq(FilePair)
<1>1. Ordered(input) /\ input \in Inputs /\ todo \in Seq(Range(input))
  BY SSTAssumption DEF TodoOK
<1>2. \A i \in DOMAIN input : /\ input[i] = [key |-> input[i].key, block |-> input[i].block]
                             /\ input[i].key \in Nat /\ input[i].block \in InputBlocks
  BY <1>1 DEF Ordered, InputBlocks
<1>3. \A i \in DOMAIN input : input[i] \in FilePair
  BY <1>2 DEF FilePair
<1>4. Range(input) \subseteq FilePair
  BY <1>3 DEF Range
<1>5. input \in Seq(Range(input))
  BY <1>1 DEF Ordered
<1>6. \A S : S \subseteq FilePair => \A u \in Seq(S) : u \in Seq(FilePair)
  OBVIOUS
<1> QED  BY <1>1, <1>4, <1>5, <1>6, Zenon
(* The blocks of the files, those of the writer and those to come are the input. *)
WholeInv ==
    /\ opens = 0 => All(EachFile(files)) \o (WriterBlocks(w) \o todo) = input
    /\ opens > 0 => All(EachFile(files)) = input

LEMMA WholeInit ==
  ASSUME Init
  PROVE  WholeInv
<1>1. input \in Inputs /\ todo = input /\ w = NewSSTWriter /\ files = <<>> /\ opens = 0
  BY DEF Init
<1>2. input \in Seq(FilePair)
  BY InvInit, InputPairs DEF Inv, WriteInv
<1>3. EachFile(files) = <<>>
  BY <1>1 DEF EachFile
<1>4. WriterBlocks(w) \o todo = input /\ <<>> \o input = input
  BY <1>1, <1>2, WriterBlocksNew
<1> QED  BY <1>1, <1>3, <1>4, AllNone DEF WholeInv

(* Compactor.write: one more block. *)
LEMMA WholeWriteNext ==
  ASSUME WriteInv, WriteInv', WholeInv, WriteNext
  PROVE  WholeInv'
<1>1. /\ todo # <<>> /\ ~full /\ todo' = Tail(todo) /\ input' = input /\ files' = files /\ opens' = opens
      /\ w' = WriteBlock(w, todo[1].key, todo[1].block)
  BY DEF WriteNext, readers
<1>2. opens = 0
  BY <1>1 DEF WriteInv
<1>3. PICK key, block, p : key = todo[1].key /\ block = todo[1].block /\ p = [key |-> key, block |-> block]
  OBVIOUS
<1>4. TodoOK /\ WriterOK(w) /\ Len(w.entries) < MaxIndexEntries
  BY <1>1 DEF WriteInv
<1>5. todo \in Seq(FilePair)
  BY <1>4, InputPairs
<1>6. 1 \in 1..Len(todo) /\ todo[1] \in FilePair
  BY <1>1, <1>5
<1>7. todo[1] = p
  <2>1. \A y \in FilePair : y = [key |-> y.key, block |-> y.block]
    BY DEF FilePair
  <2> QED  BY <1>3, <1>6, <2>1
<1>8. key \in Nat \ {NoKey} /\ KeyLen(key) \in Nat /\ block \in InputBlocks
  BY <1>3, <1>4, <1>6, TodoFacts
<1>9. Precede(Secs(w), key, MinTime(block))
  BY <1>3, <1>6 DEF WriteInv
<1>10. PICK n, e, b : Wrote(w, w', key, block, n, e, b)
  BY <1>1, <1>3, <1>4, <1>8, WriteShape
<1>11. PICK u, v, F : u = WriterBlocks(w) /\ v = WriterBlocks(w') /\ F = All(EachFile(files))
  OBVIOUS
<1>12. v = Append(u, p)
  BY <1>3, <1>4, <1>8, <1>9, <1>10, <1>11, WroteBlocks
<1>13. u \in Seq(FilePair) /\ p \in FilePair
  BY <1>4, <1>6, <1>7, <1>11, WriterBlocksOK
<1>14. v \o Tail(todo) = u \o todo
  <2>1. PICK one, rest : one = <<p>> /\ rest = Tail(todo)
    OBVIOUS
  <2>2. one \in Seq(FilePair) /\ rest \in Seq(FilePair)
    BY <1>1, <1>5, <1>13, <2>1
  <2>3. Append(u, p) = u \o one
    BY <1>13, <2>1
  <2>4. todo = one \o rest
    <3>1. \A s \in Seq(FilePair) : s # <<>> => s = <<s[1]>> \o Tail(s)
      OBVIOUS
    <3> QED  BY <1>1, <1>5, <1>7, <2>1, <3>1
  <2>5. (u \o one) \o rest = u \o (one \o rest)
    BY <1>13, <2>2, JoinLonger
  <2> QED  BY <1>12, <2>1, <2>3, <2>4, <2>5, Zenon
<1>15. F \o (u \o todo) = input
  BY <1>2, <1>11 DEF WholeInv
<1>16. ~(opens > 0)
  BY <1>2
<1> QED  BY <1>1, <1>2, <1>11, <1>14, <1>15, <1>16, Zenon DEF WholeInv

(* The file that is ended holds what the writer led to. *)
LEMMA WholeEnd ==
  ASSUME WriteInv, w # NewSSTWriter
  PROVE  All(EachFile(Append(files, WriteIndex(w)))) = All(EachFile(files)) \o WriterBlocks(w)
<1>1. PICK file : file = WriteIndex(w)
  OBVIOUS
<1>2. Indexes(w, file)
  BY <1>1, WriteIndexOK DEF WriteInv
<1>3. FileBlocks(file) = WriterBlocks(w) /\ FileOK(file)
  BY <1>2, FileBlocksOf DEF Indexes
<1>4. files \in Seq(Range(files)) /\ \A f \in DOMAIN files : FileOK(files[f])
  BY DEF WriteInv
<1>5. All(EachFile(Append(files, file))) = All(EachFile(files)) \o FileBlocks(file)
  BY <1>3, <1>4, EachFileMore
<1> QED  BY <1>1, <1>3, <1>5

LEMMA AllFiles ==
  ASSUME WriteInv
  PROVE  All(EachFile(files)) \in Seq(FilePair)
<1>1. files \in Seq(Range(files)) /\ \A f \in DOMAIN files : FileOK(files[f])
  BY DEF WriteInv
<1>2. PICK g, n, T : g = EachFile(files) /\ n = Len(g) /\ T = FilePair
  OBVIOUS
<1>3. g \in Seq(Seq(T))
  BY <1>1, <1>2, EachFileOK
<1>4. n \in Nat /\ n \in 0..Len(g) /\ Len(g) \in Nat /\ \A i \in 1..Len(g) : g[i] \in Seq(T)
  BY <1>2, <1>3
<1>5. Joined(g)[n] \in Seq(T)
  BY <1>4, JoinedFacts
<1> QED  BY <1>2, <1>5 DEF All

(* Compactor.writeNewFiles: a limit ends the file. *)
LEMMA WholeEndFull ==
  ASSUME WriteInv, WholeInv, EndFull
  PROVE  WholeInv'
<1>1. /\ full /\ files' = Append(files, WriteIndex(w)) /\ w' = NewSSTWriter
      /\ input' = input /\ todo' = todo /\ opens' = opens
  BY DEF EndFull, readers
<1>2. opens \in Nat /\ ~(opens > 0) /\ w # NewSSTWriter /\ WriterOK(w) /\ TodoOK
  BY <1>1 DEF WriteInv
<1>3. opens = 0
  BY <1>2
<1>4. PICK F, u, G : F = All(EachFile(files)) /\ u = WriterBlocks(w) /\ G = All(EachFile(files'))
  OBVIOUS
<1>5. G = F \o u
  BY <1>1, <1>2, <1>4, WholeEnd
<1>6. F \in Seq(FilePair) /\ u \in Seq(FilePair) /\ todo \in Seq(FilePair)
  BY <1>2, <1>4, AllFiles, WriterBlocksOK, InputPairs
<1>7. WriterBlocks(w') = <<>>
  BY <1>1, WriterBlocksNew
<1>8. F \o (u \o todo) = input
  BY <1>3, <1>4 DEF WholeInv
<1>9. (F \o u) \o todo = F \o (u \o todo) /\ <<>> \o todo = todo
  BY <1>6, JoinLonger
<1>10. G \o (WriterBlocks(w') \o todo) = input
  BY <1>5, <1>7, <1>8, <1>9, Zenon
<1> QED  BY <1>1, <1>2, <1>4, <1>10, Zenon DEF WholeInv

(* Compactor.write: the iterator has ended. *)
LEMMA WholeEndLast ==
  ASSUME WriteInv, WholeInv, EndLast
  PROVE  WholeInv'
<1>1. /\ todo = <<>> /\ opens = 0 /\ opens' = 1 /\ input' = input
      /\ files' = IF NoValues(w) THEN files ELSE Append(files, WriteIndex(w))
  BY DEF EndLast
<1>2. WriterOK(w)
  BY DEF WriteInv
<1>3. PICK F, u, G : F = All(EachFile(files)) /\ u = WriterBlocks(w) /\ G = All(EachFile(files'))
  OBVIOUS
<1>4. F \in Seq(FilePair) /\ u \in Seq(FilePair)
  BY <1>2, <1>3, AllFiles, WriterBlocksOK
<1>5. F \o (u \o <<>>) = input
  BY <1>1, <1>3 DEF WholeInv
<1>6. G = F \o u
  <2>1. CASE NoValues(w)
    <3>1. w = NewSSTWriter
      BY <1>2, <2>1 DEF NoValues, WriterOK
    <3>2. u = <<>> /\ F \o <<>> = F
      BY <1>3, <1>4, <3>1, WriterBlocksNew
    <3> QED  BY <1>1, <1>3, <2>1, <3>2
  <2>2. CASE ~NoValues(w)
    <3>1. w # NewSSTWriter
      BY <2>2 DEF NoValues, NewSSTWriter
    <3> QED  BY <1>1, <1>3, <2>2, <3>1, WholeEnd
  <2> QED  BY <2>1, <2>2
<1>7. u \o <<>> = u
  BY <1>4
<1>8. G = input
  BY <1>5, <1>6, <1>7, Zenon
<1>9. opens' # 0
  BY <1>1
<1> QED  BY <1>1, <1>3, <1>8, <1>9, Zenon DEF WholeInv

(* Once the files are written they stay as they are. *)
LEMMA WholeStays ==
  ASSUME WholeInv, UNCHANGED writers, opens' = opens \/ (opens > 0 /\ opens' > 0 /\ opens' # 0)
  PROVE  WholeInv'
<1>1. input' = input /\ todo' = todo /\ w' = w /\ files' = files
  BY DEF writers
<1> QED  BY <1>1, Zenon DEF WholeInv

(* Through the entries of the indexes, file after file, exactly the blocks of the iterator
   are found in its order once all is written: SSTFile's FilesWhole.  Positions and sizes
   add up in sstWriter.WriteBlock and directIndex.Add, and nothing is lost or doubled where
   Compactor.write ends one file and begins the next, at any limits. *)
THEOREM FilesHoldTheInput == Spec => []FilesWhole
<1>1. Init => WholeInv
  BY WholeInit
<1>2. Inv /\ Inv' /\ WholeInv /\ [Next]_vars => WholeInv'
  <2> SUFFICES ASSUME Inv, Inv', WholeInv, [Next]_vars PROVE WholeInv'
    OBVIOUS
  <2>1. WriteInv /\ WriteInv' /\ opens \in Nat
    BY DEF Inv, WriteInv
  <2>2. CASE WriteNext
    BY <2>1, <2>2, WholeWriteNext
  <2>3. CASE EndFull
    BY <2>1, <2>3, WholeEndFull
  <2>4. CASE EndLast
    BY <2>1, <2>4, WholeEndLast
  <2>5. CASE Open
    BY <2>5, WholeStays DEF Open, writers
  <2>6. CASE Restart
    <3>1. opens' = opens + 1 /\ UNCHANGED writers /\ idx # <<>>
      BY <2>6 DEF Restart, writers
    <3>2. opens # 0
      BY <2>1, <3>1 DEF WriteInv
    <3>3. opens > 0 /\ opens' > 0 /\ opens' # 0
      BY <2>1, <3>1, <3>2
    <3> QED  BY <3>1, <3>3, WholeStays
  <2>7. CASE Recording \/ Applying
    <3>1. UNCHANGED writers /\ opens' = opens
      <4>1. CASE Recording
        <5>1. CASE \E r \in Requests : DeleteBegin(r)
          BY <5>1 DEF DeleteBegin
        <5>2. CASE \E f \in DOMAIN files : AddRange(f)
          BY <5>2 DEF AddRange
        <5>3. CASE \E f \in DOMAIN files : AddRangeFails(f)
          BY <5>3 DEF AddRangeFails
        <5>4. CASE Commit \/ DeleteEnd \/ \E f \in DOMAIN files : Committed(f)
          BY <5>4 DEF Commit, DeleteEnd, Committed
        <5> QED  BY <4>1, <5>1, <5>2, <5>3, <5>4 DEF Recording
      <4>2. CASE Applying
        BY <4>2 DEF Applying, DropKeys, StoreRanges
      <4> QED  BY <2>7, <4>1, <4>2
    <3> QED  BY <3>1, WholeStays
  <2>8. CASE (\E f \in DOMAIN files : NewBlockIterator(f)) \/ IterNext \/ IterEnd
    <3>1. UNCHANGED writers /\ opens' = opens
      BY <2>8 DEF NewBlockIterator, IterNext, IterEnd, others
    <3> QED  BY <3>1, WholeStays
  <2>9. CASE UNCHANGED vars
    BY <2>9, WholeStays DEF vars, writers
  <2>10. Next => \/ WriteNext \/ EndFull \/ EndLast \/ Open \/ Restart \/ Recording \/ Applying
                 \/ (\E f \in DOMAIN files : NewBlockIterator(f)) \/ IterNext \/ IterEnd
    BY Zenon DEF Next, Recording, Applying
  <2> QED  BY <2>2, <2>3, <2>4, <2>5, <2>6, <2>7, <2>8, <2>9, <2>10
<1>3. Inv /\ WholeInv => FilesWhole
  <2> SUFFICES ASSUME Inv, WholeInv, opens > 0
               PROVE  FlattenSeq([f \in DOMAIN files |-> Written(f)]) = input
    BY DEF FilesWhole
  <2>1. files \in Seq(Range(files)) /\ \A f \in DOMAIN files : FileOK(files[f])
    BY DEF Inv, WriteInv
  <2>2. \A f \in DOMAIN files : Written(f) = FlattenSeq(BlocksOfAll(files[f], files[f].index))
    BY DEF Written, BlocksOfAll, BlocksOf
  <2>3. \A f \in DOMAIN files : Written(f) = FileBlocks(files[f])
    BY <2>1, <2>2, FileBlocksOK
  <2>4. PICK g, T : g = EachFile(files) /\ T = FilePair
    OBVIOUS
  <2>5. [f \in DOMAIN files |-> Written(f)] = g
    BY <2>3, <2>4 DEF EachFile
  <2>6. g \in Seq(Seq(T))
    BY <2>1, <2>4, EachFileOK
  <2>7. FlattenSeq(g) = Joined(g)[Len(g)]
    BY <2>6, FlattenJoined
  <2>8. All(g) = input
    BY <2>4 DEF WholeInv
  <2> QED  BY <2>5, <2>7, <2>8 DEF All
<1> QED  BY <1>1, <1>2, <1>3, FileInvariant, PTL DEF Spec
-----------------------------------------------------------------------------
(* The walk over the keys of all files. *)

(* The keys of an open file in their order, from number 0 on. *)
FileKey(f, i) == KeyAt(idx[f], i)

FileKeys(f) == KeyCount(idx[f])

(* The files are numbered, and each lists its keys in increasing order. *)
KeysListed ==
    /\ \E n \in Nat : DOMAIN idx = 1..n
    /\ \A f \in DOMAIN idx : FileKeys(f) \in Nat
    /\ \A f \in DOMAIN idx : \A i \in 0..FileKeys(f) - 1 : FileKey(f, i) \in Nat \ {NoKey}
    /\ \A f \in DOMAIN idx : \A i, j \in 0..FileKeys(f) - 1 : i < j => FileKey(f, i) < FileKey(f, j)

(* Every open index lists keys of its file. *)
LEMMA OpenKeysListed ==
  ASSUME WriteInv, DeleteInv, idx # <<>>
  PROVE  KeysListed /\ \A f \in DOMAIN idx : IndexOK(idx[f])
<1>1. /\ DOMAIN idx = DOMAIN files
      /\ \A f \in DOMAIN idx : FileHeld(idx[f], files[f], requested, asked)
  BY DEF DeleteInv, Held
<1>2. \A f \in DOMAIN idx : IndexOK(idx[f]) /\ idx[f].b = files[f].index
  BY <1>1 DEF FileHeld
<1>3. \E n \in Nat : DOMAIN idx = 1..n
  <2>1. files \in Seq(Range(files))
    BY DEF WriteInv
  <2>2. PICK n : n = Len(files)
    OBVIOUS
  <2>3. n \in Nat /\ DOMAIN idx = 1..n
    BY <1>1, <2>1, <2>2
  <2> QED  BY <2>3
<1>4. ASSUME NEW f \in DOMAIN idx
      PROVE  /\ FileKeys(f) \in Nat
             /\ \A i \in 0..FileKeys(f) - 1 : FileKey(f, i) \in Nat \ {NoKey}
             /\ \A i, j \in 0..FileKeys(f) - 1 : i < j => FileKey(f, i) < FileKey(f, j)
  <2> PICK d : d = idx[f]
    OBVIOUS
  <2>1. IndexOK(d) /\ d.b = files[f].index /\ FileOK(files[f])
    BY <1>1, <1>2 DEF WriteInv
  <2>2. /\ KeyCount(d) \in Nat /\ KeyCount(d) = Len(d.offsets)
        /\ \A i \in 0..KeyCount(d) - 1 : KeyAt(d, i) = Section(d, i + 1).key
        /\ \A i, j \in 0..KeyCount(d) - 1 : i < j => KeyAt(d, i) < KeyAt(d, j)
    BY <2>1, KeyFacts
  <2>3. ASSUME NEW i \in 0..KeyCount(d) - 1 PROVE KeyAt(d, i) \in Nat \ {NoKey}
    <3>1. i + 1 \in 1..Len(d.offsets)
      BY <2>2
    <3>2. PICK x \in DOMAIN d.b : Section(d, i + 1) = d.b[x]
      BY <2>1, <3>1, SectionOfFile
    <3>3. d.b[x].key \in Nat \ {NoKey}
      BY <2>1 DEF FileOK, SectionsOK
    <3> QED  BY <2>2, <3>2, <3>3
  <2> QED  BY <2>2, <2>3 DEF FileKeys, FileKey
<1> QED  BY <1>2, <1>3, <1>4 DEF KeysListed

(* A walk that stands at places p, with files l not at their end, and has returned o: it has
   returned the keys before p and no key that is not listed, in order, the last one k, and
   what lies ahead is not smaller. *)
Walking(p, l, k, o) ==
    /\ p \in [DOMAIN idx -> Nat] /\ \A f \in DOMAIN idx : p[f] <= FileKeys(f)
    /\ l = {f \in DOMAIN idx : p[f] < FileKeys(f)}
    /\ k \in Nat /\ o \in Seq(Nat)
    /\ o = <<>> => k = NoKey
    /\ o # <<>> => k = o[Len(o)]
    /\ \A f \in DOMAIN idx : \A i \in 0..p[f] - 1 : \E j \in 1..Len(o) : o[j] = FileKey(f, i)
    /\ \A j \in 1..Len(o) : \E f \in DOMAIN idx : \E i \in 0..FileKeys(f) - 1 : o[j] = FileKey(f, i)
    /\ \A j \in 2..Len(o) : o[j - 1] <= o[j]
    /\ \A f \in DOMAIN idx : \A i \in p[f]..FileKeys(f) - 1 : k <= FileKey(f, i)

(* One iterator moves on. *)
Forward(p, f) == [p EXCEPT ![f] = p[f] + 1]

StillLive(p, l, f) == IF p[f] + 1 < FileKeys(f) THEN l ELSE l \ {f}

(* The iterator with the smallest key moves on: the key is returned, unless it was the last. *)
LEMMA WalkMoves ==
  ASSUME KeysListed, NEW p, NEW l, NEW k, NEW o, Walking(p, l, k, o), NEW f \in l,
         NEW key, key = FileKey(f, p[f]), \A y \in l : key <= FileKey(y, p[y]),
         NEW q, q = Forward(p, f), NEW m, m = StillLive(p, l, f)
  PROVE  Walking(q, m, key, Append(o, key)) /\ (k = key => Walking(q, m, k, o))
<1>1. /\ f \in DOMAIN idx /\ p \in [DOMAIN idx -> Nat] /\ p[f] \in Nat /\ FileKeys(f) \in Nat
      /\ p[f] < FileKeys(f) /\ key \in Nat \ {NoKey}
  <2>1. f \in DOMAIN idx /\ p \in [DOMAIN idx -> Nat] /\ p[f] < FileKeys(f)
    BY DEF Walking
  <2>2. p[f] \in Nat /\ FileKeys(f) \in Nat
    BY <2>1 DEF KeysListed
  <2>3. p[f] \in 0..FileKeys(f) - 1
    BY <2>1, <2>2
  <2> QED  BY <2>1, <2>2, <2>3 DEF KeysListed
<1>2. \A y \in DOMAIN idx : p[y] \in Nat /\ FileKeys(y) \in Nat /\ p[y] <= FileKeys(y)
  BY DEF Walking, KeysListed
<1>3. /\ q \in [DOMAIN idx -> Nat] /\ q[f] = p[f] + 1
      /\ \A y \in DOMAIN idx : y # f => q[y] = p[y]
  BY <1>1 DEF Forward
<1>4. \A y \in DOMAIN idx : q[y] <= FileKeys(y)
  BY <1>1, <1>2, <1>3
<1>5. m = {y \in DOMAIN idx : q[y] < FileKeys(y)}
  <2>1. l = {y \in DOMAIN idx : p[y] < FileKeys(y)}
    BY DEF Walking
  <2>2. \A y \in DOMAIN idx : y \in m <=> q[y] < FileKeys(y)
    BY <1>1, <1>2, <1>3, <2>1 DEF StillLive
  <2>3. m \subseteq DOMAIN idx
    BY <2>1 DEF StillLive
  <2> QED  BY <2>2, <2>3
<1>6. ASSUME NEW y \in DOMAIN idx, NEW i \in q[y]..FileKeys(y) - 1 PROVE key <= FileKey(y, i)
  <2>1. i \in Int /\ p[y] <= i /\ i < FileKeys(y) /\ p[y] \in Nat /\ FileKeys(y) \in Nat
    BY <1>1, <1>2, <1>3
  <2>2. p[y] \in 0..FileKeys(y) - 1 /\ i \in 0..FileKeys(y) - 1
    BY <2>1
  <2>3. y \in l
    BY <2>1 DEF Walking
  <2>4. PICK a, b : a = FileKey(y, p[y]) /\ b = FileKey(y, i)
    OBVIOUS
  <2>5. a \in Nat /\ b \in Nat /\ key <= a
    BY <2>2, <2>3, <2>4 DEF KeysListed
  <2>6. p[y] = i \/ a < b
    <3>1. p[y] = i \/ p[y] < i
      BY <2>1
    <3> QED  BY <2>2, <2>4, <3>1 DEF KeysListed
  <2> QED  BY <1>1, <2>4, <2>5, <2>6
<1>7. o \in Seq(Nat) /\ Len(o) \in Nat /\ k \in Nat
  BY DEF Walking
<1>8. ASSUME NEW y \in DOMAIN idx, NEW i \in 0..q[y] - 1
      PROVE  (\E j \in 1..Len(o) : o[j] = FileKey(y, i)) \/ FileKey(y, i) = key
  <2>1. i \in 0..p[y] - 1 \/ (y = f /\ i = p[f])
    BY <1>1, <1>2, <1>3
  <2> QED  BY <2>1 DEF Walking
<1>9. Walking(q, m, key, Append(o, key))
  <2> PICK u, n : u = Append(o, key) /\ n = Len(o)
    OBVIOUS
  <2>1. u \in Seq(Nat) /\ Len(u) = n + 1 /\ u[n + 1] = key /\ n \in Nat /\ \A j \in 1..n : u[j] = o[j]
    BY <1>1, <1>7
  <2>2. u # <<>> /\ key = u[Len(u)]
    BY <2>1
  <2>3. \A y \in DOMAIN idx : \A i \in 0..q[y] - 1 : \E j \in 1..Len(u) : u[j] = FileKey(y, i)
    BY <1>8, <2>1
  <2>4. \A j \in 1..Len(u) : \E y \in DOMAIN idx : \E i \in 0..FileKeys(y) - 1 : u[j] = FileKey(y, i)
    <3>1. p[f] \in 0..FileKeys(f) - 1
      BY <1>1
    <3>2. \A j \in 1..n : \E y \in DOMAIN idx : \E i \in 0..FileKeys(y) - 1 : o[j] = FileKey(y, i)
      BY DEF Walking
    <3>3. \A j \in 1..Len(u) : j \in 1..n \/ j = n + 1
      BY <2>1
    <3> QED  BY <1>1, <2>1, <3>1, <3>2, <3>3
  <2>5. \A j \in 2..Len(u) : u[j - 1] <= u[j]
    <3> SUFFICES ASSUME NEW j \in 2..Len(u) PROVE u[j - 1] <= u[j]
      OBVIOUS
    <3>1. CASE j <= n
      <4>1. j \in 2..n /\ j - 1 \in 1..n /\ j \in 1..n
        BY <2>1, <3>1
      <4> QED  BY <2>1, <4>1 DEF Walking
    <3>2. CASE j = n + 1
      <4>1. n \in 1..n /\ j - 1 = n /\ o # <<>>
        BY <2>1, <3>2
      <4>2. u[n] = o[n] /\ k = o[n]
        BY <2>1, <4>1 DEF Walking
      <4>3. p[f] \in p[f]..FileKeys(f) - 1
        BY <1>1
      <4>4. k <= key
        BY <1>1, <4>3 DEF Walking
      <4> QED  BY <2>1, <3>2, <4>1, <4>2, <4>4
    <3>3. PICK z : z = Len(u)
      OBVIOUS
    <3>4. j \in 2..z /\ z = n + 1 /\ n \in Nat
      BY <2>1, <3>3, Zenon
    <3>5. j <= n \/ j = n + 1
      BY <3>4
    <3> QED  BY <3>1, <3>2, <3>5, Zenon
  <2>6. \A y \in DOMAIN idx : \A i \in q[y]..FileKeys(y) - 1 : key <= FileKey(y, i)
    BY <1>6
  <2>7. key \in Nat /\ u \in Seq(Nat)
    BY <1>1, <2>1
  <2>8. Walking(q, m, key, u)
    BY <1>3, <1>4, <1>5, <2>2, <2>3, <2>4, <2>5, <2>6, <2>7, Zenon DEF Walking
  <2> QED  BY <2>8
<1>10. ASSUME k = key PROVE Walking(q, m, k, o)
  <2>1. o # <<>> /\ k = o[Len(o)]
    BY <1>1, <1>10 DEF Walking
  <2>2. Len(o) \in 1..Len(o)
    BY <1>7, <2>1
  <2>3. \A y \in DOMAIN idx : \A i \in 0..q[y] - 1 : \E j \in 1..Len(o) : o[j] = FileKey(y, i)
    BY <1>8, <1>10, <2>1, <2>2
  <2> QED  BY <1>3, <1>4, <1>5, <1>6, <1>7, <1>10, <2>1, <2>3 DEF Walking
<1> QED  BY <1>9, <1>10
(* The state of a walk. *)
WalkRec(p, l, k, m, o) == [pos |-> p, live |-> l, key |-> k, merging |-> m, out |-> o]

(* mergeKeyIterator.Next moves one iterator on, until all are at their end. *)
LEMMA WalkSteps ==
  ASSUME KeysListed, NEW p, NEW l, NEW k, NEW o, NEW m \in BOOLEAN, Walking(p, l, k, o),
         NEW acc, acc = WalkRec(p, l, k, m, o), l # {}
  PROVE  \E f \in l : \E l2, k2, o2 : \E m2 \in BOOLEAN :
            /\ WalkStep(acc) = WalkRec(Forward(p, f), l2, k2, m2, o2)
            /\ Walking(Forward(p, f), l2, k2, o2)
<1>1. acc.pos = p /\ acc.live = l /\ acc.key = k /\ acc.merging = m /\ acc.out = o
  BY DEF WalkRec
<1>2. \A f \in l : FileKey(f, p[f]) \in Nat
  <2> SUFFICES ASSUME NEW f \in l PROVE FileKey(f, p[f]) \in Nat
    OBVIOUS
  <2>1. f \in DOMAIN idx /\ p \in [DOMAIN idx -> Nat] /\ p[f] < FileKeys(f) /\ FileKeys(f) \in Nat
    BY DEF Walking, KeysListed
  <2>2. p[f] \in 0..FileKeys(f) - 1
    BY <2>1
  <2> QED  BY <2>1, <2>2 DEF KeysListed
<1>3. \E f \in l : \A y \in l : FileKey(f, p[f]) <= FileKey(y, p[y])
  <2> DEFINE S == {FileKey(f, p[f]) : f \in l}
  <2>1. S \in SUBSET Nat /\ S # {}
    BY <1>2
  <2>2. PICK x \in S : \A y \in S : x <= y
    <3> HIDE DEF S
    <3> QED  BY <2>1, NatLeast
  <2> QED  BY <2>2
<1> DEFINE key(x) == KeyAt(idx[x], acc.pos[x])
           f == CHOOSE x \in acc.live : \A y \in acc.live : key(x) <= key(y)
           live == IF acc.pos[f] + 1 < KeyCount(idx[f]) THEN acc.live ELSE acc.live \ {f}
           next == [acc EXCEPT !.pos[f] = @ + 1, !.live = live]
           new == [next EXCEPT !.key = key(f), !.out = Append(@, key(f)),
                               !.merging = Cardinality(live) > 1]
<1>4. \A x \in l : key(x) = FileKey(x, p[x])
  BY <1>1 DEF FileKey
<1>5. f \in l /\ \A y \in l : FileKey(f, p[f]) <= FileKey(y, p[y])
  <2>1. \E x \in acc.live : \A y \in acc.live : key(x) <= key(y)
    <3> HIDE DEF key
    <3> QED  BY <1>1, <1>3, <1>4
  <2>2. f \in acc.live /\ \A y \in acc.live : key(f) <= key(y)
    <3> HIDE DEF key
    <3> QED  BY <2>1, Zenon
  <2> HIDE DEF key, f
  <2> QED  BY <1>1, <1>4, <2>2
<1>6. WalkStep(acc) = IF acc.live = {} THEN acc ELSE IF acc.merging /\ acc.key = key(f) THEN next ELSE new
  BY Zenon DEF WalkStep
<1>7. key(f) = FileKey(f, p[f])
  <2> HIDE DEF key, f
  <2> QED  BY <1>4, <1>5
<1>8. PICK g : g = f
  OBVIOUS
<1>9. PICK c, q, l2 : c = FileKey(g, p[g]) /\ q = Forward(p, g) /\ l2 = StillLive(p, l, g)
  OBVIOUS
<1>10. PICK many : many = (Cardinality(l2) > 1)
  OBVIOUS
<1>11. many \in BOOLEAN
  <2>1. (Cardinality(l2) > 1) \in BOOLEAN
    OBVIOUS
  <2> QED  BY <1>10, <2>1
<1>12. live = l2
  <2> HIDE DEF f
  <2> QED  BY <1>1, <1>8, <1>9 DEF StillLive, FileKeys
<1>13. next = WalkRec(q, l2, k, m, o)
  <2>1. PICK v : v = live
    OBVIOUS
  <2>2. next = [acc EXCEPT !.pos[g] = @ + 1, !.live = v]
    BY <1>8, <2>1, Zenon
  <2>3. [acc EXCEPT !.pos[g] = @ + 1, !.live = v] = WalkRec(q, v, k, m, o)
    <3>1. q = [acc.pos EXCEPT ![g] = (acc.pos)[g] + 1]
      BY <1>1, <1>9, Zenon DEF Forward
    <3>2. [acc EXCEPT !.pos[g] = @ + 1, !.live = v] = [acc EXCEPT !.pos = q, !.live = v]
      BY <3>1, Zenon
    <3>3. PICK a1 : a1 = [acc EXCEPT !.pos = q]
      BY Zenon
    <3>4. a1 = WalkRec(q, l, k, m, o)
      BY <3>3 DEF WalkRec
    <3>5. [a1 EXCEPT !.live = v] = WalkRec(q, v, k, m, o)
      BY <3>4 DEF WalkRec
    <3> QED  BY <3>2, <3>3, <3>5, Zenon
  <2> QED  BY <1>12, <2>1, <2>2, <2>3, Zenon
<1>14. new = WalkRec(q, l2, c, many, Append(o, c))
  <2>1. PICK x : x = next
    BY Zenon
  <2>2. PICK y : y = key(f)
    OBVIOUS
  <2>3. PICK v : v = live
    OBVIOUS
  <2>4. new = [x EXCEPT !.key = y, !.out = Append(@, y), !.merging = Cardinality(v) > 1]
    BY <2>1, <2>2, <2>3, Zenon
  <2>5. x = WalkRec(q, l2, k, m, o)
    BY <1>13, <2>1, Zenon
  <2>6. y = c /\ v = l2
    BY <1>7, <1>8, <1>9, <1>12, <2>2, <2>3, Zenon
  <2>7. PICK u : u = Append(o, c)
    OBVIOUS
  <2>8. x.out = o
    BY <2>5 DEF WalkRec
  <2>9. [x EXCEPT !.key = y, !.out = Append(@, y), !.merging = Cardinality(v) > 1]
        = [x EXCEPT !.key = c, !.out = u, !.merging = many]
    BY <1>10, <2>6, <2>7, <2>8, Zenon
  <2>10. [x EXCEPT !.key = c, !.out = u, !.merging = many] = WalkRec(q, l2, c, many, u)
    <3>1. PICK a1 : a1 = [x EXCEPT !.key = c]
      BY Zenon
    <3>2. PICK a2 : a2 = [a1 EXCEPT !.out = u]
      BY Zenon
    <3>3. a1 = WalkRec(q, l2, c, m, o)
      BY <2>5, <3>1 DEF WalkRec
    <3>4. a2 = WalkRec(q, l2, c, m, u)
      BY <3>2, <3>3 DEF WalkRec
    <3>5. [a2 EXCEPT !.merging = many] = WalkRec(q, l2, c, many, u)
      BY <3>4 DEF WalkRec
    <3> QED  BY <3>1, <3>2, <3>5, Zenon
  <2> QED  BY <2>4, <2>7, <2>9, <2>10, Zenon
<1>15. Walking(q, l2, c, Append(o, c)) /\ (k = c => Walking(q, l2, k, o))
  <2>1. g \in l /\ \A y \in l : c <= FileKey(y, p[y])
    BY <1>5, <1>8, <1>9, Zenon
  <2> QED  BY <1>9, <2>1, WalkMoves
<1>16. WalkStep(acc) = IF m /\ k = c THEN WalkRec(q, l2, k, m, o) ELSE WalkRec(q, l2, c, many, Append(o, c))
  <2> HIDE DEF key, f, live, next, new
  <2>1. acc.live # {}
    BY <1>1
  <2>2. key(f) = c
    BY <1>7, <1>8, <1>9, Zenon
  <2> QED  BY <1>1, <1>6, <1>13, <1>14, <2>1, <2>2, Zenon
<1> HIDE DEF key, f, live, next, new
<1>17. g \in l
  BY <1>5, <1>8, Zenon
<1>18. CASE m /\ k = c
  <2>1. WalkStep(acc) = WalkRec(q, l2, k, m, o)
    BY <1>16, <1>18, Zenon
  <2>2. Walking(q, l2, k, o)
    BY <1>15, <1>18
  <2> QED  BY <1>9, <1>17, <2>1, <2>2, Zenon
<1>19. CASE ~(m /\ k = c)
  <2>1. WalkStep(acc) = WalkRec(q, l2, c, many, Append(o, c))
    BY <1>16, <1>19, Zenon
  <2> QED  BY <1>9, <1>11, <1>15, <1>17, <2>1, Zenon
<1> QED  BY <1>18, <1>19
(* All states of a walk. *)
WalkStates ==
    {a \in [pos : [DOMAIN idx -> Nat], live : SUBSET DOMAIN idx, key : Nat, merging : BOOLEAN, out : Seq(Nat)] :
        a = WalkRec(a.pos, a.live, a.key, a.merging, a.out) /\ Walking(a.pos, a.live, a.key, a.out)}

LEMMA WalkStateIs ==
  ASSUME NEW p, NEW l, NEW k, NEW o, NEW m \in BOOLEAN, Walking(p, l, k, o), NEW a, a = WalkRec(p, l, k, m, o)
  PROVE  a \in WalkStates /\ a.pos = p /\ a.live = l /\ a.key = k /\ a.out = o
<1>1. a.pos = p /\ a.live = l /\ a.key = k /\ a.merging = m /\ a.out = o
  BY DEF WalkRec
<1>2. p \in [DOMAIN idx -> Nat] /\ l \in SUBSET DOMAIN idx /\ k \in Nat /\ o \in Seq(Nat)
  BY DEF Walking
<1>3. a \in [pos : [DOMAIN idx -> Nat], live : SUBSET DOMAIN idx, key : Nat, merging : BOOLEAN, out : Seq(Nat)]
  BY <1>2 DEF WalkRec
<1> QED  BY <1>1, <1>3 DEF WalkStates

(* A step of a walk. *)
LEMMA WalkStepKeeps ==
  ASSUME KeysListed, NEW a \in WalkStates
  PROVE  /\ WalkStep(a) \in WalkStates
         /\ a.live # {} => \E f \in a.live : WalkStep(a).pos = Forward(a.pos, f)
         /\ a.live = {} => WalkStep(a) = a
<1>1. PICK p, l, k, o, m : p = a.pos /\ l = a.live /\ k = a.key /\ o = a.out /\ m = a.merging
  OBVIOUS
<1>2. a = WalkRec(p, l, k, m, o) /\ Walking(p, l, k, o) /\ m \in BOOLEAN
  BY <1>1, Zenon DEF WalkStates
<1>3. CASE l = {}
  <2>1. WalkStep(a) = a
    BY <1>1, <1>3, Zenon DEF WalkStep
  <2> QED  BY <1>1, <1>3, <2>1
<1>4. CASE l # {}
  <2>1. PICK f \in l : \E l2, k2, o2 : \E m2 \in BOOLEAN :
            /\ WalkStep(a) = WalkRec(Forward(p, f), l2, k2, m2, o2)
            /\ Walking(Forward(p, f), l2, k2, o2)
    BY <1>2, <1>4, WalkSteps
  <2>2. PICK l2, k2, o2, m2 : /\ m2 \in BOOLEAN
                              /\ WalkStep(a) = WalkRec(Forward(p, f), l2, k2, m2, o2)
                              /\ Walking(Forward(p, f), l2, k2, o2)
    BY <2>1, Zenon
  <2>3. PICK b, q : b = WalkStep(a) /\ q = Forward(p, f)
    OBVIOUS
  <2>4. b \in WalkStates /\ b.pos = q
    BY <2>2, <2>3, WalkStateIs
  <2> QED  BY <1>1, <1>4, <2>3, <2>4
<1> QED  BY <1>3, <1>4

(* The places of all keys, and those a walk has not reached. *)
Places == UNION {{f} \X (0..FileKeys(f) - 1) : f \in DOMAIN idx}

Left(p) == {x \in Places : p[x[1]] <= x[2]}

LEMMA PlacesFinite ==
  ASSUME KeysListed
  PROVE  IsFiniteSet(Places)
<1>1. PICK n \in Nat : DOMAIN idx = 1..n
  BY DEF KeysListed
<1> DEFINE Of(f) == {f} \X (0..FileKeys(f) - 1)
           FirstPlaces(m) == UNION {Of(f) : f \in 1..m}
           S == {m \in 0..n : IsFiniteSet(FirstPlaces(m))}
<1>2. ASSUME NEW f \in 1..n PROVE IsFiniteSet(Of(f))
  <2>1. FileKeys(f) \in Nat
    BY <1>1 DEF KeysListed
  <2>2. IsFiniteSet(0..FileKeys(f) - 1) /\ IsFiniteSet({f})
    <3>1. PICK b : b = FileKeys(f) - 1
      OBVIOUS
    <3>2. b \in Int /\ 0 \in Int
      BY <2>1, <3>1
    <3>3. IsFiniteSet(0..b)
      BY <3>2, FS_Interval
    <3>4. IsFiniteSet({f})
      BY FS_Singleton
    <3> QED  BY <3>1, <3>3, <3>4
  <2> QED  BY <2>2, FS_Product
<1>3. 0 \in S
  <2>1. FirstPlaces(0) = {}
    OBVIOUS
  <2> HIDE DEF FirstPlaces
  <2> QED  BY <2>1, FS_EmptySet
<1>4. ASSUME NEW m \in 0..n, m \in S, m < n PROVE m + 1 \in S
  <2>1. m + 1 \in 0..n /\ m + 1 \in 1..n /\ \A f \in 1..m + 1 : f \in 1..m \/ f = m + 1
    BY <1>4
  <2>2. FirstPlaces(m + 1) = FirstPlaces(m) \cup Of(m + 1)
    <3> HIDE DEF Of
    <3>1. \A f \in 1..m : f \in 1..m + 1
      OBVIOUS
    <3>2. m + 1 \in 1..m + 1
      OBVIOUS
    <3> QED  BY <2>1, <3>1, <3>2
  <2>3. IsFiniteSet(FirstPlaces(m)) /\ IsFiniteSet(Of(m + 1))
    BY <1>2, <1>4, <2>1
  <2> HIDE DEF FirstPlaces, Of
  <2>4. IsFiniteSet(FirstPlaces(m + 1))
    <3>1. PICK A, B : A = FirstPlaces(m) /\ B = Of(m + 1)
      OBVIOUS
    <3>2. IsFiniteSet(A \cup B)
      BY <2>3, <3>1, FS_Union
    <3> QED  BY <2>2, <3>1, <3>2
  <2> QED  BY <2>1, <2>4
<1>5. n \in S
  <2> HIDE DEF S
  <2>1. \A m \in 0..n : m \in S
    BY <1>3, <1>4, SetInduction
  <2> QED  BY <2>1
<1>6. Places = FirstPlaces(n)
  BY <1>1, Zenon DEF Places
<1> HIDE DEF FirstPlaces
<1> QED  BY <1>5, <1>6

(* A step passes one place. *)
LEMMA LeftShrinks ==
  ASSUME KeysListed, NEW p \in [DOMAIN idx -> Nat], NEW f \in DOMAIN idx, p[f] < FileKeys(f)
  PROVE  <<f, p[f]>> \in Left(p) /\ Left(Forward(p, f)) = Left(p) \ {<<f, p[f]>>}
<1> PICK q, n : q = Forward(p, f) /\ n = p[f]
  OBVIOUS
<1>1. n \in Nat /\ FileKeys(f) \in Nat /\ n \in 0..FileKeys(f) - 1
  BY DEF KeysListed
<1>2. <<f, n>> \in Places
  BY <1>1 DEF Places
<1>3. q[f] = n + 1 /\ \A y \in DOMAIN idx : y # f => q[y] = p[y]
  BY DEF Forward
<1>4. ASSUME NEW x \in Places
      PROVE  q[x[1]] <= x[2] <=> (p[x[1]] <= x[2] /\ x # <<f, n>>)
  <2>1. PICK y \in DOMAIN idx : x \in {y} \X (0..FileKeys(y) - 1)
    BY DEF Places
  <2>2. PICK i \in 0..FileKeys(y) - 1 : x = <<y, i>>
    BY <2>1
  <2>3. x[1] = y /\ x[2] = i /\ i \in Int /\ p[y] \in Nat
    BY <2>2
  <2>4. CASE y = f
    <3>1. x # <<f, n>> <=> i # n
      BY <2>2, <2>4
    <3>2. n + 1 <= i <=> n <= i /\ i # n
      BY <1>1, <2>3
    <3> QED  BY <1>3, <2>3, <2>4, <3>1, <3>2
  <2>5. CASE y # f
    <3>1. x # <<f, n>>
      BY <2>2, <2>5
    <3> QED  BY <1>3, <2>3, <2>5, <3>1
  <2> QED  BY <2>4, <2>5
<1>5. <<f, n>> \in Left(p)
  <2>1. PICK x : x = <<f, n>>
    OBVIOUS
  <2>2. x[1] = f /\ x[2] = n /\ p[x[1]] <= x[2]
    BY <1>1, <2>1
  <2> QED  BY <1>2, <2>1, <2>2 DEF Left
<1>6. \A x : x \in Left(q) <=> x \in Left(p) /\ x # <<f, n>>
  BY <1>4 DEF Left
<1> QED  BY <1>5, <1>6
(* After a step for each key of each file every iterator is at its end. *)
LEMMA WalkEnds ==
  ASSUME KeysListed
  PROVE  \E a \in WalkStates : a.live = {} /\ WalkKeys = a.out
<1> DEFINE start == {f \in DOMAIN idx : KeyCount(idx[f]) > 0}
           n == Cardinality(UNION {{f} \X (0..KeyCount(idx[f]) - 1) : f \in DOMAIN idx})
           base == [pos |-> [f \in DOMAIN idx |-> 0], live |-> start, key |-> NoKey,
                    merging |-> Cardinality(start) > 1, out |-> <<>>]
           Def(u) == u = [m \in 0..n |-> IF m = 0 THEN base ELSE WalkStep(u[m - 1])]
           w0 == CHOOSE u : Def(u)
           h == [m \in 1..n |-> [a \in WalkStates |-> WalkStep(a)]]
<1>1. WalkKeys = w0[n].out
  BY Zenon DEF WalkKeys
<1>2. n = Cardinality(Places)
  BY Zenon DEF Places, FileKeys
<1>3. n \in Nat /\ IsFiniteSet(Places)
  BY <1>2, PlacesFinite, FS_CardinalityType
<1>4. base \in WalkStates /\ base.pos = [f \in DOMAIN idx |-> 0]
  <2>1. PICK p, l, m : p = [f \in DOMAIN idx |-> 0] /\ l = start /\ m = (Cardinality(l) > 1)
    OBVIOUS
  <2>2. m \in BOOLEAN
    <3>1. (Cardinality(l) > 1) \in BOOLEAN
      OBVIOUS
    <3> QED  BY <2>1, <3>1
  <2>3. base = WalkRec(p, l, NoKey, m, <<>>)
    BY <2>1, Zenon DEF WalkRec
  <2>4. p \in [DOMAIN idx -> Nat] /\ \A f \in DOMAIN idx : p[f] = 0 /\ FileKeys(f) \in Nat
    BY <2>1 DEF KeysListed
  <2>5. l = {f \in DOMAIN idx : p[f] < FileKeys(f)}
    BY <2>1, <2>4 DEF FileKeys
  <2>6. NoKey \in Nat /\ <<>> \in Seq(Nat) /\ Len(<<>>) = 0
    BY DEF NoKey
  <2>7. \A f \in DOMAIN idx : \A i \in p[f]..FileKeys(f) - 1 : NoKey <= FileKey(f, i)
    BY <2>4 DEF KeysListed, NoKey
  <2>8. \A f \in DOMAIN idx : p[f] <= FileKeys(f)
    BY <2>4
  <2>9. PICK e : e = <<>>
    OBVIOUS
  <2>10. /\ e \in Seq(Nat) /\ (e # <<>> => NoKey = e[Len(e)])
         /\ \A j \in 1..Len(e) : FALSE
         /\ \A j \in 2..Len(e) : FALSE
         /\ \A f \in DOMAIN idx : \A i \in 0..p[f] - 1 : FALSE
    BY <2>4, <2>6, <2>9
  <2>11. Walking(p, l, NoKey, e)
    BY <2>4, <2>5, <2>6, <2>7, <2>8, <2>10, Zenon DEF Walking
  <2> HIDE DEF base
  <2>12. base = WalkRec(p, l, NoKey, m, e)
    BY <2>3, <2>9, Zenon
  <2>13. base \in WalkStates /\ base.pos = p
    BY <2>2, <2>11, <2>12, WalkStateIs
  <2> QED  BY <2>1, <2>13
<1>5. \A a \in WalkStates : WalkStep(a) \in WalkStates
  BY WalkStepKeeps
<1> HIDE DEF n, base
<1>6. h \in [1..n -> [WalkStates -> WalkStates]] /\ \A m \in 1..n, a \in WalkStates : h[m][a] = WalkStep(a)
  BY <1>5
<1> HIDE DEF h
<1>7. PICK g \in [0..n -> WalkStates] : g[0] = base /\ \A m \in 1..n : g[m] = h[m][g[m - 1]]
  <2>1. \E g \in [0..n -> WalkStates] : Stepwise(g, n, base, h)
    BY <1>3, <1>4, <1>6, StepwiseFunction
  <2> QED  BY <2>1 DEF Stepwise
<1>8. \A m \in 1..n : m - 1 \in 0..n /\ g[m - 1] \in WalkStates /\ g[m] = WalkStep(g[m - 1])
  BY <1>3, <1>6, <1>7
<1>9. Def(g)
  BY <1>3, <1>7, <1>8
<1>10. Def(w0)
  <2> HIDE DEF Def
  <2> QED  BY <1>9
<1> HIDE DEF w0
<1>11. w0[0] = base /\ \A m \in 1..n : w0[m] = WalkStep(w0[m - 1])
  <2>1. \A m \in 0..n : w0[m] = (IF m = 0 THEN base ELSE WalkStep(w0[m - 1]))
    BY <1>10
  <2> QED  BY <1>3, <2>1
<1> HIDE DEF Def
<1> DEFINE Good(a, m) == a \in WalkStates /\ Cardinality(Left(a.pos)) <= n - m
           S == {m \in 0..n : Good(w0[m], m)}
<1>12. \A a : Left(a.pos) \in SUBSET Places /\ IsFiniteSet(Left(a.pos)) /\ Cardinality(Left(a.pos)) \in Nat
              /\ Cardinality(Left(a.pos)) <= n
  <2> SUFFICES ASSUME NEW a
               PROVE  /\ Left(a.pos) \in SUBSET Places /\ IsFiniteSet(Left(a.pos))
                      /\ Cardinality(Left(a.pos)) \in Nat /\ Cardinality(Left(a.pos)) <= n
    OBVIOUS
  <2>1. PICK L : L = Left(a.pos)
    OBVIOUS
  <2>2. L \in SUBSET Places
    BY <2>1 DEF Left
  <2>3. IsFiniteSet(L) /\ Cardinality(L) <= Cardinality(Places)
    BY <1>3, <2>2, FS_Subset
  <2>4. Cardinality(L) \in Nat
    BY <2>3, FS_CardinalityType
  <2> QED  BY <1>2, <2>1, <2>2, <2>3, <2>4
<1>13. 0 \in S
  <2>1. Good(base, 0)
    BY <1>3, <1>4, <1>12
  <2> HIDE DEF Good
  <2> QED  BY <1>3, <1>11, <2>1
<1>14. ASSUME NEW m \in 0..n, m \in S, m < n PROVE m + 1 \in S
  <2>1. PICK a, b : a = w0[m] /\ b = w0[m + 1]
    OBVIOUS
  <2>2. a \in WalkStates /\ Cardinality(Left(a.pos)) <= n - m
    BY <1>14, <2>1
  <2>3. m + 1 \in 0..n /\ b = WalkStep(a)
    BY <1>3, <1>11, <1>14, <2>1
  <2>4. /\ b \in WalkStates
        /\ a.live # {} => \E f \in a.live : b.pos = Forward(a.pos, f)
        /\ a.live = {} => b = a
    BY <2>2, <2>3, WalkStepKeeps
  <2>5. /\ a.pos \in [DOMAIN idx -> Nat] /\ a.live = {f \in DOMAIN idx : a.pos[f] < FileKeys(f)}
        /\ \A f \in DOMAIN idx : a.pos[f] <= FileKeys(f)
    BY <2>2 DEF WalkStates, Walking
  <2>6. CASE a.live # {}
    <3>1. PICK f \in a.live : b.pos = Forward(a.pos, f)
      BY <2>4, <2>6
    <3>2. PICK p, x : p = a.pos /\ x = <<f, p[f]>>
      OBVIOUS
    <3>3. f \in DOMAIN idx /\ p[f] < FileKeys(f) /\ p \in [DOMAIN idx -> Nat]
      BY <2>5, <3>2
    <3>4. x \in Left(p) /\ Left(b.pos) = Left(p) \ {x}
      BY <3>1, <3>2, <3>3, LeftShrinks
    <3>5. PICK L, M : L = Left(p) /\ M = L \ {x}
      OBVIOUS
    <3>6. IsFiniteSet(L) /\ Cardinality(L) \in Nat /\ Cardinality(L) <= n - m
      BY <1>12, <2>2, <3>2, <3>5
    <3>7. Cardinality(M) = Cardinality(L) - 1
      BY <3>4, <3>5, <3>6, FS_RemoveElement
    <3>8. M = Left(b.pos)
      BY <3>4, <3>5
    <3>9. Cardinality(Left(b.pos)) <= n - (m + 1)
      BY <1>3, <3>6, <3>7, <3>8
    <3> QED  BY <2>1, <2>3, <2>4, <3>9
  <2>7. CASE a.live = {}
    <3>1. Left(a.pos) = {}
      <4> SUFFICES ASSUME NEW x \in Left(a.pos) PROVE FALSE
        OBVIOUS
      <4>1. PICK f \in DOMAIN idx : x \in {f} \X (0..FileKeys(f) - 1)
        BY DEF Left, Places
      <4>2. PICK i \in 0..FileKeys(f) - 1 : x = <<f, i>>
        BY <4>1
      <4>3. a.pos[f] <= i
        BY <4>2 DEF Left
      <4>4. a.pos[f] \in Nat /\ FileKeys(f) \in Nat /\ ~(a.pos[f] < FileKeys(f))
        BY <2>5, <2>7 DEF KeysListed
      <4> QED  BY <4>2, <4>3, <4>4
    <3>2. Cardinality(Left(b.pos)) = 0
      BY <2>4, <2>7, <3>1, FS_EmptySet
    <3>3. 0 <= n - (m + 1)
      BY <1>3, <1>14
    <3> QED  BY <2>1, <2>3, <2>4, <3>2, <3>3
  <2> QED  BY <2>6, <2>7
<1>15. n \in S
  <2> HIDE DEF S
  <2>1. \A m \in 0..n : m \in S
    BY <1>3, <1>13, <1>14, SetInduction
  <2> QED  BY <1>3, <2>1
<1>16. PICK a : a = w0[n]
  OBVIOUS
<1>17. a \in WalkStates /\ Cardinality(Left(a.pos)) <= 0
  BY <1>3, <1>15, <1>16
<1>18. Left(a.pos) = {}
  <2>1. PICK L : L = Left(a.pos)
    OBVIOUS
  <2>2. IsFiniteSet(L) /\ Cardinality(L) = 0
    BY <1>12, <1>17, <2>1
  <2> QED  BY <2>1, <2>2, FS_EmptySet
<1>19. a.live = {}
  <2> SUFFICES ASSUME NEW f \in a.live PROVE FALSE
    OBVIOUS
  <2>1. a.pos \in [DOMAIN idx -> Nat] /\ f \in DOMAIN idx /\ a.pos[f] < FileKeys(f)
    BY <1>17 DEF WalkStates, Walking
  <2> QED  BY <1>18, <2>1, LeftShrinks
<1> QED  BY <1>1, <1>16, <1>17, <1>19

(* FileStore.WalkKeys meets every key that any file lists and no other, in order, though
   mergeKeyIterator.Next skips a key only when it saw the same one just before, and
   indirectIndex.Seek finds the place of each key: for any number of files and keys,
   whatever deletes have removed. *)
THEOREM WalkMeetsEveryKey == Spec => []KeysWalked
<1>1. ASSUME Inv PROVE KeysWalked
  <2> SUFFICES ASSUME idx # <<>>
               PROVE  LET listed(f) == {KeyAt(idx[f], i) : i \in 0..KeyCount(idx[f]) - 1} IN
                      /\ Range(WalkKeys) = UNION {listed(f) : f \in DOMAIN idx}
                      /\ \A i \in 2..Len(WalkKeys) : WalkKeys[i - 1] <= WalkKeys[i]
                      /\ \A f \in DOMAIN idx : \A k \in listed(f) : KeyAt(idx[f], Seek(idx[f], k)) = k
    BY DEF KeysWalked
  <2> DEFINE listed(f) == {KeyAt(idx[f], i) : i \in 0..KeyCount(idx[f]) - 1}
  <2>1. KeysListed /\ \A f \in DOMAIN idx : IndexOK(idx[f])
    BY <1>1, OpenKeysListed DEF Inv
  <2>2. PICK a \in WalkStates : a.live = {} /\ WalkKeys = a.out
    BY <2>1, WalkEnds
  <2>3. PICK o, p, k : o = a.out /\ p = a.pos /\ k = a.key
    OBVIOUS
  <2>4. Walking(p, {}, k, o) /\ WalkKeys = o
    BY <2>2, <2>3, Zenon DEF WalkStates
  <2>5. o \in Seq(Nat) /\ \A i \in 2..Len(o) : o[i - 1] <= o[i]
    BY <2>4 DEF Walking
  <2>6. Range(o) = {o[j] : j \in 1..Len(o)}
    BY <2>5 DEF Range
  <2>7. \A j \in 1..Len(o) : \E f \in DOMAIN idx : o[j] \in listed(f)
    BY <2>4 DEF Walking, FileKey, FileKeys
  <2>8. \A f \in DOMAIN idx : p[f] = FileKeys(f)
    <3> SUFFICES ASSUME NEW f \in DOMAIN idx PROVE p[f] = FileKeys(f)
      OBVIOUS
    <3>1. p[f] \in Nat /\ FileKeys(f) \in Nat /\ p[f] <= FileKeys(f) /\ ~(p[f] < FileKeys(f))
      BY <2>1, <2>4 DEF Walking, KeysListed
    <3> QED  BY <3>1
  <2>9. \A f \in DOMAIN idx : \A i \in 0..FileKeys(f) - 1 : \E j \in 1..Len(o) : o[j] = FileKey(f, i)
    BY <2>4, <2>8, Zenon DEF Walking
  <2>10. \A f \in DOMAIN idx : \A x \in listed(f) : \E j \in 1..Len(o) : o[j] = x
    BY <2>9 DEF FileKey, FileKeys
  <2>11. ASSUME NEW f \in DOMAIN idx, NEW x \in listed(f) PROVE KeyAt(idx[f], Seek(idx[f], x)) = x
    <3>1. PICK i \in 0..KeyCount(idx[f]) - 1 : x = KeyAt(idx[f], i)
      OBVIOUS
    <3>2. Seek(idx[f], KeyAt(idx[f], i)) = i
      BY <2>1, SeekFindsEveryKey
    <3> QED  BY <3>1, <3>2
  <2>12. Range(o) = UNION {listed(f) : f \in DOMAIN idx}
    <3> HIDE DEF listed
    <3> QED  BY <2>6, <2>7, <2>10
  <2> HIDE DEF listed
  <2>13. /\ Range(WalkKeys) = UNION {listed(f) : f \in DOMAIN idx}
         /\ \A i \in 2..Len(WalkKeys) : WalkKeys[i - 1] <= WalkKeys[i]
    BY <2>4, <2>5, <2>12, Zenon
  <2> QED  BY <2>11, <2>13, Zenon DEF listed
<1> QED  BY <1>1, FileInvariant, PTL
=============================================================================
