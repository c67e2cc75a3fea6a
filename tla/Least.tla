------------------------------- MODULE Least -------------------------------
(***************************************************************************)
(* The least and the greatest element of a set: what the proofs about      *)
(* CHOOSE of a minimum, and about a walk that stops at a first place, rest *)
(* on.  No theorem here takes an operator as a parameter.                  *)
(***************************************************************************)
EXTENDS Integers, FiniteSets, TLAPS, FiniteSetTheorems, WellFoundedInduction

\* A finite non-empty set with a strict order has a minimal element.
THEOREM FiniteMinimal ==
    ASSUME NEW T, IsFiniteSet(T), T # {}, NEW R,
           \A x \in T : <<x, x>> \notin R,
           \A x, y, z \in T : <<x, y>> \in R /\ <<y, z>> \in R => <<x, z>> \in R
    PROVE  \E x \in T : \A y \in T : <<y, x>> \notin R
<1> DEFINE Down(x) == {y \in T : y = x \/ <<y, x>> \in R}
           C == {Down(x) : x \in T}
<1>1. IsWellFoundedOn(StrictSubsetOrdering(T), SUBSET T)
  BY FS_StrictSubsetOrderingWellFounded, FS_FiniteSubsetsOfFinite
<1>2. C \subseteq SUBSET T /\ C # {}
  <2>1. \A x \in T : Down(x) \in C /\ Down(x) \in SUBSET T
    OBVIOUS
  <2>2. \A E \in C : \E x \in T : E = Down(x)
    OBVIOUS
  <2> HIDE DEF C, Down
  <2> QED  BY <2>1, <2>2
<1> HIDE DEF C
<1>3. PICK D \in C : \A E \in C : ~(<<E, D>> \in StrictSubsetOrdering(T))
  BY <1>1, <1>2, WFMin
<1>4. PICK x \in T : D = Down(x)
  BY <1>3 DEF C
<1>5. ASSUME NEW y \in T, <<y, x>> \in R PROVE FALSE
  <2>1. Down(y) \subseteq Down(x)
    BY <1>5
  <2>2. x \in Down(x) /\ x \notin Down(y)
    BY <1>5
  <2>3. Down(y) \in C
    BY DEF C
  <2>4. <<Down(y), Down(x)>> \in StrictSubsetOrdering(T)
    <3> DEFINE a == Down(y)  b == Down(x)
    <3>1. a \in SUBSET T /\ b \in SUBSET T /\ a \subseteq b /\ a # b
      BY <2>1, <2>2
    <3> HIDE DEF a, b
    <3>2. <<a, b>> \in StrictSubsetOrdering(T)
      BY <3>1 DEF StrictSubsetOrdering
    <3> QED  BY <3>2 DEF a, b
  <2> QED  BY <2>3, <2>4, <1>3, <1>4
<1> QED  BY <1>5

\* A non-empty set of naturals has a least element.
THEOREM NatLeast ==
    ASSUME NEW S \in SUBSET Nat, S # {}
    PROVE  \E x \in S : \A y \in S : x <= y
<1> PICK n \in S : TRUE
  OBVIOUS
<1> DEFINE T == {m \in S : m <= n}
           R == {p \in T \X T : p[1] < p[2]}
<1>1. IsFiniteSet(T) /\ T # {}
  BY FS_BoundedSetOfNaturals
<1>2. /\ \A x \in T : <<x, x>> \notin R
      /\ \A x, y, z \in T : <<x, y>> \in R /\ <<y, z>> \in R => <<x, z>> \in R
  OBVIOUS
<1>3. \A x, y \in T : <<y, x>> \notin R => x <= y
  OBVIOUS
<1>4. \A x \in T : \A y \in S : y \notin T => x <= y
  OBVIOUS
<1> HIDE DEF T, R
<1>5. PICK x \in T : \A y \in T : <<y, x>> \notin R
  BY <1>1, <1>2, FiniteMinimal
<1> QED  BY <1>3, <1>4, <1>5 DEF T

\* A non-empty set of naturals with a bound has a greatest element.
THEOREM NatGreatest ==
    ASSUME NEW S \in SUBSET Nat, S # {}, NEW n \in Nat, \A x \in S : x <= n
    PROVE  \E x \in S : \A y \in S : y <= x
<1> DEFINE M == {n - x : x \in S}
<1>1. \A x \in S : n - x \in Nat /\ n - x \in M
  OBVIOUS
<1>2. M # {}
  BY <1>1
<1>3. \A m \in M : \E x \in S : m = n - x
  OBVIOUS
<1> HIDE DEF M
<1>4. PICK m \in M : \A k \in M : m <= k
  BY <1>1, <1>2, <1>3, NatLeast
<1>5. PICK x \in S : m = n - x
  BY <1>3
<1>6. \A y \in S : y <= x
  BY <1>1, <1>4, <1>5
<1> QED  BY <1>6

\* Induction up to n, over a set in place of a predicate.
THEOREM SetInduction ==
    ASSUME NEW n \in Nat, NEW S, 0 \in S, \A m \in 0..n : m \in S /\ m < n => m + 1 \in S
    PROVE  \A m \in 0..n : m \in S
<1> DEFINE B == {m \in 0..n : m \notin S}
<1> SUFFICES ASSUME B # {} PROVE FALSE
  OBVIOUS
<1>1. B \in SUBSET Nat
  OBVIOUS
<1>2. PICK m \in B : \A k \in B : m <= k
  <2> HIDE DEF B
  <2> QED  BY <1>1, NatLeast
<1>3. m \in 0..n /\ m # 0 /\ m \notin S
  BY <1>2
<1>4. m - 1 \in 0..n /\ m - 1 < n /\ m - 1 \notin B
  BY <1>2, <1>3
<1>5. m - 1 + 1 = m
  BY <1>3
<1> QED  BY <1>3, <1>4, <1>5

\* The values of g up to n, each from the one before it.
Stepwise(g, n, base, h) == g[0] = base /\ \A j \in 1..n : g[j] = h[j][g[j - 1]]

\* A function may be defined step by step.
THEOREM StepwiseFunction ==
    ASSUME NEW X, NEW n \in Nat, NEW base \in X, NEW h \in [1..n -> [X -> X]]
    PROVE  \E g \in [0..n -> X] : Stepwise(g, n, base, h)
<1> USE DEF Stepwise
<1> DEFINE Good(g, m) == g[0] = base /\ \A j \in 1..m : g[j] = h[j][g[j - 1]]
           S == {m \in 0..n : \E g \in [0..m -> X] : Good(g, m)}
<1>1. 0 \in S
  <2> DEFINE g == [j \in 0..0 |-> base]
  <2>1. g \in [0..0 -> X]
    OBVIOUS
  <2>2. g[0] = base /\ \A j \in 1..0 : g[j] = h[j][g[j - 1]]
    OBVIOUS
  <2> HIDE DEF g
  <2> QED  BY <2>1, <2>2
<1>2. ASSUME NEW m \in 0..n, m \in S, m < n PROVE m + 1 \in S
  <2>1. PICK g \in [0..m -> X] : Good(g, m)
    BY <1>2
  <2> DEFINE f == [j \in 0..(m + 1) |-> IF j <= m THEN g[j] ELSE h[m + 1][g[m]]]
  <2>2. g[m] \in X /\ m + 1 \in 1..n /\ h[m + 1][g[m]] \in X
    BY <1>2, <2>1
  <2>3. f \in [0..(m + 1) -> X]
    BY <2>1, <2>2
  <2>4. f[0] = base
    BY <2>1, <1>2
  <2>5. ASSUME NEW j \in 1..(m + 1) PROVE f[j] = h[j][f[j - 1]]
    <3>1. j - 1 \in 0..m /\ f[j - 1] = g[j - 1]
      BY <1>2
    <3>2. CASE j <= m
      BY <2>1, <3>1, <3>2, <1>2
    <3>3. CASE j = m + 1
      BY <3>1, <3>3, <1>2
    <3> QED  BY <3>2, <3>3, <1>2
  <2>6. Good(f, m + 1)
    BY <2>4, <2>5
  <2> HIDE DEF f, Good
  <2> QED  BY <1>2, <2>3, <2>6
<1>3. n \in S
  <2> HIDE DEF S
  <2>1. \A m \in 0..n : m \in S
    BY <1>1, <1>2, SetInduction
  <2> QED  BY <2>1
<1> QED  BY <1>3
=============================================================================
