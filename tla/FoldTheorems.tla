---------------------------- MODULE FoldTheorems ----------------------------
(***************************************************************************)
(* Induction over the elements of a fold. The library states it for every  *)
(* predicate; here it is stated of a set, which the provers can use.       *)
(***************************************************************************)
EXTENDS Integers, SequencesExt, FiniteSetsExt, WellFoundedInduction, FiniteSetTheorems, TLAPS

\* FoldLeft takes the last of the elements 1..k first, and what is before it then.
LEMMA LastOfSegment ==
  ASSUME NEW k \in Nat
  PROVE  /\ 1..k + 1 # {} /\ Max(1..k + 1) = k + 1
         /\ (1..k + 1) \ {Max(1..k + 1)} = 1..k
         /\ 1..0 = {}
<1>1. \A x \in 1..k+1 : (\A y \in 1..k+1 : x >= y) => x = k + 1
  OBVIOUS
<1>2. \E x \in 1..k+1 : (\A y \in 1..k+1 : x >= y)
  OBVIOUS
<1>3. Max(1..k+1) = k + 1
  BY <1>1, <1>2 DEF Max
<1>4. QED
  BY <1>3

\* A set that holds 0 and the successor of each of its members below n holds all up to n.
LEMMA SegmentInduction ==
  ASSUME NEW n \in Nat, NEW T, 0 \in T, \A k \in 0..n-1 : k \in T => k + 1 \in T
  PROVE  \A k \in 0..n : k \in T
<1> DEFINE Missing == {0..k : k \in (0..n) \ T}
<1>1. SUFFICES ASSUME Missing # {} PROVE FALSE
  OBVIOUS
<1>2. \A k \in 0..n : IsFiniteSet(0..k) /\ 0..k \in SUBSET (0..n)
  BY FS_Interval
<1>3. Missing \subseteq FiniteSubsetsOf(0..n)
  BY <1>2 DEF FiniteSubsetsOf
<1>4. PICK M \in Missing : \A N \in Missing : <<N, M>> \notin StrictSubsetOrdering(0..n)
  BY <1>1, <1>3, WFMin, FS_StrictSubsetOrderingWellFounded
<1>5. PICK k \in 0..n : k \notin T /\ M = 0..k
  BY <1>4
<1>6. k # 0
  BY <1>5
<1>7. k - 1 \in 0..n - 1 /\ k - 1 \notin T /\ k - 1 \in 0..n
  BY <1>5, <1>6
<1>8. 0..(k - 1) \in Missing
  BY <1>7
<1>9. 0..(k-1) \subseteq 0..k /\ k \in 0..k /\ k \notin 0..(k-1)
  BY <1>5
<1>10. 0..(k-1) \in SUBSET (0..n) /\ 0..k \in SUBSET (0..n) /\ 0..(k-1) # 0..k
  BY <1>2, <1>5, <1>7, <1>9
<1>11. <<0..(k-1), 0..k>> \in StrictSubsetOrdering(0..n)
  BY <1>9, <1>10 DEF StrictSubsetOrdering
<1>12. QED
  BY <1>4, <1>5, <1>8, <1>11

LEMMA SegmentMax ==
  ASSUME NEW n \in Nat, NEW s \in SUBSET (1..n), s # {}
  PROVE  Max(s) \in s /\ \A y \in s : Max(s) >= y
<1> DEFINE T == {k \in 0..n : \A u \in SUBSET (1..k) : u # {} => \E x \in u : \A y \in u : x >= y}
<1>1. 0 \in T
  <2>1. 1..0 = {}
    OBVIOUS
  <2>2. \A u \in SUBSET (1..0) : u = {}
    BY <2>1
  <2>3. 0 \in 0..n
    OBVIOUS
  <2>4. QED
    BY <2>2, <2>3
<1>2. ASSUME NEW k \in 0..n-1, k \in T PROVE k + 1 \in T
  <2>1. ASSUME NEW u \in SUBSET (1..k+1), u # {} PROVE \E x \in u : \A y \in u : x >= y
    <3>1. CASE k + 1 \in u
      BY <3>1
    <3>2. CASE k + 1 \notin u
      <4>1. u \in SUBSET (1..k)
        BY <3>2
      <4>2. QED
        BY <4>1, <2>1, <1>2
    <3>3. QED
      BY <3>1, <3>2
  <2>2. QED
    BY <2>1
<1>3. \A k \in 0..n : k \in T
  <2> HIDE DEF T
  <2>1. QED
    BY <1>1, <1>2, SegmentInduction
<1>4. \E x \in s : \A y \in s : x >= y
  BY <1>3
<1>5. QED
  BY <1>4 DEF Max

\* What a fold from the left takes its value from: g[1..k] is the value after k elements.
IsFold(g, n, base, step) ==
  g = [s \in SUBSET (1..n) |-> IF s = {} THEN base ELSE step[<<Max(s), g[s \ {Max(s)}]>>]]

\* Every step on values of one set has a fold.
LEMMA FoldExists ==
  ASSUME NEW n \in Nat, NEW V, NEW base \in V, NEW step \in [(1..n) \X V -> V]
  PROVE  \E g \in [SUBSET (1..n) -> V] : IsFold(g, n, base, step)
<1> DEFINE Fits(g, k) == g \in [SUBSET (1..k) -> V] /\
                         \A s \in SUBSET (1..k) : g[s] = IF s = {} THEN base
                                        ELSE step[<<Max(s), g[s \ {Max(s)}]>>]
           T == {k \in 0..n : \E g \in [SUBSET (1..k) -> V] : Fits(g, k)}
<1>1. 0 \in T
  <2> DEFINE g == [s \in SUBSET (1..0) |-> base]
  <2>0. 1..0 = {}
    OBVIOUS
  <2>1. SUBSET (1..0) = {{}}
    BY <2>0
  <2>2. g \in [SUBSET (1..0) -> V] /\ Fits(g, 0)
    BY <2>1
  <2>3. 0 \in 0..n
    OBVIOUS
  <2> HIDE DEF g, Fits
  <2>4. QED
    BY <2>2, <2>3
<1>2. ASSUME NEW k \in 0..n-1, k \in T PROVE k + 1 \in T
  <2>1. PICK g \in [SUBSET (1..k) -> V] : Fits(g, k)
    BY <1>2
  <2> DEFINE h == [s \in SUBSET (1..k+1) |-> IF s = {} THEN base
                                        ELSE step[<<Max(s), g[s \ {Max(s)}]>>]]
  <2>2. ASSUME NEW s \in SUBSET (1..k+1), s # {}
        PROVE  /\ Max(s) \in 1..n /\ Max(s) \in 1..k+1
               /\ s \ {Max(s)} \in SUBSET (1..k)
    <3>1. k + 1 \in Nat /\ k + 1 <= n
      OBVIOUS
    <3>2. Max(s) \in s /\ \A y \in s : Max(s) >= y
      BY <2>2, <3>1, SegmentMax
    <3> DEFINE m == Max(s)
    <3>3. m \in s /\ (\A y \in s : m >= y) /\ s \subseteq 1..k+1
      BY <3>2
    <3> HIDE DEF m
    <3>4. m \in 1..k+1 /\ m \in 1..n
      BY <3>1, <3>3
    <3>5. ASSUME NEW y \in s \ {m} PROVE y \in 1..k
      <4>1. y \in 1..k+1 /\ m >= y /\ y # m
        BY <3>3
      <4>2. QED
        BY <4>1, <3>4
    <3>6. QED
      BY <3>4, <3>5 DEF m
  <2>3. \A s \in SUBSET (1..k) : h[s] = g[s]
    <3>1. \A s \in SUBSET (1..k) : s \in SUBSET (1..k+1)
      OBVIOUS
    <3>2. QED
      BY <3>1, <2>1
  <2>4. h \in [SUBSET (1..k+1) -> V]
    BY <2>2, <2>1
  <2>5. \A s \in SUBSET (1..k+1) : h[s] = IF s = {} THEN base
                                        ELSE step[<<Max(s), h[s \ {Max(s)}]>>]
    BY <2>2, <2>3
  <2>6. Fits(h, k + 1)
    BY <2>4, <2>5
  <2> HIDE DEF h, Fits
  <2>7. QED
    BY <2>4, <2>6
<1>3. \A k \in 0..n : k \in T
  <2> HIDE DEF T
  <2>1. QED
    BY <1>1, <1>2, SegmentInduction
<1>4. PICK g \in [SUBSET (1..n) -> V] : Fits(g, n)
  <2> HIDE DEF Fits
  <2>1. n \in 0..n
    OBVIOUS
  <2>2. n \in T
    <3> HIDE DEF T
    <3>1. QED
      BY <1>3, <2>1
  <2>3. QED
    BY <2>2
<1>5. g = [s \in SUBSET (1..n) |-> g[s]]
  BY <1>4
<1>6. IsFold(g, n, base, step)
  BY <1>4, <1>5 DEF IsFold
<1>7. QED
  BY <1>6

-----------------------------------------------------------------------------
(* Sums *)

\* A set that holds a subset of S whenever it holds all that are smaller holds them all.
LEMMA SubsetInduction ==
  ASSUME NEW S, IsFiniteSet(S), NEW T,
         \A u \in SUBSET S : (\A v \in SUBSET u : v # u => v \in T) => u \in T
  PROVE  \A u \in SUBSET S : u \in T
<1>1. SUFFICES ASSUME (SUBSET S) \ T # {} PROVE FALSE
  OBVIOUS
<1>2. FiniteSubsetsOf(S) = SUBSET S
  BY FS_FiniteSubsetsOfFinite
<1>3. PICK u \in (SUBSET S) \ T : \A v \in (SUBSET S) \ T : <<v, u>> \notin StrictSubsetOrdering(S)
  <2> DEFINE U == (SUBSET S) \ T
             R == StrictSubsetOrdering(S)
  <2>1. U \subseteq SUBSET S /\ U # {}
    BY <1>1
  <2>2. IsWellFoundedOn(R, SUBSET S)
    BY <1>2, FS_StrictSubsetOrderingWellFounded
  <2> HIDE DEF U, R
  <2>3. \E u \in U : \A v \in U : <<v, u>> \notin R
    BY <2>1, <2>2, WFMin
  <2>4. QED
    BY <2>3 DEF U, R
<1>4. \A v \in SUBSET u : v # u => v \in T
  BY <1>3 DEF StrictSubsetOrdering
<1>5. QED
  BY <1>3, <1>4

Total(f, S) == MapThenSumSet(LAMBDA v : f[v], S)
Pick(s) == CHOOSE x \in s : TRUE
IsTotal(g, f, S) == g = [s \in SUBSET S |-> IF s = {} THEN 0 ELSE f[Pick(s)] + g[s \ {Pick(s)}]]

LEMMA TotalExists ==
  ASSUME NEW S, IsFiniteSet(S), NEW f, \A v \in S : f[v] \in Nat
  PROVE  \E g \in [SUBSET S -> Nat] : IsTotal(g, f, S)
<1> DEFINE n == Cardinality(S)
           Upto(k) == {s \in SUBSET S : Cardinality(s) <= k}
           Fits(g, k) == \A s \in Upto(k) : g[s] = IF s = {} THEN 0 ELSE f[Pick(s)] + g[s \ {Pick(s)}]
           T == {k \in 0..n : \E g \in [Upto(k) -> Nat] : Fits(g, k)}
<1>1. n \in Nat
  BY FS_CardinalityType
<1>2. \A s \in SUBSET S : IsFiniteSet(s) /\ Cardinality(s) \in Nat /\ Cardinality(s) <= n
                          /\ (Cardinality(s) = 0 <=> s = {})
  BY FS_Subset, FS_CardinalityType, FS_EmptySet
<1>3. ASSUME NEW s \in SUBSET S, s # {}
      PROVE  Pick(s) \in s /\ Cardinality(s \ {Pick(s)}) = Cardinality(s) - 1
  <2>1. Pick(s) \in s
    BY <1>3 DEF Pick
  <2>2. QED
    BY <2>1, <1>2, FS_RemoveElement
<1>4. 0 \in T
  <2> DEFINE g == [s \in Upto(0) |-> 0]
  <2>1. \A s \in Upto(0) : s = {}
    BY <1>2
  <2>2. g \in [Upto(0) -> Nat] /\ Fits(g, 0)
    BY <2>1
  <2>3. 0 \in 0..n
    BY <1>1
  <2> HIDE DEF g, Fits, Upto, n
  <2>4. QED
    BY <2>2, <2>3
<1>5. ASSUME NEW k \in 0..n-1, k \in T PROVE k + 1 \in T
  <2>1. PICK g \in [Upto(k) -> Nat] : Fits(g, k)
    BY <1>5
  <2> DEFINE h == [s \in Upto(k + 1) |-> IF s = {} THEN 0 ELSE f[Pick(s)] + g[s \ {Pick(s)}]]
  <2>2. ASSUME NEW s \in Upto(k + 1), s # {}
        PROVE  f[Pick(s)] \in Nat /\ s \ {Pick(s)} \in Upto(k)
    <3>1. Pick(s) \in S /\ Cardinality(s \ {Pick(s)}) = Cardinality(s) - 1
      BY <2>2, <1>3
    <3>2. Cardinality(s) \in Nat /\ Cardinality(s) <= k + 1 /\ k \in Nat
      BY <1>1, <1>2
    <3>3. QED
      BY <3>1, <3>2
  <2>3. \A s \in Upto(k) : s \in Upto(k + 1)
    BY <1>1, <1>2
  <2>4. \A s \in Upto(k) : h[s] = g[s]
    BY <2>3, <2>1
  <2>5. h \in [Upto(k + 1) -> Nat]
    <3>1. \A s \in Upto(k + 1) : s # {} => g[s \ {Pick(s)}] \in Nat
      BY <2>2, <2>1
    <3> HIDE DEF Upto
    <3>2. QED
      BY <3>1, <2>2
  <2>6. Fits(h, k + 1)
    <3>1. \A s \in Upto(k + 1) : s # {} => h[s \ {Pick(s)}] = g[s \ {Pick(s)}]
      BY <2>2, <2>4
    <3> HIDE DEF Upto
    <3>2. QED
      BY <3>1
  <2>7. k + 1 \in 0..n
    BY <1>1
  <2> HIDE DEF h, Fits, Upto, n
  <2>8. QED
    BY <2>5, <2>6, <2>7
<1>6. n \in T
  <2> HIDE DEF T, n
  <2>1. \A k \in 0..n : k \in T
    BY <1>1, <1>4, <1>5, SegmentInduction
  <2>2. QED
    BY <2>1, <1>1
<1>7. PICK g \in [Upto(n) -> Nat] : Fits(g, n)
  <2> HIDE DEF Fits, Upto, n
  <2>1. QED
    BY <1>6
<1>8. Upto(n) = SUBSET S
  BY <1>2
<1>9. IsTotal(g, f, S) /\ g \in [SUBSET S -> Nat]
  BY <1>7, <1>8 DEF IsTotal
<1>10. QED
  BY <1>9

\* The sum that Total takes, with the sums it is made of.
LEMMA TotalIs ==
  ASSUME NEW S, IsFiniteSet(S), NEW f, \A v \in S : f[v] \in Nat
  PROVE  \E g \in [SUBSET S -> Nat] : IsTotal(g, f, S) /\ Total(f, S) = g[S]
<1> DEFINE c == CHOOSE g : IsTotal(g, f, S)
<1>1. PICK h \in [SUBSET S -> Nat] : IsTotal(h, f, S)
  BY TotalExists
<1>2. IsTotal(c, f, S)
  <2>1. \E g : IsTotal(g, f, S)
    BY <1>1
  <2>2. QED
    BY <2>1
<1>3. Total(f, S) = c[S]
  BY Zenon DEF Total, MapThenSumSet, MapThenFoldSet, IsTotal, Pick
<1> HIDE DEF c
<1>4. c \in [SUBSET S -> Nat]
  <2>1. \A u \in SUBSET S : c[u] = IF u = {} THEN 0 ELSE f[Pick(u)] + c[u \ {Pick(u)}]
    BY <1>2 DEF IsTotal
  <2> DEFINE T == {u \in SUBSET S : c[u] \in Nat}
  <2>2. ASSUME NEW u \in SUBSET S, \A v \in SUBSET u : v # u => v \in T PROVE u \in T
    <3>0. c[u] = IF u = {} THEN 0 ELSE f[Pick(u)] + c[u \ {Pick(u)}]
      BY <2>1
    <3>1. CASE u = {}
      <4>1. c[u] \in Nat
        BY <3>0, <3>1
      <4>2. QED
        BY <4>1
    <3>2. CASE u # {}
      <4>1. Pick(u) \in u
        BY <3>2 DEF Pick
      <4>2. u \ {Pick(u)} \in SUBSET u /\ u \ {Pick(u)} # u
        BY <4>1
      <4>3. c[u \ {Pick(u)}] \in Nat
        BY <4>2, <2>2
      <4>4. c[u] \in Nat
        BY <4>1, <4>3, <3>2, <3>0
      <4>5. QED
        BY <4>4
    <3>3. QED
      BY <3>1, <3>2
  <2>3. \A u \in SUBSET S : u \in T
    <3> HIDE DEF T
    <3>1. QED
      BY <2>2, SubsetInduction
  <2>4. c = [u \in SUBSET S |-> c[u]]
    BY <1>2 DEF IsTotal
  <2>5. QED
    BY <2>3, <2>4
<1>5. QED
  BY <1>2, <1>3, <1>4

\* A sum grows by at least what one of its terms grows when none of them shrinks.
LEMMA TotalGrows ==
  ASSUME NEW S, IsFiniteSet(S), NEW f, NEW h, NEW x \in S,
         \A v \in S : f[v] \in Nat /\ h[v] \in Nat /\ f[v] <= h[v]
  PROVE  /\ Total(f, S) \in Nat /\ Total(h, S) \in Nat
         /\ Total(f, S) + h[x] - f[x] <= Total(h, S)
<1>1. PICK a \in [SUBSET S -> Nat] : IsTotal(a, f, S) /\ Total(f, S) = a[S]
  BY TotalIs
<1>2. PICK b \in [SUBSET S -> Nat] : IsTotal(b, h, S) /\ Total(h, S) = b[S]
  BY TotalIs
<1>3. \A u \in SUBSET S : /\ a[u] = IF u = {} THEN 0 ELSE f[Pick(u)] + a[u \ {Pick(u)}]
                          /\ b[u] = IF u = {} THEN 0 ELSE h[Pick(u)] + b[u \ {Pick(u)}]
  BY <1>1, <1>2 DEF IsTotal
<1> DEFINE T == {u \in SUBSET S : a[u] + (IF x \in u THEN h[x] - f[x] ELSE 0) <= b[u]}
<1>4. ASSUME NEW u \in SUBSET S, \A v \in SUBSET u : v # u => v \in T PROVE u \in T
  <2>0. /\ a[u] = IF u = {} THEN 0 ELSE f[Pick(u)] + a[u \ {Pick(u)}]
        /\ b[u] = IF u = {} THEN 0 ELSE h[Pick(u)] + b[u \ {Pick(u)}]
    BY <1>3
  <2>1. CASE u = {}
    <3>1. a[u] = 0 /\ b[u] = 0 /\ x \notin u
      BY <2>0, <2>1
    <3>2. QED
      BY <3>1
  <2>2. CASE u # {}
    <3> DEFINE p == Pick(u)
               v == u \ {p}
    <3>1. p \in u
      BY <2>2 DEF Pick
    <3>2. a[u] = f[p] + a[v] /\ b[u] = h[p] + b[v]
      BY <2>0, <2>2
    <3> HIDE DEF p
    <3>3. v \in SUBSET u /\ v # u /\ v \in SUBSET S
      BY <3>1
    <3>4. a[v] + (IF x \in v THEN h[x] - f[x] ELSE 0) <= b[v]
      BY <3>3, <1>4
    <3>5. /\ a[v] \in Nat /\ b[v] \in Nat /\ f[p] \in Nat /\ h[p] \in Nat /\ f[p] <= h[p]
          /\ f[x] \in Nat /\ h[x] \in Nat
      BY <3>1, <3>3
    <3>6. x \in u <=> (x \in v \/ x = p)
      BY <3>1
    <3>7. x \in v => x # p
      OBVIOUS
    <3> HIDE DEF v
    <3>8. a[u] + (IF x \in u THEN h[x] - f[x] ELSE 0) <= b[u]
      BY <3>2, <3>4, <3>5, <3>6, <3>7
    <3>9. QED
      BY <3>8
  <2>3. QED
    BY <2>1, <2>2
<1>5. S \in T
  <2> HIDE DEF T
  <2>1. QED
    BY <1>4, SubsetInduction
<1>6. QED
  BY <1>1, <1>2, <1>5

-----------------------------------------------------------------------------
(* Largest values *)

\* A function on a finite set has a largest value.
LEMMA LargestValue ==
  ASSUME NEW S, IsFiniteSet(S), S # {}, NEW f \in [S -> Nat]
  PROVE  Max({f[x] : x \in S}) \in {f[x] : x \in S}
<1> DEFINE T == {u \in SUBSET S : u # {} => \E x \in u : \A y \in u : f[x] >= f[y]}
<1>1. ASSUME NEW u \in SUBSET S, \A v \in SUBSET u : v # u => v \in T PROVE u \in T
  <2>1. SUFFICES ASSUME NEW p \in u PROVE \E x \in u : \A y \in u : f[x] >= f[y]
    OBVIOUS
  <2>2. u \ {p} \in T
    <3>1. u \ {p} \in SUBSET u /\ u \ {p} # u
      OBVIOUS
    <3> HIDE DEF T
    <3>2. QED
      BY <1>1, <3>1
  <2>3. \A x \in u : f[x] \in Nat
    OBVIOUS
  <2>4. CASE u \ {p} = {}
    BY <2>3, <2>4
  <2>5. CASE u \ {p} # {}
    <3>1. PICK x \in u \ {p} : \A y \in u \ {p} : f[x] >= f[y]
      BY <2>2, <2>5
    <3>2. CASE f[x] >= f[p]
      BY <3>1, <3>2
    <3>3. CASE ~(f[x] >= f[p])
      <4>1. \A y \in u : f[p] >= f[y]
        BY <2>3, <3>1, <3>3
      <4>2. QED
        BY <4>1
    <3>4. QED
      BY <3>2, <3>3
  <2>6. QED
    BY <2>4, <2>5
<1>2. S \in T
  <2> HIDE DEF T
  <2>1. QED
    BY <1>1, SubsetInduction
<1>3. PICK x \in S : \A y \in S : f[x] >= f[y]
  BY <1>2
<1>4. \E m \in {f[y] : y \in S} : \A k \in {f[y] : y \in S} : m >= k
  BY <1>3
<1>5. QED
  BY <1>4 DEF Max
=============================================================================
