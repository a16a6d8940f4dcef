---------------------------- MODULE ReportProofs -----------------------------
(***************************************************************************)
(* What TLAPS proves about the two models of package report besides Judge. *)
(*                                                                         *)
(* Comparison: the values of a side are ordered, so a statistic lies       *)
(* between the least and the greatest of them, and so does that of every   *)
(* resample, and what is called holds for the values below the floor.      *)
(* Section: a section put in place of another keeps the front matter, the  *)
(* fences, the markers and the other sections of a document.  Reports: so  *)
(* whatever fails, the files hold whole documents and whole reports.       *)
(***************************************************************************)
EXTENDS Comparison, Reports, FiniteSetTheorems, SequenceTheorems, NaturalsInduction, WellFoundedInduction, TLAPS

-----------------------------------------------------------------------------
(* The order of the samples.                                               *)

(* What a measured side recorded.                                          *)
Samples == Seq(Nat) \ {<<>>}

(* Every non-empty set of natural numbers has a smallest one.              *)
LEMMA SmallestNumber ==
  ASSUME NEW T \in SUBSET Nat, T # {}
  PROVE  \E m \in T : \A k \in T : m <= k
<1> DEFINE R == OpToRel(<, Nat)
<1>1. IsWellFoundedOn(R, Nat)
  BY NatLessThanWellFounded
<1>2. \A k, m \in Nat : k < m => <<k, m>> \in R
  BY DEF OpToRel
<1> HIDE DEF R
<1>3. PICK m \in T : \A k \in T : <<k, m>> \notin R
  BY <1>1, WFMin
<1>4. \A k \in T : m <= k
  <2> SUFFICES ASSUME NEW k \in T, ~(m <= k) PROVE FALSE
    OBVIOUS
  <2>1. k \in Nat /\ m \in Nat /\ k < m
    OBVIOUS
  <2> QED
    BY <1>2, <1>3, <2>1
<1> QED
  BY <1>4

(* A non-empty set of numbers up to a bound has a largest one.             *)
LEMMA LargestNumber ==
  ASSUME NEW N \in Nat, NEW T \in SUBSET (0..N), T # {}
  PROVE  \E m \in T : \A k \in T : k <= m
<1> DEFINE U == {n \in Nat : \A k \in T : k <= n}
<1>1. U \in SUBSET Nat /\ N \in U
  OBVIOUS
<1> HIDE DEF U
<1>2. PICK m \in U : \A n \in U : m <= n
  BY <1>1, SmallestNumber
<1>3. m \in Nat /\ \A k \in T : k <= m
  BY <1>2 DEF U
<1>4. m \in T
  <2> SUFFICES ASSUME m \notin T PROVE FALSE
    OBVIOUS
  <2>1. \A k \in T : k <= m - 1
    BY <1>3
  <2>2. m - 1 \in Nat
    <3>1. PICK k \in T : TRUE
      OBVIOUS
    <3> QED
      BY <2>1, <3>1, <1>3
  <2>3. m - 1 \in U
    BY <2>1, <2>2 DEF U
  <2> QED
    BY <1>2, <2>3, <1>3
<1> QED
  BY <1>3, <1>4

(* How many samples are below a value, and up to it.                       *)
Below(s, v) == {i \in DOMAIN s : s[i] < v}
UpTo(s, v) == {i \in DOMAIN s : s[i] <= v}

(* Sets of samples have as many elements as they should.                   *)
LEMMA Counts ==
  ASSUME NEW s \in Seq(Nat), NEW P \in SUBSET DOMAIN s
  PROVE  /\ IsFiniteSet(P) /\ Cardinality(P) \in Nat /\ Cardinality(P) <= Len(s)
         /\ (Cardinality(P) = Len(s) => P = DOMAIN s)
         /\ (Cardinality(P) = 0 => P = {}) /\ Cardinality({}) = 0
         /\ Cardinality(DOMAIN s) = Len(s)
         /\ \A Q \in SUBSET P : Cardinality(Q) \in Nat /\ Cardinality(Q) <= Cardinality(P)
<1>1. DOMAIN s = 1..Len(s) /\ Len(s) \in Nat
  OBVIOUS
<1>2. IsFiniteSet(DOMAIN s) /\ Cardinality(DOMAIN s) = Len(s)
  <2>1. IsFiniteSet(1..Len(s)) /\ Cardinality(1..Len(s)) = (IF 1 > Len(s) THEN 0 ELSE Len(s) - 1 + 1)
    BY <1>1, FS_Interval
  <2> QED
    BY <1>1, <2>1
<1>3. IsFiniteSet(P) /\ Cardinality(P) \in Nat /\ Cardinality(P) <= Len(s)
       /\ (Cardinality(P) = Len(s) => P = DOMAIN s)
  <2>1. IsFiniteSet(P) /\ Cardinality(P) <= Cardinality(DOMAIN s)
        /\ (Cardinality(P) = Cardinality(DOMAIN s) => P = DOMAIN s)
    BY <1>2, FS_Subset
  <2> QED
    BY <1>2, <2>1, FS_CardinalityType
<1>4. (Cardinality(P) = 0 => P = {}) /\ Cardinality({}) = 0
  BY <1>3, FS_EmptySet
<1>5. \A Q \in SUBSET P : Cardinality(Q) \in Nat /\ Cardinality(Q) <= Cardinality(P)
  BY <1>3, FS_Subset, FS_CardinalityType
<1> QED
  BY <1>2, <1>3, <1>4, <1>5

(* The samples have an upper bound.                                        *)
LEMMA UpperBound ==
  ASSUME NEW s \in Seq(Nat)
  PROVE  \E N \in Nat : \A i \in DOMAIN s : s[i] <= N
<1>0. DOMAIN s = 1..Len(s) /\ Len(s) \in Nat /\ \A i \in DOMAIN s : s[i] \in Nat
  OBVIOUS
<1> DEFINE B == {m \in 0..Len(s) : ~\E N \in Nat : \A i \in 1..m : s[i] <= N}
<1>1. B = {}
  <2> SUFFICES ASSUME B # {} PROVE FALSE
    OBVIOUS
  <2>1. PICK m \in B : \A n \in B : m <= n
    <3>1. B \in SUBSET Nat
      OBVIOUS
    <3> HIDE DEF B
    <3> QED
      BY <3>1, SmallestNumber
  <2>2. m # 0
    <3>1. \A i \in 1..0 : s[i] <= 0
      OBVIOUS
    <3> QED
      BY <3>1
  <2>3. m \in 1..Len(s) /\ m - 1 \in 0..Len(s) /\ m - 1 \notin B
    <3>1. m \in 0..Len(s)
      OBVIOUS
    <3> HIDE DEF B
    <3>2. m \in 1..Len(s) /\ m - 1 \in 0..Len(s) /\ ~(m <= m - 1)
      BY <3>1, <2>2, <1>0
    <3> QED
      BY <2>1, <3>2
  <2>4. PICK N \in Nat : \A i \in 1..(m - 1) : s[i] <= N
    BY <2>3
  <2> DEFINE x == s[m]
  <2>5. x \in Nat /\ s[m] = x
    BY <2>3, <1>0
  <2> HIDE DEF x
  <2>7. N + x \in Nat /\ N <= N + x /\ x <= N + x
    BY <2>4, <2>5
  <2> DEFINE y == N + x
  <2>8. y \in Nat /\ N <= y /\ x <= y
    BY <2>7
  <2> HIDE DEF y
  <2>6. \A i \in 1..m : s[i] <= y
    <3> SUFFICES ASSUME NEW i \in 1..m PROVE s[i] <= y
      OBVIOUS
    <3>1. i \in DOMAIN s /\ s[i] \in Nat
      <4>1. i \in 1..Len(s)
        BY <2>3, <1>0
      <4> QED
        BY <4>1, <1>0
    <3>2. CASE i = m
      BY <3>2, <2>5, <2>8
    <3>3. CASE i # m
      <4>1. i \in 1..(m - 1)
        BY <3>3, <2>3, <1>0
      <4>2. s[i] <= N
        BY <4>1, <2>4
      <4> QED
        BY <4>2, <3>1, <2>4, <2>8
    <3> QED
      BY <3>2, <3>3
  <2> QED
    BY <2>1, <2>6, <2>8
<1>2. \A m \in 0..Len(s) : \E N \in Nat : \A i \in 1..m : s[i] <= N
  BY <1>1
<1>3. Len(s) \in 0..Len(s)
  BY <1>0
<1> QED
  BY <1>0, <1>2, <1>3

(* There is a k-th value.                                                  *)
Kth(s, k, v) ==
  v \in Range(s) /\ Cardinality(Below(s, v)) < k /\ Cardinality(UpTo(s, v)) >= k

(* There is one for every place in the order (Sorted's CHOOSE).            *)
LEMMA KthExists ==
  ASSUME NEW s \in Seq(Nat), NEW k \in 1..Len(s)
  PROVE  \E v : Kth(s, k, v)
<1> DEFINE T == {v \in Range(s) : Cardinality(UpTo(s, v)) >= k}
<1>1. DOMAIN s = 1..Len(s) /\ Len(s) \in Nat /\ \A i \in DOMAIN s : s[i] \in Nat
  OBVIOUS
<1>2. Range(s) = {s[i] : i \in DOMAIN s} /\ Range(s) \in SUBSET Nat
  BY <1>1 DEF Range
<1>3. T # {}
  <2> DEFINE U == {n \in Nat : \A i \in DOMAIN s : s[i] <= n}
             W == {v \in Nat : \E i \in DOMAIN s : s[i] = v /\ \A j \in DOMAIN s : s[j] <= v}
  <2> SUFFICES ASSUME T = {} PROVE FALSE
    OBVIOUS
  <2>0. \A v \in Range(s) : UpTo(s, v) # DOMAIN s
    <3> SUFFICES ASSUME NEW v \in Range(s), UpTo(s, v) = DOMAIN s PROVE FALSE
      OBVIOUS
    <3>1. Cardinality(UpTo(s, v)) = Len(s)
      BY Counts
    <3>2. v \in T
      BY <3>1, <1>1
    <3> QED
      BY <3>2
  <2>1. \A i \in DOMAIN s : \E j \in DOMAIN s : s[j] > s[i]
    <3> SUFFICES ASSUME NEW i \in DOMAIN s, \A j \in DOMAIN s : ~(s[j] > s[i]) PROVE FALSE
      OBVIOUS
    <3>1. UpTo(s, s[i]) = DOMAIN s
      BY <1>1 DEF UpTo
    <3> QED
      BY <1>2, <2>0, <3>1
  <2>2. \E N \in Nat : \A i \in DOMAIN s : s[i] <= N
    BY UpperBound
  <2>3. PICK N \in Nat : \A i \in DOMAIN s : s[i] <= N
    BY <2>2
  <2>4. Range(s) \in SUBSET (0..N) /\ Range(s) # {}
    <3>1. 1 \in DOMAIN s
      BY <1>1
    <3> QED
      BY <1>1, <1>2, <2>3, <3>1
  <2>5. PICK v \in Range(s) : \A w \in Range(s) : w <= v
    BY <2>4, LargestNumber
  <2>6. PICK i \in DOMAIN s : s[i] = v
    BY <1>2, <2>5
  <2>7. PICK j \in DOMAIN s : s[j] > s[i]
    BY <2>1
  <2>8. s[j] <= v /\ s[i] \in Nat /\ s[j] \in Nat
    BY <1>1, <1>2, <2>5
  <2> QED
    BY <2>6, <2>7, <2>8
<1>4. PICK v \in T : \A w \in T : v <= w
  BY <1>2, <1>3, SmallestNumber
<1>5. v \in Range(s) /\ v \in Nat /\ Cardinality(UpTo(s, v)) >= k
  BY <1>2, <1>4
<1>6. Cardinality(Below(s, v)) < k
  <2> SUFFICES ASSUME ~(Cardinality(Below(s, v)) < k) PROVE FALSE
    OBVIOUS
  <2> DEFINE L == {w \in Range(s) : w < v}
  <2>1. Below(s, v) # {}
    <3>1. Cardinality({}) = 0 /\ k > 0
      BY FS_EmptySet, <1>1
    <3> QED
      BY <3>1
  <2>2. L # {} /\ L \in SUBSET (0..v)
    BY <2>1, <1>1, <1>2, <1>5 DEF Below
  <2> HIDE DEF L
  <2>3. PICK w \in L : \A x \in L : x <= w
    BY <2>2, <1>5, LargestNumber
  <2>4. w \in Range(s) /\ w < v /\ w \in Nat
    BY <2>3, <1>2 DEF L
  <2>5. \A i \in DOMAIN s : s[i] < v <=> s[i] <= w
    <3> SUFFICES ASSUME NEW i \in DOMAIN s PROVE s[i] < v <=> s[i] <= w
      OBVIOUS
    <3>1. s[i] \in Nat /\ s[i] \in Range(s)
      BY <1>1, <1>2
    <3>2. s[i] < v => s[i] <= w
      BY <2>3, <3>1 DEF L
    <3> QED
      BY <3>1, <3>2, <2>4, <1>5
  <2>6. Below(s, v) = UpTo(s, w)
    BY <2>5 DEF Below, UpTo
  <2>7. Cardinality(Below(s, v)) \in Nat
    BY Counts DEF Below
  <2>8. w \in T
    BY <2>4, <2>6, <2>7
  <2> HIDE DEF T
  <2> QED
    BY <1>4, <1>5, <2>4, <2>8
<1> QED
  BY <1>5, <1>6 DEF Kth

(* The steps that compute a value of S from the one before, N times.       *)
Steps(S, N) == [S \X (1..N) -> S]

(* What is computed step by step, from a start, is a function.             *)
LEMMA StepByStep ==
  ASSUME NEW S, NEW start \in S, NEW N \in Nat, NEW step \in Steps(S, N)
  PROVE  \E f \in [0..N -> S] :
           f[0] = start /\ \A n \in 1..N : f[n] = step[<<f[n - 1], n>>]
<1> DEFINE Computes(f, m) ==
             /\ f \in [0..m -> S] /\ f[0] = start
             /\ \A n \in 1..m : f[n] = step[<<f[n - 1], n>>]
           T == {m \in 0..N : ~\E f : Computes(f, m)}
<1>0. step \in [S \X (1..N) -> S]
  BY DEF Steps
<1>1. T = {}
  <2> SUFFICES ASSUME T # {} PROVE FALSE
    OBVIOUS
  <2>1. PICK m \in T : \A k \in T : m <= k
    <3>1. T \in SUBSET Nat
      OBVIOUS
    <3> HIDE DEF T
    <3> QED
      BY <3>1, SmallestNumber
  <2>2. m # 0
    <3> DEFINE f == [n \in 0..0 |-> start]
    <3>1. Computes(f, 0)
      OBVIOUS
    <3> QED
      BY <3>1
  <2>3. m - 1 \in 0..N /\ m - 1 \notin T /\ m \in 1..N
    <3>1. m \in 0..N
      OBVIOUS
    <3> HIDE DEF T
    <3>2. m - 1 \in 0..N /\ m \in 1..N /\ ~(m <= m - 1)
      BY <2>2, <3>1
    <3> QED
      BY <2>1, <3>2
  <2>4. PICK f : Computes(f, m - 1)
    BY <2>3
  <2> DEFINE g == [n \in 0..m |-> IF n = m THEN step[<<f[m - 1], m>>] ELSE f[n]]
  <2>5. f[m - 1] \in S /\ step[<<f[m - 1], m>>] \in S
    BY <1>0, <2>3, <2>4
  <2>6. g \in [0..m -> S] /\ g[0] = start
    BY <2>2, <2>3, <2>4, <2>5
  <2>7. ASSUME NEW n \in 1..m PROVE g[n] = step[<<g[n - 1], n>>]
    <3>1. CASE n = m
      <4>1. m \in 0..m /\ m - 1 \in 0..m /\ m - 1 # m
        BY <2>3
      <4>2. g[m] = step[<<f[m - 1], m>>] /\ g[m - 1] = f[m - 1]
        BY <4>1
      <4> HIDE DEF g
      <4> QED
        BY <3>1, <4>2
    <3>2. CASE n # m
      <4>1. n \in 1..(m - 1) /\ n - 1 \in 0..m /\ n - 1 # m /\ n \in 0..m
        BY <3>2, <2>3
      <4> QED
        BY <4>1, <2>4, <3>2
    <3> QED
      BY <3>1, <3>2
  <2>8. Computes(g, m)
    BY <2>6, <2>7
  <2> QED
    BY <2>1, <2>8
<1>2. PICK f : Computes(f, N)
  <2>1. N \in 0..N /\ N \notin T
    BY <1>1
  <2> HIDE DEF Computes
  <2> QED
    BY <2>1
<1> QED
  BY <1>2


(* What holds at the start, and after a step when it held before it, holds *)
(* all along.                                                              *)
LEMMA AllAlong ==
  ASSUME NEW Reached, NEW N \in Nat, 0 \in Reached,
         \A n \in 1..N : n - 1 \in Reached => n \in Reached
  PROVE  \A n \in 0..N : n \in Reached
<1> DEFINE T == {n \in 0..N : n \notin Reached}
<1>1. T = {}
  <2> SUFFICES ASSUME T # {} PROVE FALSE
    OBVIOUS
  <2>1. PICK m \in T : \A k \in T : m <= k
    <3>1. T \in SUBSET Nat
      OBVIOUS
    <3> HIDE DEF T
    <3> QED
      BY <3>1, SmallestNumber
  <2>2. m \in 1..N /\ m - 1 \in 0..N
    OBVIOUS
  <2>3. m - 1 \in Reached
    BY <2>1, <2>2
  <2> QED
    BY <2>1, <2>2, <2>3
<1> QED
  BY <1>1

(* Sorting: the least value comes first, the greatest last, and every one  *)
(* is a sample.                                                            *)
LEMMA SortedIs ==
  ASSUME NEW s \in Samples
  PROVE  /\ Sorted(s) \in [1..Len(s) -> Nat]
         /\ \A k \in 1..Len(s) : Kth(s, k, Sorted(s)[k]) /\ \E i \in DOMAIN s : Sorted(s)[k] = s[i]
         /\ Len(s) \in Nat /\ Len(s) >= 1
         /\ \A i \in DOMAIN s : Sorted(s)[1] <= s[i] /\ s[i] <= Sorted(s)[Len(s)]
<1> DEFINE n == Len(s)
           t == Sorted(s)
<1>1. DOMAIN s = 1..n /\ n \in Nat /\ (\A i \in DOMAIN s : s[i] \in Nat) /\ s \in Seq(Nat) /\ n >= 1
  BY EmptySeq DEF Samples
<1> HIDE DEF n
<1>2. ASSUME NEW k \in 1..n PROVE Kth(s, k, t[k])
  <2>1. \E v : Kth(s, k, v)
    BY <1>1, KthExists DEF n
  <2>2. \E v \in Range(s) : /\ Cardinality({i \in DOMAIN s : s[i] < v}) < k
                            /\ Cardinality({i \in DOMAIN s : s[i] <= v}) >= k
    BY <2>1 DEF Kth, Below, UpTo
  <2>3. t[k] = CHOOSE v \in Range(s) : /\ Cardinality({i \in DOMAIN s : s[i] < v}) < k
                                       /\ Cardinality({i \in DOMAIN s : s[i] <= v}) >= k
    BY <1>1 DEF Sorted
  <2> HIDE DEF t
  <2>4. /\ t[k] \in Range(s)
        /\ Cardinality({i \in DOMAIN s : s[i] < t[k]}) < k
        /\ Cardinality({i \in DOMAIN s : s[i] <= t[k]}) >= k
    BY <2>2, <2>3
  <2> QED
    BY <2>4 DEF Kth, Below, UpTo
<1>3. DOMAIN t = 1..n /\ t = [k \in 1..n |-> t[k]]
  <2> DEFINE value(k) == CHOOSE v \in Range(s) :
                           /\ Cardinality({i \in DOMAIN s : s[i] < v}) < k
                           /\ Cardinality({i \in DOMAIN s : s[i] <= v}) >= k
  <2>1. t = [k \in DOMAIN s |-> value(k)]
    BY DEF Sorted
  <2> HIDE DEF t, value
  <2> QED
    BY <1>1, <2>1
<1> HIDE DEF t
<1>4. \A k \in 1..n : t[k] \in Nat /\ \E i \in DOMAIN s : t[k] = s[i]
  BY <1>1, <1>2 DEF Kth, Range
<1>5. t \in [1..n -> Nat]
  BY <1>3, <1>4
<1>6. ASSUME NEW i \in DOMAIN s PROVE t[1] <= s[i] /\ s[i] <= t[n]
  <2>1. 1 \in 1..n /\ n \in 1..n
    BY <1>1
  <2>2. t[1] <= s[i]
    <3>1. Below(s, t[1]) \in SUBSET DOMAIN s
      BY DEF Below
    <3>2. Cardinality(Below(s, t[1])) = 0
      BY <1>1, <1>2, <2>1, <3>1, Counts DEF Kth
    <3>3. i \notin Below(s, t[1])
      BY <1>1, <3>1, <3>2, Counts
    <3> QED
      <4>1. ~(s[i] < t[1]) /\ s[i] \in Nat /\ t[1] \in Nat
        BY <1>1, <1>4, <2>1, <3>3 DEF Below
      <4> QED
        BY <4>1
  <2>3. s[i] <= t[n]
    <3>1. UpTo(s, t[n]) \in SUBSET DOMAIN s
      BY DEF UpTo
    <3>2. Cardinality(UpTo(s, t[n])) = Len(s)
      <4>1. Cardinality(UpTo(s, t[n])) >= n
        BY <1>2, <2>1 DEF Kth
      <4>2. Cardinality(UpTo(s, t[n])) \in Nat /\ Cardinality(UpTo(s, t[n])) <= Len(s)
        BY <1>1, <3>1, Counts
      <4> QED
        BY <1>1, <4>1, <4>2 DEF n
    <3>3. i \in UpTo(s, t[n])
      BY <1>1, <3>1, <3>2, Counts
    <3> QED
      BY <3>3 DEF UpTo
  <2> QED
    BY <2>2, <2>3
<1> QED
  BY <1>1, <1>2, <1>4, <1>5, <1>6 DEF n, t

(* A sum lies between the numbers of samples times the least and times the *)
(* greatest of them.                                                       *)
LEMMA TotalIs ==
  ASSUME NEW s \in Samples, NEW low \in Nat, NEW high \in Nat,
         \A i \in DOMAIN s : low <= s[i] /\ s[i] <= high
  PROVE  Total(s) \in Nat /\ low * Len(s) <= Total(s) /\ Total(s) <= high * Len(s)
<1> DEFINE N == Len(s)
           step == [x \in Nat \X (1..N) |-> x[1] + s[x[2]]]
           Is(w) == w = [n \in 0..N |-> IF n = 0 THEN 0 ELSE w[n - 1] + s[n]]
<1>0. N \in Nat /\ N >= 1 /\ DOMAIN s = 1..N /\ \A i \in 1..N : s[i] \in Nat
  BY EmptySeq DEF Samples
<1> HIDE DEF N
<1>1. step \in Steps(Nat, N)
  <2>1. \A x \in Nat \X (1..N) : x[1] + s[x[2]] \in Nat
    <3> SUFFICES ASSUME NEW x \in Nat \X (1..N) PROVE x[1] + s[x[2]] \in Nat
      OBVIOUS
    <3> DEFINE a == s[x[2]]
    <3>1. a \in Nat /\ x[1] \in Nat
      BY <1>0
    <3> HIDE DEF a
    <3> QED
      BY <3>1 DEF a
  <2> QED
    BY <2>1 DEF Steps
<1>2. PICK f \in [0..N -> Nat] : f[0] = 0 /\ \A n \in 1..N : f[n] = step[<<f[n - 1], n>>]
  <2> DEFINE S == Nat
             first == 0
  <2>1. first \in S /\ step \in Steps(S, N)
    BY <1>1
  <2> HIDE DEF step, S, first
  <2>2. \E f \in [0..N -> S] : f[0] = first /\ \A n \in 1..N : f[n] = step[<<f[n - 1], n>>]
    BY <1>0, <2>1, StepByStep
  <2> QED
    BY <2>2 DEF S, first
<1>3. \A n \in 1..N : step[<<f[n - 1], n>>] = f[n - 1] + s[n]
  <2> SUFFICES ASSUME NEW n \in 1..N PROVE step[<<f[n - 1], n>>] = f[n - 1] + s[n]
    OBVIOUS
  <2>1. n - 1 \in 0..N
    BY <1>0
  <2>2. f[n - 1] \in Nat
    BY <1>2, <2>1
  <2> QED
    BY <2>2
<1> HIDE DEF step
<1>4. Is(f)
  <2>1. \A n \in 0..N : f[n] = IF n = 0 THEN 0 ELSE f[n - 1] + s[n]
    <3> SUFFICES ASSUME NEW n \in 0..N PROVE f[n] = IF n = 0 THEN 0 ELSE f[n - 1] + s[n]
      OBVIOUS
    <3>1. CASE n = 0
      BY <1>2, <3>1
    <3>2. CASE n \in 1..N
      BY <1>0, <1>2, <1>3, <3>2
    <3> QED
      BY <1>0, <3>1, <3>2
  <2> QED
    BY <1>2, <2>1
<1> DEFINE p == CHOOSE w : Is(w)
<1>5. Is(p)
  <2> HIDE DEF Is
  <2> QED
    BY <1>4
<1>6. Total(s) = p[N]
  BY DEF Total, N
<1>7. p[0] = 0 /\ \A n \in 1..N : p[n] = p[n - 1] + s[n]
  <2>1. p = [n \in 0..N |-> IF n = 0 THEN 0 ELSE p[n - 1] + s[n]]
    BY <1>5
  <2> HIDE DEF p
  <2>2. \A n \in 1..N : n \in 0..N /\ n # 0
    BY <1>0
  <2>3. \A n \in 0..N : p[n] = IF n = 0 THEN 0 ELSE p[n - 1] + s[n]
    BY <2>1
  <2>4. 0 \in 0..N
    BY <1>0
  <2> QED
    BY <2>2, <2>3, <2>4
<1> HIDE DEF p
<1> DEFINE Good(n) == p[n] \in Nat /\ low * n <= p[n] /\ p[n] <= high * n
           T == {n \in 0..N : ~Good(n)}
<1>8. T = {}
  <2> SUFFICES ASSUME T # {} PROVE FALSE
    OBVIOUS
  <2>1. PICK m \in T : \A k \in T : m <= k
    <3>1. T \in SUBSET Nat
      OBVIOUS
    <3> HIDE DEF T
    <3> QED
      BY <3>1, SmallestNumber
  <2>2. Good(0)
    BY <1>7
  <2>3. m - 1 \in 0..N /\ m - 1 \notin T /\ m \in 1..N
    <3>1. m \in 0..N /\ m # 0
      BY <2>2
    <3> HIDE DEF T
    <3>2. m - 1 \in 0..N /\ m \in 1..N /\ ~(m <= m - 1)
      BY <3>1, <1>0
    <3> QED
      BY <2>1, <3>2
  <2>4. Good(m - 1)
    BY <2>3
  <2>5. p[m] = p[m - 1] + s[m] /\ s[m] \in Nat /\ low <= s[m] /\ s[m] <= high
    BY <1>0, <1>7, <2>3
  <2>6. Good(m)
    <3> DEFINE a == p[m - 1]
               b == s[m]
               k == m - 1
    <3>1. a \in Nat /\ b \in Nat /\ k \in Nat /\ low * k <= a /\ a <= high * k /\ low <= b /\ b <= high
      BY <2>3, <2>4, <2>5
    <3>2. p[m] = a + b /\ m = k + 1
      BY <2>3, <2>5
    <3> HIDE DEF a, b, k
    <3>3. low * (k + 1) = low * k + low /\ high * (k + 1) = high * k + high
      BY <3>1
    <3>4. a + b \in Nat /\ low * (k + 1) <= a + b /\ a + b <= high * (k + 1)
      BY <3>1, <3>3
    <3> QED
      BY <3>2, <3>4
  <2> QED
    BY <2>6
<1>9. Good(N)
  <2>1. N \in 0..N /\ N \notin T
    BY <1>0, <1>8
  <2> QED
    BY <2>1
<1> QED
  BY <1>6, <1>9 DEF N

(* A fraction, between two numbers.                                        *)
Between(v, low, high) ==
  /\ v[1] \in Nat /\ v[2] \in Nat /\ v[2] > 0
  /\ low * v[2] <= v[1] /\ v[1] <= high * v[2]

(* The mean lies between the least and the greatest sample (MeanFloat).    *)
LEMMA MeanBetween ==
  ASSUME NEW s \in Samples, NEW low \in Nat, NEW high \in Nat,
         \A i \in DOMAIN s : low <= s[i] /\ s[i] <= high
  PROVE  Between(MeanFloat(s), low, high)
<1>1. Total(s) \in Nat /\ low * Len(s) <= Total(s) /\ Total(s) <= high * Len(s)
  BY TotalIs
<1>2. Len(s) \in Nat /\ Len(s) > 0
  BY EmptySeq DEF Samples
<1> QED
  BY <1>1, <1>2 DEF MeanFloat, Between

(* So does the median, of any number of them (MedianSorted).               *)
LEMMA MedianBetween ==
  ASSUME NEW s \in Samples, NEW low \in Nat, NEW high \in Nat,
         \A i \in DOMAIN s : low <= s[i] /\ s[i] <= high
  PROVE  Between(MedianSorted(Sorted(s)), low, high)
<1> DEFINE n == Len(s)
           t == Sorted(s)
<1>1. n \in Nat /\ n >= 1 /\ t \in [1..n -> Nat]
  BY SortedIs
<1>2. \A k \in 1..n : t[k] \in Nat /\ low <= t[k] /\ t[k] <= high
  BY SortedIs
<1>3. Len(t) = n
  BY <1>1
<1> HIDE DEF n, t
<1>4. CASE n % 2 = 1
  <2>1. n \div 2 + 1 \in 1..n
    BY <1>1, <1>4
  <2> DEFINE a == t[n \div 2 + 1]
  <2>2. a \in Nat /\ low <= a /\ a <= high
    BY <1>2, <2>1
  <2>3. MedianSorted(t) = <<a, 1>>
    BY <1>3, <1>4 DEF MedianSorted, Whole
  <2> HIDE DEF a
  <2> QED
    BY <2>2, <2>3 DEF Between, t
<1>5. CASE n % 2 # 1
  <2>1. n \div 2 \in 1..n /\ n \div 2 + 1 \in 1..n
    BY <1>1, <1>5
  <2> DEFINE a == t[n \div 2]
             b == t[n \div 2 + 1]
  <2>2. a \in Nat /\ low <= a /\ a <= high /\ b \in Nat /\ low <= b /\ b <= high
    BY <1>2, <2>1
  <2>3. MedianSorted(t) = <<a + b, 2>>
    BY <1>3, <1>5 DEF MedianSorted
  <2> HIDE DEF a, b
  <2> QED
    BY <2>2, <2>3 DEF Between, t
<1> QED
  BY <1>4, <1>5

(* What is compared of a side lies between its samples.                    *)
LEMMA ValueBetween ==
  ASSUME NEW s \in Samples, NEW low \in Nat, NEW high \in Nat,
         \A i \in DOMAIN s : low <= s[i] /\ s[i] <= high
  PROVE  Between(Value(Summarize(s), Statistic), low, high)
<1>1. s # <<>>
  BY DEF Samples
<1>2. Value(Summarize(s), Statistic) \in {MeanFloat(s), MedianSorted(Sorted(s))}
  BY <1>1 DEF Summarize, Value
<1>3. Between(MeanFloat(s), low, high) /\ Between(MedianSorted(Sorted(s)), low, high)
  BY MeanBetween, MedianBetween
<1> QED
  BY <1>2, <1>3

(* The summary's extremes are those of the samples.                        *)
LEMMA ExtremesOf ==
  ASSUME NEW s \in Samples
  PROVE  LET u == Summarize(s) IN
         /\ u.count = Len(s) /\ u.min \in Nat /\ u.max \in Nat /\ u.min <= u.max
         /\ \A i \in DOMAIN s : u.min <= s[i] /\ s[i] <= u.max
<1> DEFINE u == Summarize(s)
           t == Sorted(s)
           n == Len(s)
<1>1. s # <<>> /\ n \in Nat /\ n >= 1 /\ t \in [1..n -> Nat]
  BY SortedIs DEF Samples
<1>2. u.count = n /\ u.min = t[1] /\ u.max = t[n]
  <2>1. u.count = n /\ u.min = t[1] /\ u.max = Last(t)
    BY <1>1 DEF Summarize
  <2>2. Last(t) = t[n]
    BY <1>1 DEF Last
  <2> QED
    BY <2>1, <2>2
<1>3. \A i \in DOMAIN s : t[1] <= s[i] /\ s[i] <= t[n]
  BY SortedIs
<1>4. t[1] \in Nat /\ t[n] \in Nat /\ 1 \in DOMAIN s /\ s[1] \in Nat
  BY <1>1 DEF Samples
<1> HIDE DEF t, n, u
<1>5. t[1] <= t[n]
  <2> DEFINE a == t[1]
             b == s[1]
             c == t[n]
  <2>1. a \in Nat /\ b \in Nat /\ c \in Nat /\ a <= b /\ b <= c
    BY <1>3, <1>4
  <2> HIDE DEF a, b, c
  <2>2. a <= c
    BY <2>1
  <2> QED
    BY <2>2 DEF a, c
<1> QED
  BY <1>2, <1>3, <1>4, <1>5 DEF u, n

(* And so does what is compared of a resample.                             *)
LEMMA ResampleBetween ==
  ASSUME NEW s \in Samples, NEW v \in Resampled(s)
  PROVE  Between(v, Summarize(s).min, Summarize(s).max)
<1> DEFINE low == Summarize(s).min
           high == Summarize(s).max
<1>1. low \in Nat /\ high \in Nat /\ \A i \in DOMAIN s : low <= s[i] /\ s[i] <= high
  BY ExtremesOf
<1> HIDE DEF low, high
<1>2. PICK f \in [DOMAIN s -> DOMAIN s] :
        v = Value(Summarize([i \in DOMAIN s |-> s[f[i]]]), Statistic)
  BY DEF Resampled
<1> DEFINE r == [i \in DOMAIN s |-> s[f[i]]]
<1>3. DOMAIN s = 1..Len(s) /\ Len(s) \in Nat /\ Len(s) >= 1 /\ \A i \in DOMAIN s : s[i] \in Nat
  BY EmptySeq DEF Samples
<1>4. \A i \in DOMAIN s : f[i] \in DOMAIN s
  BY <1>2
<1>5. r \in [1..Len(s) -> Nat] /\ DOMAIN r = 1..Len(s)
  BY <1>3, <1>4
<1>6. r \in Samples
  <2>1. r \in Seq(Nat)
    BY <1>3, <1>5
  <2>2. 1 \in DOMAIN r
    BY <1>3, <1>5
  <2> HIDE DEF r
  <2> QED
    BY <2>1, <2>2 DEF Samples
<1>7. \A i \in DOMAIN r : low <= r[i] /\ r[i] <= high
  BY <1>1, <1>3, <1>4
<1> HIDE DEF r
<1>8. Between(Value(Summarize(r), Statistic), low, high)
  BY <1>1, <1>6, <1>7, ValueBetween
<1> QED
  BY <1>2, <1>8 DEF low, high, r

(* Multiplying keeps the order.                                            *)
LEMMA Times ==
  ASSUME NEW a \in Int, NEW b \in Int, NEW c \in Nat
  PROVE  /\ a <= b => a * c <= b * c
         /\ a < b /\ c > 0 => a * c < b * c
<1> DEFINE d == b - a
<1>1. d \in Int /\ b = a + d
  OBVIOUS
<1>2. b * c = a * c + d * c /\ a * c \in Int /\ d * c \in Int
  OBVIOUS
<1> HIDE DEF d
<1>3. d >= 0 => d * c >= 0
  BY <1>1
<1>4. d > 0 /\ c > 0 => d * c > 0
  BY <1>1
<1>5. a <= b => d >= 0
  BY <1>1
<1>6. a < b => d > 0
  BY <1>1
<1> DEFINE p == a * c
           q == d * c
<1>7. p \in Int /\ q \in Int /\ b * c = p + q /\ a * c = p /\ (a <= b => q >= 0) /\ (a < b /\ c > 0 => q > 0)
  BY <1>2, <1>3, <1>4, <1>5, <1>6
<1> HIDE DEF p, q
<1> QED
  BY <1>7

(* Both ways of the change, on cross products.                             *)
Fraction(v) == v[1] \in Nat /\ v[2] \in Nat /\ v[2] > 0

(* Rises and Falls compare one product of each with the tolerance.         *)
LEMMA Cross ==
  ASSUME opt.max \in Nat, NEW b, NEW h, Fraction(b), Fraction(h)
  PROVE  LET x == b[1] * h[2]
             y == h[1] * b[2] IN
         /\ x \in Nat /\ y \in Nat
         /\ Rises(b, h) <=> (100 + opt.max) * x < 100 * y
         /\ Falls(b, h) <=> 100 * y < (100 - opt.max) * x
<1> DEFINE m == opt.max
           b1 == b[1]
           b2 == b[2]
           h1 == h[1]
           h2 == h[2]
<1>1. m \in Nat /\ b1 \in Nat /\ b2 \in Nat /\ h1 \in Nat /\ h2 \in Nat
  BY DEF Fraction
<1>2. /\ Rises(b, h) <=> ((100 + m) * b1) * h2 < (100 * h1) * b2
      /\ Falls(b, h) <=> (100 * h1) * b2 < ((100 - m) * b1) * h2
  BY DEF Rises, Falls
<1> HIDE DEF m, b1, b2, h1, h2
<1>3. /\ ((100 + m) * b1) * h2 = (100 + m) * (b1 * h2)
      /\ ((100 - m) * b1) * h2 = (100 - m) * (b1 * h2)
      /\ (100 * h1) * b2 = 100 * (h1 * b2)
      /\ b1 * h2 \in Nat /\ h1 * b2 \in Nat
  BY <1>1
<1> QED
  BY <1>2, <1>3 DEF m, b1, b2, h1, h2

(* No resample counts for both.                                            *)
LEMMA NotBoth ==
  ASSUME opt.max \in Nat, NEW b, NEW h, Fraction(b), Fraction(h)
  PROVE  ~(Rises(b, h) /\ Falls(b, h))
<1> DEFINE x == b[1] * h[2]
           y == h[1] * b[2]
           m == opt.max
<1>1. /\ x \in Nat /\ y \in Nat /\ m \in Nat
      /\ Rises(b, h) <=> (100 + m) * x < 100 * y
      /\ Falls(b, h) <=> 100 * y < (100 - m) * x
  BY Cross
<1> HIDE DEF x, y, m
<1>2. (100 + m) * x >= (100 - m) * x
  <2>1. 100 - m <= 100 + m /\ 100 - m \in Int /\ 100 + m \in Int
    BY <1>1
  <2> QED
    BY <1>1, <2>1, Times
<1>3. (100 + m) * x \in Int /\ (100 - m) * x \in Int /\ 100 * y \in Int
  BY <1>1
<1> QED
  BY <1>1, <1>2, <1>3

(* When the least of one side is beyond the tolerance above the greatest   *)
(* of the other, so is every value between them.                           *)
LEMMA AllRise ==
  ASSUME opt.max \in Nat, NEW top \in Nat, NEW low \in Nat, NEW b, NEW h,
         NEW least \in Nat, NEW greatest \in Nat,
         Between(b, least, top), Between(h, low, greatest), Rises(Whole(top), Whole(low))
  PROVE  /\ Rises(b, h) /\ top < low
         /\ (low - top) * (b[2] * h[2]) <= h[1] * b[2] - b[1] * h[2]
<1> DEFINE m == opt.max
           b1 == b[1]
           b2 == b[2]
           h1 == h[1]
           h2 == h[2]
           c == b2 * h2
           x == b1 * h2
           y == h1 * b2
<1>1. /\ m \in Nat /\ b1 \in Nat /\ b2 \in Nat /\ h1 \in Nat /\ h2 \in Nat /\ b2 > 0 /\ h2 > 0
      /\ b1 <= top * b2 /\ low * h2 <= h1
  BY DEF Between
<1>2. (100 + m) * top < 100 * low
  BY <1>1 DEF Rises, Whole
<1>3. /\ x \in Nat /\ y \in Nat
      /\ Rises(b, h) <=> (100 + m) * x < 100 * y
  BY Cross DEF Between, Fraction
<1> HIDE DEF m, b1, b2, h1, h2
<1>4. c \in Nat /\ c > 0
  BY <1>1
<1>5. x <= top * c
  <2>1. b1 * h2 <= (top * b2) * h2
    BY <1>1, Times
  <2>2. (top * b2) * h2 = top * (b2 * h2)
    BY <1>1
  <2> QED
    BY <2>1, <2>2
<1>6. low * c <= y
  <2>1. (low * h2) * b2 <= h1 * b2
    BY <1>1, Times
  <2>2. (low * h2) * b2 = low * (b2 * h2)
    BY <1>1
  <2> QED
    BY <2>1, <2>2
<1> HIDE DEF c, x, y
<1>7. (100 + m) * x < 100 * y
  <2>1. (100 + m) * x <= (100 + m) * (top * c)
    <3>1. top * c \in Int /\ 100 + m \in Nat
      BY <1>1, <1>4
    <3>2. x * (100 + m) <= (top * c) * (100 + m)
      BY <1>3, <1>5, <3>1, Times
    <3> QED
      BY <1>3, <3>1, <3>2
  <2>2. (100 + m) * (top * c) < 100 * (low * c)
    <3>1. (100 + m) * top \in Int /\ 100 * low \in Int
      BY <1>1
    <3>2. ((100 + m) * top) * c < (100 * low) * c
      BY <1>2, <1>4, <3>1, Times
    <3>3. ((100 + m) * top) * c = (100 + m) * (top * c) /\ (100 * low) * c = 100 * (low * c)
      BY <1>1, <1>4
    <3> QED
      BY <3>2, <3>3
  <2>3. 100 * (low * c) <= 100 * y
    <3>1. low * c \in Int
      BY <1>4
    <3> QED
      BY <1>3, <1>6, <3>1
  <2> DEFINE p == (100 + m) * x
             q == (100 + m) * (top * c)
             r == 100 * (low * c)
  <2>4. p \in Int /\ q \in Int /\ r \in Int
    BY <1>1, <1>3, <1>4
  <2> HIDE DEF p, q, r
  <2>5. p < 100 * y
    <3>1. p <= q /\ q < r /\ r <= 100 * y
      BY <2>1, <2>2, <2>3 DEF p, q, r
    <3> QED
      BY <1>3, <2>4, <3>1
  <2> QED
    BY <2>5 DEF p
<1>8. top < low
  <2>1. (100 + m) * top = 100 * top + m * top /\ m * top \in Nat
    BY <1>1
  <2> DEFINE k == m * top
  <2>2. 100 * top + k < 100 * low /\ k \in Nat
    BY <1>2, <2>1
  <2> HIDE DEF k
  <2> QED
    BY <2>2
<1>9. (low - top) * c <= y - x
  <2>1. (low - top) * c = low * c - top * c /\ low * c \in Int /\ top * c \in Int
    BY <1>4
  <2> DEFINE p == low * c
             q == top * c
  <2>2. p \in Int /\ q \in Int /\ (low - top) * c = p - q /\ p <= y /\ x <= q
    BY <1>5, <1>6, <2>1
  <2> HIDE DEF p, q
  <2> QED
    BY <1>3, <2>2
<1> QED
  BY <1>3, <1>7, <1>8, <1>9 DEF c, x, y, b1, b2, h1, h2

(* And below it likewise.                                                  *)
LEMMA AllFall ==
  ASSUME opt.max \in Nat, NEW bottom \in Nat, NEW high \in Nat, NEW b, NEW h,
         NEW least \in Nat, NEW greatest \in Nat,
         Between(b, bottom, greatest), Between(h, least, high), Falls(Whole(bottom), Whole(high))
  PROVE  /\ Falls(b, h) /\ high < bottom
         /\ (bottom - high) * (b[2] * h[2]) <= b[1] * h[2] - h[1] * b[2]
<1> DEFINE m == opt.max
           b1 == b[1]
           b2 == b[2]
           h1 == h[1]
           h2 == h[2]
           c == b2 * h2
           x == b1 * h2
           y == h1 * b2
<1>1. /\ m \in Nat /\ b1 \in Nat /\ b2 \in Nat /\ h1 \in Nat /\ h2 \in Nat /\ b2 > 0 /\ h2 > 0
      /\ bottom * b2 <= b1 /\ h1 <= high * h2
  BY DEF Between
<1>2. 100 * high < (100 - m) * bottom
  BY <1>1 DEF Falls, Whole
<1>3. /\ x \in Nat /\ y \in Nat
      /\ Falls(b, h) <=> 100 * y < (100 - m) * x
  BY Cross DEF Between, Fraction
<1> HIDE DEF m, b1, b2, h1, h2
<1>4. c \in Nat /\ c > 0
  BY <1>1
<1>5. bottom * c <= x
  <2>1. (bottom * b2) * h2 <= b1 * h2
    BY <1>1, Times
  <2>2. (bottom * b2) * h2 = bottom * (b2 * h2)
    BY <1>1
  <2> QED
    BY <2>1, <2>2
<1>6. y <= high * c
  <2>1. h1 * b2 <= (high * h2) * b2
    BY <1>1, Times
  <2>2. (high * h2) * b2 = high * (b2 * h2)
    BY <1>1
  <2> QED
    BY <2>1, <2>2
<1>8. 100 - m \in Nat /\ high < bottom
  <2>1. 100 - m > 0
    <3> SUFFICES ASSUME 100 - m <= 0 PROVE FALSE
      BY <1>1
    <3>1. (100 - m) * bottom <= 0 * bottom
      BY <1>1, Times
    <3>2. 0 * bottom = 0 /\ (100 - m) * bottom \in Int
      BY <1>1
    <3> QED
      BY <1>2, <3>1, <3>2
  <2>2. (100 - m) * bottom = 100 * bottom - m * bottom /\ m * bottom \in Nat
    BY <1>1
  <2> DEFINE k == m * bottom
  <2>3. 100 * high < 100 * bottom - k /\ k \in Nat
    BY <1>2, <2>2
  <2> HIDE DEF k
  <2> QED
    BY <1>1, <2>1, <2>3
<1> HIDE DEF c, x, y
<1> DEFINE n == 100 - m
<1> HIDE DEF n
<1>7. 100 * y < n * x
  <2>0. n \in Nat /\ 100 * high < n * bottom
    BY <1>2, <1>8 DEF n
  <2>1. n * (bottom * c) <= n * x
    <3>1. bottom * c \in Int
      BY <1>4
    <3>2. (bottom * c) * n <= x * n
      BY <1>3, <1>5, <2>0, <3>1, Times
    <3> QED
      BY <1>3, <2>0, <3>1, <3>2
  <2>2. 100 * (high * c) < n * (bottom * c)
    <3>1. n * bottom \in Int /\ 100 * high \in Int
      BY <2>0
    <3>2. (100 * high) * c < (n * bottom) * c
      BY <2>0, <1>4, <3>1, Times
    <3>3. (n * bottom) * c = n * (bottom * c) /\ (100 * high) * c = 100 * (high * c)
      BY <2>0, <1>4
    <3> QED
      BY <3>2, <3>3
  <2>3. 100 * y <= 100 * (high * c)
    <3>1. high * c \in Int
      BY <1>4
    <3> QED
      BY <1>3, <1>6, <3>1
  <2> DEFINE p == n * x
             q == n * (bottom * c)
             r == 100 * (high * c)
  <2>4. p \in Int /\ q \in Int /\ r \in Int
    BY <2>0, <1>3, <1>4
  <2>6. 100 * y <= r /\ r < q /\ q <= p
    BY <2>1, <2>2, <2>3
  <2> HIDE DEF p, q, r
  <2>5. 100 * y < p
    BY <1>3, <2>4, <2>6
  <2> QED
    BY <2>5 DEF p
<1>9. (bottom - high) * c <= x - y
  <2>1. (bottom - high) * c = bottom * c - high * c /\ bottom * c \in Int /\ high * c \in Int
    BY <1>4
  <2> DEFINE p == bottom * c
             q == high * c
  <2>2. p \in Int /\ q \in Int /\ (bottom - high) * c = p - q /\ p <= x /\ y <= q
    BY <1>5, <1>6, <2>1
  <2> HIDE DEF p, q
  <2> QED
    BY <1>3, <2>2
<1> QED
  BY <1>3, <1>7, <1>8, <1>9 DEF c, x, y, b1, b2, h1, h2, n

-----------------------------------------------------------------------------
(* The invariant.                                                          *)

B == Summarize(against)
H == Summarize(of)

(* All of the head is beyond the tolerance above all of the base, or below.*)
Rising == Rises(Whole(B.max), Whole(H.min))
Falling == Falls(Whole(B.min), Whole(H.max))

(* The bootstrap gives one change a round, or none at all.                 *)
Drawing ==
  /\ stage \in {"budget", "compare"} => iteration = 0 /\ drawn = 0 /\ worse = 0 /\ better = 0
  /\ stage = "bootstrap" =>
       /\ against \in Samples /\ of \in Samples
       /\ drawn = iteration \/ (drawn = 0 /\ iteration = Resamples)
       /\ (Rising => worse = drawn) /\ (Falling => better = drawn)

(* What Compare has decided is called if it had to be.                     *)
Enough ==
  /\ drawn = Resamples /\ B.count >= opt.samples /\ H.count >= opt.samples
  /\ B.min > 0 /\ H.min > 0
Called ==
  Enough =>
    /\ Rising /\ H.min - B.max >= opt.difference => verdict = "regression"
    /\ Falling /\ B.min - H.max >= opt.difference => verdict = "improved"

Deciding ==
  /\ stage \in {"settle", "done"} <=> verdict # "none"
  /\ verdict \in {"regression", "improved", "pass"} => drawn = Resamples
  /\ stage = "settle" => Called

IInv == TypeOK /\ Drawing /\ Deciding /\ SeparatedIsCalled

-----------------------------------------------------------------------------
(* What an option can be.                                                  *)
LEMMA OptionIs ==
  ASSUME TypeOK
  PROVE  /\ opt.max \in Nat /\ opt.difference \in Nat /\ opt.samples \in Nat /\ opt.limit \in Nat
         /\ opt.confidence \in 0..100
         /\ base.samples \in Seq(Nat) /\ base.floors \in Seq(Nat)
         /\ head.samples \in Seq(Nat) /\ head.floors \in Seq(Nat)
         /\ Resamples \in Nat /\ Resamples > 0
<1>1. opt \in Options /\ base \in Sides /\ head \in Sides
  BY DEF TypeOK
<1>2. /\ \A o \in Options : {o.max, o.difference, o.samples, o.limit} \subseteq Nat /\ o.confidence \in 0..100
      /\ \A s \in Sides : s.samples \in Seq(Nat) /\ s.floors \in Seq(Nat)
      /\ Resamples \in Nat /\ Resamples > 0
  BY ComparisonAssumption
<1> QED
  BY <1>1, <1>2

(* The floor of a side.                                                    *)
LEMMA FloorIs ==
  ASSUME NEW s, s.floors \in Seq(Nat)
  PROVE  FloorOf(s) \in Nat /\ \A i \in DOMAIN s.floors : s.floors[i] <= FloorOf(s)
<1> DEFINE f == s.floors
           T == Range(f) \cup {0}
<1>1. PICK N \in Nat : \A i \in DOMAIN f : f[i] <= N
  BY UpperBound
<1>2. T \in SUBSET (0..N) /\ T # {} /\ \A i \in DOMAIN f : f[i] \in T
  BY <1>1 DEF Range
<1> HIDE DEF T
<1>3. \E m \in T : \A k \in T : k <= m
  BY <1>2, LargestNumber
<1>4. FloorOf(s) = CHOOSE m \in T : \A k \in T : m >= k
  BY DEF FloorOf, Max, T
<1>5. \E m \in T : \A k \in T : m >= k
  BY <1>2, <1>3
<1>6. FloorOf(s) \in T /\ \A k \in T : FloorOf(s) >= k
  BY <1>4, <1>5
<1>7. FloorOf(s) \in Nat
  <2>1. T \subseteq 0..N /\ N \in Nat
    BY <1>1, <1>2
  <2>2. FloorOf(s) \in 0..N
    BY <2>1, <1>6
  <2> QED
    BY <2>1, <2>2
<1>8. \A i \in DOMAIN f : f[i] <= FloorOf(s)
  <2> SUFFICES ASSUME NEW i \in DOMAIN f PROVE f[i] <= FloorOf(s)
    OBVIOUS
  <2>1. f[i] \in T /\ T \subseteq Nat
    BY <1>1, <1>2
  <2> QED
    BY <2>1, <1>6, <1>7
<1> QED
  BY <1>7, <1>8

(* Raised to its floor, a measured side still has its samples.             *)
LEMMA RaisedIs ==
  ASSUME NEW s, s.samples \in Seq(Nat), s.floors \in Seq(Nat), Measured(s)
  PROVE  RaiseToFloor(s) \in Samples
<1> DEFINE x == s.samples
           raised == [i \in DOMAIN x |-> Max({x[i], FloorOf(s)})]
<1>1. x \in Samples
  BY DEF Measured, Samples
<1>2. FloorOf(s) \in Nat
  BY FloorIs
<1>3. \A a, b \in Nat : Max({a, b}) \in Nat
  <2> SUFFICES ASSUME NEW a \in Nat, NEW b \in Nat PROVE Max({a, b}) \in Nat
    OBVIOUS
  <2>1. \E m \in {a, b} : \A k \in {a, b} : m >= k
    OBVIOUS
  <2>2. Max({a, b}) \in {a, b}
    BY <2>1 DEF Max
  <2> QED
    BY <2>2
<1>4. DOMAIN x = 1..Len(x) /\ Len(x) \in Nat /\ Len(x) >= 1 /\ \A i \in DOMAIN x : x[i] \in Nat
  BY <1>1, EmptySeq DEF Samples
<1>5. RaiseToFloor(s) \in {raised, x}
  BY DEF RaiseToFloor
<1> HIDE DEF x
<1>6. \A i \in DOMAIN x : raised[i] \in Nat
  BY <1>2, <1>3, <1>4
<1>7. DOMAIN raised = 1..Len(x) /\ raised \in [1..Len(x) -> Nat]
  <2>1. DOMAIN raised = DOMAIN x /\ raised = [i \in DOMAIN x |-> raised[i]]
    OBVIOUS
  <2> HIDE DEF raised
  <2> QED
    BY <2>1, <1>4, <1>6
<1> HIDE DEF raised
<1>8. raised \in Samples
  <2>1. raised \in Seq(Nat) /\ 1 \in DOMAIN raised
    BY <1>4, <1>7
  <2> QED
    BY <2>1 DEF Samples
<1> QED
  BY <1>1, <1>5, <1>8

(* What is compared lies between the extremes.                             *)
LEMMA ValueOf ==
  ASSUME NEW s \in Samples
  PROVE  LET u == Summarize(s) IN
         /\ Between(Value(u, Statistic), u.min, u.max)
         /\ u.min \in Nat /\ u.max \in Nat /\ u.min <= u.max /\ u.count = Len(s)
<1> DEFINE u == Summarize(s)
<1>1. /\ u.count = Len(s) /\ u.min \in Nat /\ u.max \in Nat /\ u.min <= u.max
      /\ \A i \in DOMAIN s : u.min <= s[i] /\ s[i] <= u.max
  BY ExtremesOf
<1>2. Between(Value(u, Statistic), u.min, u.max)
  <2> DEFINE low == u.min
             high == u.max
  <2>1. low \in Nat /\ high \in Nat /\ \A i \in DOMAIN s : low <= s[i] /\ s[i] <= high
    BY <1>1
  <2> HIDE DEF low, high
  <2>2. Between(Value(Summarize(s), Statistic), low, high)
    BY <2>1, ValueBetween
  <2> QED
    BY <2>2 DEF low, high
<1> QED
  BY <1>1, <1>2

(* A summary's count is a number.                                          *)
LEMMA CountIs ==
  ASSUME NEW s \in Samples
  PROVE  Summarize(s).count \in Nat
<1>1. Summarize(s).count = Len(s)
  BY ValueOf
<1>2. Len(s) \in Nat
  BY DEF Samples
<1> QED
  BY <1>1, <1>2

(* Everything that counts for a change is enough for its verdict.          *)
LEMMA AllConfident ==
  ASSUME TypeOK, NEW count, count = drawn
  PROVE  Confident(count)
<1> DEFINE c == opt.confidence
<1>1. c \in Nat /\ c <= 100 /\ drawn \in Nat
  <2>1. c \in 0..100 /\ Resamples \in Nat
    BY OptionIs
  <2>2. drawn \in 0..Resamples
    BY DEF TypeOK
  <2> HIDE DEF c
  <2> QED
    BY <2>1, <2>2
<1> HIDE DEF c
<1>2. c * drawn <= 100 * drawn
  BY <1>1, Times
<1> QED
  BY <1>2 DEF Confident, c

(* A gap that every pair of values shows is not within min_difference.     *)
LEMMA FarEnough ==
  ASSUME opt.difference \in Nat, NEW b, NEW h, Fraction(b), Fraction(h), NEW gap \in Int,
         gap >= opt.difference,
         \/ gap * (b[2] * h[2]) <= h[1] * b[2] - b[1] * h[2]
         \/ gap * (b[2] * h[2]) <= b[1] * h[2] - h[1] * b[2]
  PROVE  ~Within(b, h)
<1> DEFINE k == opt.difference
           b1 == b[1]
           b2 == b[2]
           h1 == h[1]
           h2 == h[2]
           c == b2 * h2
           x == b1 * h2
           y == h1 * b2
           low == k * c
<1>1. k \in Nat /\ b1 \in Nat /\ b2 \in Nat /\ h1 \in Nat /\ h2 \in Nat /\ gap >= k
  BY DEF Fraction
<1>2. Within(b, h) <=> -((k * b2) * h2) < y - x /\ y - x < (k * b2) * h2
  BY DEF Within
<1>3. gap * c <= y - x \/ gap * c <= x - y
  OBVIOUS
<1> HIDE DEF k, b1, b2, h1, h2
<1>4. c \in Nat /\ x \in Nat /\ y \in Nat /\ (k * b2) * h2 = low
  BY <1>1
<1> HIDE DEF c, x, y
<1>5. low <= gap * c
  BY <1>1, <1>4, Times
<1>6. low \in Int /\ gap * c \in Int
  BY <1>1, <1>4
<1> DEFINE g == gap * c
<1> HIDE DEF low
<1>7. low <= g /\ g \in Int /\ (g <= y - x \/ g <= x - y)
  BY <1>3, <1>5, <1>6
<1> HIDE DEF g
<1> QED
  BY <1>2, <1>4, <1>6, <1>7

-----------------------------------------------------------------------------
(* Every step preserves it.                                                *)

(* It holds at first.                                                      *)
LEMMA InitOK == Init => IInv
<1> SUFFICES ASSUME Init PROVE IInv
  OBVIOUS
<1>1. Resamples \in Nat /\ Resamples > 0
  BY ComparisonAssumption
<1>2. TypeOK
  BY <1>1 DEF Init, TypeOK
<1>3. Drawing
  BY DEF Init, Drawing
<1>4. Deciding
  BY DEF Init, Deciding
<1>5. SeparatedIsCalled
  BY DEF Init, SeparatedIsCalled
<1> QED
  BY <1>2, <1>3, <1>4, <1>5 DEF IInv

(* The budget does not touch the comparison.                               *)
LEMMA BudgetStep == IInv /\ CheckBudget => IInv'
<1> SUFFICES ASSUME IInv, CheckBudget PROVE IInv'
  OBVIOUS
<1>1. /\ stage = "budget" /\ stage' = "compare" /\ opt' = opt /\ base' = base /\ head' = head
      /\ against' = against /\ of' = of /\ iteration' = iteration /\ drawn' = drawn
      /\ worse' = worse /\ better' = better /\ verdict' = verdict /\ reason' = reason
  BY DEF CheckBudget, sides, draws
<1>2. budget' \in {"pass", "fail", "skipped"}
  BY DEF CheckBudget, MeasuredBudget
<1>3. TypeOK'
  BY <1>1, <1>2 DEF IInv, TypeOK
<1>4. Drawing' /\ Deciding' /\ SeparatedIsCalled'
  BY <1>1 DEF IInv, Drawing, Deciding, SeparatedIsCalled
<1> QED
  BY <1>3, <1>4 DEF IInv

(* Nothing is compared.                                                    *)
LEMMA SkipStep == IInv /\ Skip => IInv'
<1> SUFFICES ASSUME IInv, Skip PROVE IInv'
  OBVIOUS
<1>1. /\ stage = "compare" /\ stage' = "done" /\ opt' = opt /\ base' = base /\ head' = head
      /\ against' = against /\ of' = of /\ iteration' = iteration /\ drawn' = drawn
      /\ worse' = worse /\ better' = better /\ budget' = budget
  BY DEF Skip, sides, draws
<1>2. verdict' = "skipped" /\ reason' \in {"unsupported", "floor"}
  BY DEF Skip, Decide
<1>3. TypeOK'
  BY <1>1, <1>2 DEF IInv, TypeOK
<1>4. drawn' # Resamples
  BY <1>1, ComparisonAssumption DEF IInv, Drawing
<1>5. Drawing' /\ Deciding' /\ SeparatedIsCalled'
  BY <1>1, <1>2, <1>4 DEF Drawing, Deciding, SeparatedIsCalled
<1> QED
  BY <1>3, <1>5 DEF IInv

(* The samples of both sides, raised to their floors.                      *)
LEMMA PrepareStep == IInv /\ Prepare => IInv'
<1> SUFFICES ASSUME IInv, Prepare PROVE IInv'
  OBVIOUS
<1>1. /\ stage = "compare" /\ opt' = opt /\ base' = base /\ head' = head
      /\ iteration' = iteration /\ drawn' = drawn /\ worse' = worse /\ better' = better /\ budget' = budget
      /\ Measured(base) /\ Measured(head)
      /\ against' = RaiseToFloor(base) /\ of' = RaiseToFloor(head)
  BY DEF Prepare, sides, draws
<1>2. \/ stage' = "bootstrap" /\ verdict' = verdict /\ reason' = reason
      \/ stage' = "settle" /\ verdict' = "inconclusive" /\ reason' = "zero base"
  BY DEF Prepare, Decide
<1>3. verdict = "none" /\ drawn = 0 /\ iteration = 0 /\ worse = 0 /\ better = 0 /\ Resamples > 0
  BY <1>1, ComparisonAssumption DEF IInv, Drawing, Deciding
<1>4. TypeOK'
  BY <1>1, <1>2, <1>3 DEF IInv, TypeOK
<1>5. against' \in Samples /\ of' \in Samples
  BY <1>1, OptionIs, RaisedIs DEF IInv
<1>6. Drawing'
  BY <1>1, <1>2, <1>3, <1>5 DEF Drawing
<1>7. Deciding'
  <2>1. drawn' # Resamples
    BY <1>1, <1>3
  <2>2. Called'
    BY <2>1 DEF Called, Enough
  <2> QED
    BY <1>1, <1>2, <1>3, <2>2 DEF Deciding
<1>8. SeparatedIsCalled'
  BY <1>2 DEF SeparatedIsCalled
<1> QED
  BY <1>4, <1>6, <1>7, <1>8 DEF IInv

(* One round of the bootstrap counts as every other when all samples of    *)
(* one side are beyond the tolerance from all of the other.                *)
LEMMA DrawStep == IInv /\ Draw => IInv'
<1> SUFFICES ASSUME IInv, Draw PROVE IInv'
  OBVIOUS
<1>1. /\ stage = "bootstrap" /\ iteration < Resamples /\ stage' = stage /\ opt' = opt /\ base' = base /\ head' = head
      /\ against' = against /\ of' = of /\ verdict' = verdict /\ reason' = reason /\ budget' = budget
  BY DEF Draw, sides
<1>2. PICK b \in Resampled(against), h \in Resampled(of) : Count(b, h)
  BY DEF Draw
<1>4. /\ Resamples \in Nat /\ Resamples > 0 /\ iteration \in Nat /\ drawn \in Nat /\ worse \in Nat /\ better \in Nat
      /\ worse + better <= drawn
  <2>1. Resamples \in Nat /\ Resamples > 0
    BY ComparisonAssumption
  <2>2. {iteration, drawn, worse, better} \subseteq 0..Resamples /\ worse + better <= drawn
    BY DEF IInv, TypeOK
  <2> QED
    BY <2>1, <2>2
<1>3. /\ against \in Samples /\ of \in Samples /\ drawn = iteration
      /\ (Rising => worse = drawn) /\ (Falling => better = drawn)
  <2>1. iteration # Resamples
    BY <1>1, <1>4
  <2> QED
    BY <1>1, <2>1 DEF IInv, Drawing
<1>5. opt.max \in Nat
  BY OptionIs DEF IInv
<1>6. /\ Between(b, B.min, B.max) /\ Between(h, H.min, H.max)
      /\ B.min \in Nat /\ B.max \in Nat /\ H.min \in Nat /\ H.max \in Nat
  <2>1. Between(b, B.min, B.max) /\ Between(h, H.min, H.max)
    BY <1>2, <1>3, ResampleBetween DEF B, H
  <2> QED
    BY <1>3, <2>1, ValueOf DEF B, H
<1>7. ~(Rises(b, h) /\ Falls(b, h))
  BY <1>5, <1>6, NotBoth DEF Between, Fraction
<1>8. Rising => Rises(b, h)
  BY <1>5, <1>6, AllRise DEF Rising
<1>9. Falling => Falls(b, h)
  BY <1>5, <1>6, AllFall DEF Falling
<1>10. Rising' = Rising /\ Falling' = Falling
  BY <1>1 DEF Rising, Falling, Rises, Falls, B, H
<1>11. \/ /\ iteration' = iteration + 1 /\ drawn' = drawn + 1
          /\ worse' = worse + (IF Rises(b, h) THEN 1 ELSE 0)
          /\ better' = better + (IF Falls(b, h) THEN 1 ELSE 0)
       \/ iteration' = Resamples /\ drawn' = 0 /\ worse' = 0 /\ better' = 0
  BY <1>2 DEF Count
<1>12. /\ iteration' \in 0..Resamples /\ drawn' \in 0..Resamples /\ worse' \in 0..Resamples /\ better' \in 0..Resamples
       /\ worse' + better' <= drawn' /\ drawn' <= iteration'
       /\ drawn' = iteration' \/ (drawn' = 0 /\ iteration' = Resamples)
       /\ (Rising => worse' = drawn') /\ (Falling => better' = drawn')
  BY <1>1, <1>3, <1>4, <1>7, <1>8, <1>9, <1>11
<1>13. TypeOK'
  BY <1>1, <1>12 DEF IInv, TypeOK
<1>14. Drawing'
  BY <1>1, <1>3, <1>10, <1>12 DEF Drawing
<1>15. verdict = "none"
  BY <1>1 DEF IInv, Deciding
<1>16. Deciding' /\ SeparatedIsCalled'
  BY <1>1, <1>15 DEF Deciding, SeparatedIsCalled
<1> QED
  BY <1>13, <1>14, <1>16 DEF IInv

(* Compare's decision.                                                     *)
LEMMA ClassifyStep == IInv /\ Classify => IInv'
<1> SUFFICES ASSUME IInv, Classify PROVE IInv'
  OBVIOUS
<1> DEFINE bv == Value(B, Statistic)
           hv == Value(H, Statistic)
           few == B.count < opt.samples \/ H.count < opt.samples
           noisy == /\ opt.cv > 0 /\ ~Separated(B, H)
                    /\ Noisier(B, Statistic, opt.cv) \/ Noisier(H, Statistic, opt.cv)
           small == opt.difference > 0 /\ Within(bv, hv)
<1>1. /\ stage = "bootstrap" /\ stage' = "settle" /\ opt' = opt /\ base' = base /\ head' = head
      /\ against' = against /\ of' = of /\ iteration = Resamples /\ iteration' = iteration /\ drawn' = drawn
      /\ worse' = worse /\ better' = better /\ budget' = budget
  BY DEF Classify, sides, draws
<1>2. /\ verdict' \in {"inconclusive", "pass", "regression", "improved"}
      /\ reason' \in {"few samples", "noisy", "zero bootstrap base", "below min_difference", "none", "too close"}
      /\ verdict' # "inconclusive" => drawn # 0
      /\ ~few /\ ~noisy /\ drawn # 0 /\ ~small =>
           /\ Rises(bv, hv) /\ Confident(worse) => verdict' = "regression"
           /\ ~Rises(bv, hv) /\ Falls(bv, hv) /\ Confident(better) => verdict' = "improved"
  <2>1. IF few THEN Decide("inconclusive", "few samples")
        ELSE IF noisy THEN Decide("inconclusive", "noisy")
        ELSE IF drawn = 0 THEN Decide("inconclusive", "zero bootstrap base")
        ELSE IF small THEN Decide("pass", "below min_difference")
        ELSE IF Rises(bv, hv) /\ Confident(worse) THEN Decide("regression", "none")
        ELSE IF Falls(bv, hv) /\ Confident(better) THEN Decide("improved", "none")
        ELSE IF Confident(drawn - worse) THEN Decide("pass", "none")
        ELSE Decide("inconclusive", "too close")
    BY DEF Classify, B, H
  <2> HIDE DEF few, noisy, small
  <2> QED
    BY <2>1 DEF Decide
<1>3. TypeOK'
  <2>1. verdict' # "none" /\ reason' \in {"few samples", "noisy", "zero bootstrap base",
                                          "below min_difference", "none", "too close"}
    BY <1>2
  <2> QED
    BY <1>1, <1>2, <2>1 DEF IInv, TypeOK
<1>4. Drawing' /\ SeparatedIsCalled'
  BY <1>1 DEF Drawing, SeparatedIsCalled
<1>5. /\ against \in Samples /\ of \in Samples
      /\ drawn = Resamples \/ drawn = 0
      /\ (Rising => worse = drawn) /\ (Falling => better = drawn)
  BY <1>1 DEF IInv, Drawing
<1>6. /\ Between(bv, B.min, B.max) /\ Between(hv, H.min, H.max)
      /\ B.min \in Nat /\ B.max \in Nat /\ H.min \in Nat /\ H.max \in Nat
      /\ B.min <= B.max /\ H.min <= H.max
  BY <1>5, ValueOf DEF B, H
<1>7. opt.max \in Nat /\ opt.difference \in Nat /\ Resamples > 0
  BY OptionIs DEF IInv
<1>8. Fraction(bv) /\ Fraction(hv)
  BY <1>6 DEF Between, Fraction
<1>9. ASSUME Enough, Rising, H.min - B.max >= opt.difference
      PROVE  verdict' = "regression"
  <2>1. /\ Rises(bv, hv) /\ B.max < H.min
        /\ (H.min - B.max) * (bv[2] * hv[2]) <= hv[1] * bv[2] - bv[1] * hv[2]
    BY <1>6, <1>7, <1>9, AllRise DEF Rising
  <2>2. ~few /\ ~noisy /\ drawn # 0
    <3>1. ~few
      <4>1. B.count \in Nat /\ H.count \in Nat /\ opt.samples \in Nat
        BY <1>5, CountIs, OptionIs DEF IInv, B, H
      <4>2. B.count >= opt.samples /\ H.count >= opt.samples
        BY <1>9 DEF Enough
      <4> QED
        BY <4>1, <4>2
    <3>2. Separated(B, H)
      BY <1>6, <1>9, <2>1 DEF Enough, Separated
    <3>3. drawn # 0
      BY <1>7, <1>9 DEF Enough
    <3> QED
      BY <3>1, <3>2, <3>3
  <2>3. ~small
    <3>1. ~Within(bv, hv)
      BY <1>7, <1>8, <1>6, <1>9, <2>1, FarEnough
    <3> QED
      BY <3>1
  <2>4. Confident(worse)
    BY <1>5, <1>9, AllConfident DEF IInv
  <2> QED
    BY <1>2, <2>1, <2>2, <2>3, <2>4
<1>10. ASSUME Enough, Falling, B.min - H.max >= opt.difference
       PROVE  verdict' = "improved"
  <2>1. /\ Falls(bv, hv) /\ H.max < B.min
        /\ (B.min - H.max) * (bv[2] * hv[2]) <= bv[1] * hv[2] - hv[1] * bv[2]
    BY <1>6, <1>7, <1>10, AllFall DEF Falling
  <2>2. ~few /\ ~noisy /\ drawn # 0
    <3>1. ~few
      <4>1. B.count \in Nat /\ H.count \in Nat /\ opt.samples \in Nat
        BY <1>5, CountIs, OptionIs DEF IInv, B, H
      <4>2. B.count >= opt.samples /\ H.count >= opt.samples
        BY <1>10 DEF Enough
      <4> QED
        BY <4>1, <4>2
    <3>2. Separated(B, H)
      BY <1>6, <1>10, <2>1 DEF Enough, Separated
    <3>3. drawn # 0
      BY <1>7, <1>10 DEF Enough
    <3> QED
      BY <3>1, <3>2, <3>3
  <2>3. ~small
    <3>1. ~Within(bv, hv)
      BY <1>7, <1>8, <1>6, <1>10, <2>1, FarEnough
    <3> QED
      BY <3>1
  <2>4. Confident(better)
    BY <1>5, <1>10, AllConfident DEF IInv
  <2>5. ~Rises(bv, hv)
    BY <1>7, <1>8, <2>1, NotBoth
  <2> QED
    BY <1>2, <2>1, <2>2, <2>3, <2>4, <2>5
<1>11. Called'
  <2>1. (Enough' => Enough) /\ (Rising' <=> Rising) /\ (Falling' <=> Falling)
        /\ B' = B /\ H' = H /\ opt' = opt
    BY <1>1 DEF Enough, Rising, Falling, Rises, Falls, B, H
  <2> QED
    BY <1>9, <1>10, <2>1 DEF Called
<1>12. Deciding'
  BY <1>1, <1>2, <1>5, <1>11 DEF Deciding
<1> QED
  BY <1>3, <1>4, <1>12 DEF IInv

(* What is left of the verdict when a side is at its floor.                *)
LEMMA SettleStep == IInv /\ Settle => IInv'
<1> SUFFICES ASSUME IInv, Settle PROVE IInv'
  OBVIOUS
<1>1. /\ stage = "settle" /\ stage' = "done" /\ opt' = opt /\ base' = base /\ head' = head
      /\ against' = against /\ of' = of /\ iteration' = iteration /\ drawn' = drawn
      /\ worse' = worse /\ better' = better /\ budget' = budget
  BY DEF Settle, sides, draws
<1>2. \/ verdict' = verdict /\ reason' = reason
      \/ /\ verdict' = "inconclusive" /\ reason' = "floor"
         /\ SideAtFloor(base) \/ SideAtFloor(head)
         /\ verdict = "regression" => SideAtFloor(head)
         /\ verdict = "improved" => SideAtFloor(base)
  BY DEF Settle, Decide
<1>3. verdict # "none" /\ Called /\ (verdict \in {"regression", "improved", "pass"} => drawn = Resamples)
  BY <1>1 DEF IInv, Deciding
<1>4. TypeOK'
  BY <1>1, <1>2, <1>3 DEF IInv, TypeOK
<1>5. Drawing' /\ Deciding'
  BY <1>1, <1>2, <1>3 DEF Drawing, Deciding
<1>6. SeparatedIsCalled'
  <2>1. /\ Enough /\ Rising /\ H.min - B.max >= opt.difference /\ ~SideAtFloor(head) => verdict' = "regression"
        /\ Enough /\ Falling /\ B.min - H.max >= opt.difference /\ ~SideAtFloor(base) => verdict' = "improved"
    BY <1>2, <1>3 DEF Called
  <2> QED
    BY <1>1, <2>1 DEF SeparatedIsCalled, Enough, Rising, Falling, Rises, Falls, SideAtFloor, AtFloor, FloorOf, B, H
<1> QED
  BY <1>4, <1>5, <1>6 DEF IInv

-----------------------------------------------------------------------------
(* Every state of the judgement of a metric is typed, and the bootstrap    *)
(* and the verdict are as the invariant says.                              *)
THEOREM ComparisonInvariant == Spec => []IInv
<1>1. IInv /\ [Next]_vars => IInv'
  <2> SUFFICES ASSUME IInv, [Next]_vars PROVE IInv'
    OBVIOUS
  <2>1. CASE CheckBudget
    BY <2>1, BudgetStep
  <2>2. CASE Skip
    BY <2>2, SkipStep
  <2>3. CASE Prepare
    BY <2>3, PrepareStep
  <2>4. CASE Draw
    BY <2>4, DrawStep
  <2>5. CASE Classify
    BY <2>5, ClassifyStep
  <2>6. CASE Settle
    BY <2>6, SettleStep
  <2>7. CASE UNCHANGED vars
    <3>1. /\ stage' = stage /\ opt' = opt /\ base' = base /\ head' = head /\ against' = against /\ of' = of
          /\ iteration' = iteration /\ drawn' = drawn /\ worse' = worse /\ better' = better
          /\ verdict' = verdict /\ reason' = reason /\ budget' = budget
      BY <2>7 DEF vars, sides, draws
    <3>2. (Rising' <=> Rising) /\ (Falling' <=> Falling) /\ B' = B /\ H' = H
      BY <3>1 DEF Rising, Falling, Rises, Falls, B, H
    <3>3. TypeOK'
      BY <3>1 DEF IInv, TypeOK
    <3>7. stage' = stage
      BY <3>1
    <3>8. Drawing'
      BY <3>1, <3>2, <3>7 DEF IInv, Drawing
    <3>5. Called' <=> Called
      BY <3>1, <3>2 DEF Called, Enough
    <3>6. Deciding'
      BY <3>1, <3>5 DEF IInv, Deciding
    <3>4. SeparatedIsCalled'
      BY <3>1 DEF IInv, SeparatedIsCalled, Rises, Falls, SideAtFloor, AtFloor, FloorOf
    <3> QED
      BY <3>3, <3>4, <3>6, <3>8 DEF IInv
  <2> QED
    BY <2>1, <2>2, <2>3, <2>4, <2>5, <2>6, <2>7 DEF Next
<1> QED
  BY InitOK, <1>1, PTL DEF Spec

(* A verdict that rests on probabilities has every resample behind it      *)
(* (bootstrapChanges gives all of its changes or none).                    *)
THEOREM EvidenceHolds == Spec => []FullEvidence
<1>1. IInv => FullEvidence
  BY DEF IInv, Deciding, FullEvidence
<1> QED
  BY <1>1, ComparisonInvariant, PTL

(* A change that every pair of samples shows is called whatever the        *)
(* bootstrap draws, for any number of samples and of resamples.            *)
THEOREM SeparatedHolds == Spec => []SeparatedIsCalled
<1>1. IInv => SeparatedIsCalled
  BY DEF IInv
<1> QED
  BY <1>1, ComparisonInvariant, PTL

-----------------------------------------------------------------------------
(* What a run below its floor can change.  A side of an odd number of runs *)
(* is given by one of its values, so that it is either exact or at most    *)
(* its floor.                                                              *)

(* There is one k-th value.                                                *)
LEMMA KthUnique ==
  ASSUME NEW s \in Seq(Nat), NEW k \in Nat, NEW v \in Nat, NEW w \in Nat, Kth(s, k, v), Kth(s, k, w)
  PROVE  v = w
<1>1. ASSUME NEW a \in Nat, NEW c \in Nat, Kth(s, k, a), Kth(s, k, c), a < c PROVE FALSE
  <2>1. UpTo(s, a) \in SUBSET Below(s, c) /\ Below(s, c) \in SUBSET DOMAIN s
    <3>1. \A i \in DOMAIN s : s[i] \in Nat
      OBVIOUS
    <3>2. \A i \in DOMAIN s : s[i] <= a => s[i] < c
      BY <1>1, <3>1
    <3> QED
      BY <3>2 DEF UpTo, Below
  <2>2. /\ Cardinality(UpTo(s, a)) \in Nat /\ Cardinality(Below(s, c)) \in Nat
        /\ Cardinality(UpTo(s, a)) <= Cardinality(Below(s, c))
    BY <2>1, Counts
  <2>3. Cardinality(UpTo(s, a)) >= k /\ Cardinality(Below(s, c)) < k
    BY <1>1 DEF Kth
  <2> QED
    BY <2>2, <2>3
<1>2. v < w \/ w < v \/ v = w
  OBVIOUS
<1> QED
  BY <1>1, <1>2

(* Samples that were lowered only where they were at most f.               *)
Lowered(t, x, f) ==
  /\ Len(t) = Len(x)
  /\ \A i \in DOMAIN x : t[i] = x[i] \/ (t[i] <= x[i] /\ x[i] <= f)

(* ... keep what is above f in its place,                                  *)
LEMMA KeptAbove ==
  ASSUME NEW x \in Samples, NEW t \in Samples, NEW f \in Nat, Lowered(t, x, f),
         NEW k \in 1..Len(x), f < Sorted(x)[k]
  PROVE  Sorted(t)[k] = Sorted(x)[k]
<1> DEFINE m == Sorted(x)[k]
           w == Sorted(t)[k]
<1>1. m \in Nat /\ Kth(x, k, m) /\ \E i \in DOMAIN x : m = x[i]
  BY SortedIs
<1>2. w \in Nat /\ Kth(t, k, w) /\ k \in Nat
  <2>1. k \in 1..Len(t) /\ k \in Nat /\ Len(t) \in Nat
    BY SortedIs DEF Lowered
  <2> QED
    BY <2>1, SortedIs
<1>3. f < m
  OBVIOUS
<1> HIDE DEF m, w
<1>4. x \in Seq(Nat) /\ t \in Seq(Nat) /\ DOMAIN t = DOMAIN x
  BY DEF Samples, Lowered
<1>5. \A i \in DOMAIN x : x[i] \in Nat /\ t[i] \in Nat
  BY <1>4
<1>6. \A i \in DOMAIN x : (t[i] < m <=> x[i] < m) /\ (t[i] <= m <=> x[i] <= m) /\ (x[i] = m => t[i] = m)
  <2> SUFFICES ASSUME NEW i \in DOMAIN x
      PROVE (t[i] < m <=> x[i] < m) /\ (t[i] <= m <=> x[i] <= m) /\ (x[i] = m => t[i] = m)
    OBVIOUS
  <2> DEFINE a == x[i]
             c == t[i]
  <2>1. a \in Nat /\ c \in Nat /\ (c = a \/ (c <= a /\ a <= f))
    BY <1>5 DEF Lowered
  <2> HIDE DEF a, c
  <2>2. (c < m <=> a < m) /\ (c <= m <=> a <= m) /\ (a = m => c = m)
    BY <1>1, <1>3, <2>1
  <2> QED
    BY <2>2 DEF a, c
<1>7. Below(t, m) = Below(x, m) /\ UpTo(t, m) = UpTo(x, m)
  BY <1>4, <1>6 DEF Below, UpTo
<1>8. m \in Range(t)
  BY <1>1, <1>4, <1>6 DEF Range
<1>9. Kth(t, k, m)
  BY <1>1, <1>7, <1>8 DEF Kth
<1>10. w = m
  BY <1>1, <1>2, <1>4, <1>9, KthUnique
<1> QED
  BY <1>10 DEF m, w

(* ... and keep at most f what was at most f.                              *)
LEMMA KeptBelow ==
  ASSUME NEW x \in Samples, NEW t \in Samples, NEW f \in Nat, Lowered(t, x, f),
         NEW k \in 1..Len(x), Sorted(x)[k] <= f
  PROVE  Sorted(t)[k] <= f
<1> DEFINE m == Sorted(x)[k]
           w == Sorted(t)[k]
<1>1. m \in Nat /\ Kth(x, k, m) /\ m <= f
  BY SortedIs
<1>2. w \in Nat /\ Kth(t, k, w) /\ k \in Nat
  <2>1. k \in 1..Len(t) /\ k \in Nat /\ Len(t) \in Nat
    BY SortedIs DEF Lowered
  <2> QED
    BY <2>1, SortedIs
<1> HIDE DEF m, w
<1>3. x \in Seq(Nat) /\ t \in Seq(Nat) /\ DOMAIN t = DOMAIN x
  BY DEF Samples, Lowered
<1>4. \A i \in DOMAIN x : x[i] \in Nat /\ t[i] \in Nat
  BY <1>3
<1>5. SUFFICES ASSUME f < w PROVE FALSE
  BY <1>2 DEF w
<1>6. \A i \in DOMAIN x : x[i] <= m => t[i] < w
  <2> SUFFICES ASSUME NEW i \in DOMAIN x, x[i] <= m PROVE t[i] < w
    OBVIOUS
  <2> DEFINE a == x[i]
             c == t[i]
  <2>1. a \in Nat /\ c \in Nat /\ a <= m /\ (c = a \/ (c <= a /\ a <= f))
    BY <1>4 DEF Lowered
  <2> HIDE DEF a, c
  <2>2. c < w
    BY <1>1, <1>2, <1>5, <2>1
  <2> QED
    BY <2>2 DEF c
<1>7. UpTo(x, m) \in SUBSET Below(t, w) /\ Below(t, w) \in SUBSET DOMAIN t
  BY <1>3, <1>6 DEF UpTo, Below
<1>8. /\ Cardinality(UpTo(x, m)) \in Nat /\ Cardinality(Below(t, w)) \in Nat
      /\ Cardinality(UpTo(x, m)) <= Cardinality(Below(t, w))
  BY <1>3, <1>7, Counts
<1>9. Cardinality(UpTo(x, m)) >= k /\ Cardinality(Below(t, w)) < k
  BY <1>1, <1>2 DEF Kth
<1> QED
  BY <1>2, <1>8, <1>9

(* A side that was measured.                                               *)
Side(s) ==
  /\ s.samples \in Samples /\ s.floors \in Seq(Nat) /\ Len(s.floors) = Len(s.samples)

(* The real values differ from the recorded ones only up to the floor.     *)
LEMMA RealIs ==
  ASSUME NEW s, Side(s), NEW t \in Real(s)
  PROVE  t \in Samples /\ Lowered(t, s.samples, FloorOf(s))
<1> DEFINE x == s.samples
           top == Max(Range(x))
<1>1. x \in Samples /\ s.floors \in Seq(Nat) /\ Len(s.floors) = Len(x)
  BY DEF Side
<1>2. /\ x \in Seq(Nat) /\ DOMAIN x = 1..Len(x) /\ Len(x) \in Nat /\ Len(x) >= 1
      /\ \A i \in DOMAIN x : x[i] \in Nat
  BY <1>1, EmptySeq DEF Samples
<1>3. t \in [DOMAIN x -> 0..top]
      /\ \A i \in DOMAIN t : IF x[i] <= s.floors[i] THEN t[i] <= x[i] ELSE t[i] = x[i]
  BY DEF Real
<1> HIDE DEF x
<1>4. top \in Nat
  <2>1. PICK N \in Nat : \A i \in DOMAIN x : x[i] <= N
    BY <1>2, UpperBound
  <2> DEFINE T == Range(x)
  <2>2. T \in SUBSET (0..N) /\ T # {}
    <3>1. 1 \in DOMAIN x /\ \A i \in DOMAIN x : x[i] \in 0..N
      BY <1>2, <2>1
    <3> QED
      BY <3>1 DEF Range
  <2>3. top = CHOOSE m \in T : \A k \in T : m >= k
    BY DEF Max
  <2> HIDE DEF T, top
  <2>4. \E m \in T : \A k \in T : k <= m
    BY <2>1, <2>2, LargestNumber
  <2>5. \E m \in T : \A k \in T : m >= k
    BY <2>1, <2>2, <2>4
  <2>6. top \in 0..N
    BY <2>2, <2>3, <2>5
  <2> QED
    BY <2>1, <2>6
<1> HIDE DEF top
<1>5. \A i \in 1..Len(x) : t[i] \in Nat
  BY <1>2, <1>3, <1>4
<1>6. t \in [1..Len(x) -> Nat] /\ DOMAIN t = 1..Len(x)
  BY <1>2, <1>3, <1>5
<1>7. t \in Seq(Nat) /\ Len(t) = Len(x) /\ t # <<>>
  BY <1>2, <1>6
<1>8. FloorOf(s) \in Nat /\ \A i \in DOMAIN s.floors : s.floors[i] <= FloorOf(s)
  BY <1>1, FloorIs
<1>9. \A i \in DOMAIN x : t[i] = x[i] \/ (t[i] <= x[i] /\ x[i] <= FloorOf(s))
  <2> SUFFICES ASSUME NEW i \in DOMAIN x PROVE t[i] = x[i] \/ (t[i] <= x[i] /\ x[i] <= FloorOf(s))
    OBVIOUS
  <2>1. i \in DOMAIN s.floors /\ s.floors[i] \in Nat /\ i \in DOMAIN t
    BY <1>1, <1>2, <1>6
  <2>2. IF x[i] <= s.floors[i] THEN t[i] <= x[i] ELSE t[i] = x[i]
    BY <1>3, <2>1
  <2>3. s.floors[i] <= FloorOf(s) /\ x[i] \in Nat
    BY <1>2, <1>8, <2>1
  <2> DEFINE a == x[i]
             g == s.floors[i]
             f == FloorOf(s)
  <2>4. a \in Nat /\ g \in Nat /\ f \in Nat /\ g <= f /\ (IF a <= g THEN t[i] <= a ELSE t[i] = a)
    BY <1>8, <2>1, <2>2, <2>3
  <2> HIDE DEF a, g, f
  <2>5. t[i] = a \/ (t[i] <= a /\ a <= f)
    BY <2>4
  <2> QED
    BY <2>5 DEF a, f
<1> QED
  BY <1>7, <1>9 DEF Samples, Lowered, x

(* A value of the order is exact when it is not at the floor, and at most  *)
(* the floor otherwise.                                                    *)
LEMMA RealKth ==
  ASSUME NEW s, Side(s), NEW t \in Real(s), NEW k \in 1..Len(s.samples)
  PROVE  LET m == Sorted(s.samples)[k] IN
         /\ m \in Nat /\ Sorted(t)[k] \in Nat /\ FloorOf(s) \in Nat
         /\ IF AtFloor(s, Whole(m)) THEN m <= FloorOf(s) /\ Sorted(t)[k] <= FloorOf(s)
            ELSE Sorted(t)[k] = m
<1> DEFINE x == s.samples
           m == Sorted(x)[k]
           w == Sorted(t)[k]
           f == FloorOf(s)
<1>1. x \in Samples /\ t \in Samples /\ Lowered(t, x, f) /\ f \in Nat /\ k \in 1..Len(x)
  BY RealIs, FloorIs DEF Side
<1>2. m \in Nat /\ w \in Nat
  BY <1>1, SortedIs DEF Lowered
<1>3. AtFloor(s, Whole(m)) <=> f > 0 /\ ~(f < m)
  <2>1. AtFloor(s, Whole(m)) <=> f > 0 /\ ~(f * 1 < m * 1)
    BY DEF AtFloor, Less, Whole
  <2>2. f * 1 = f /\ m * 1 = m
    BY <1>1, <1>2
  <2> QED
    BY <2>1, <2>2
<1> HIDE DEF x, f
<1>4. f < m => w = m
  BY <1>1, KeptAbove
<1>5. m <= f => w <= f
  BY <1>1, KeptBelow
<1>6. f = 0 => w = m
  <2> SUFFICES ASSUME f = 0 PROVE w = m
    OBVIOUS
  <2>1. x \in Seq(Nat) /\ t \in Seq(Nat) /\ Len(t) = Len(x)
    BY <1>1 DEF Samples, Lowered
  <2>2. \A i \in 1..Len(x) : t[i] = x[i]
    <3> SUFFICES ASSUME NEW i \in 1..Len(x) PROVE t[i] = x[i]
      OBVIOUS
    <3>1. x[i] \in Nat /\ t[i] \in Nat
      BY <2>1
    <3>2. t[i] = x[i] \/ (t[i] <= x[i] /\ x[i] <= f)
      <4>1. i \in DOMAIN x
        BY <2>1
      <4> QED
        BY <1>1, <4>1 DEF Lowered
    <3> QED
      BY <3>1, <3>2
  <2>3. t = x
    BY <2>1, <2>2
  <2> QED
    BY <2>3
<1> HIDE DEF m, w
<1>7. IF f > 0 /\ ~(f < m) THEN m <= f /\ w <= f ELSE w = m
  BY <1>1, <1>2, <1>4, <1>5, <1>6
<1> QED
  BY <1>1, <1>2, <1>3, <1>7 DEF m, w, x, f

(* The median of an odd number of samples is one of them.                  *)
LEMMA MiddleIs ==
  ASSUME NEW x \in Samples, Len(x) % 2 = 1
  PROVE  /\ Len(x) \div 2 + 1 \in 1..Len(x)
         /\ MedianSorted(Sorted(x)) = Whole(Sorted(x)[Len(x) \div 2 + 1])
         /\ Statistic = "median" => Value(Summarize(x), Statistic) = MedianSorted(Sorted(x))
<1>1. Len(x) \in Nat /\ Len(x) >= 1 /\ Sorted(x) \in [1..Len(x) -> Nat]
  BY SortedIs
<1>2. Len(Sorted(x)) = Len(x)
  BY <1>1
<1>3. Len(x) \div 2 + 1 \in 1..Len(x)
  BY <1>1
<1>4. MedianSorted(Sorted(x)) = Whole(Sorted(x)[Len(x) \div 2 + 1])
  BY <1>2 DEF MedianSorted
<1>5. Statistic = "median" => Value(Summarize(x), Statistic) = MedianSorted(Sorted(x))
  BY DEF Summarize, Value, Samples
<1> QED
  BY <1>3, <1>4, <1>5

(* What is compared of such a side: the recorded, the real and the raised. *)
Recorded(s) == Value(Summarize(s.samples), Statistic)

(* They are numbers; the real one is the recorded one, or at most the      *)
(* floor, and then the raised one is at least the floor (raiseToFloor).    *)
LEMMA SideIs ==
  ASSUME Statistic = "median", NEW s, Side(s), Odd(s)
  PROVE  /\ \E m \in Nat : Recorded(s) = Whole(m)
         /\ \A v \in RealValues(s) : \E m \in Nat :
              v = Whole(m) /\ IF SideAtFloor(s) THEN m <= FloorOf(s) ELSE v = Recorded(s)
         /\ \E m \in Nat :
              /\ Value(Summarize(RaiseToFloor(s)), Statistic) = Whole(m)
              /\ IF SideAtFloor(s) THEN FloorOf(s) <= m ELSE Whole(m) = Recorded(s)
<1> DEFINE x == s.samples
           k == Len(x) \div 2 + 1
           m == Sorted(x)[k]
           f == FloorOf(s)
<1>1. x \in Samples /\ Len(x) % 2 = 1 /\ f \in Nat /\ s.floors \in Seq(Nat)
  BY FloorIs DEF Side, Odd
<1>2. k \in 1..Len(x) /\ Recorded(s) = Whole(m) /\ m \in Nat
  <2>1. k \in 1..Len(x) /\ Recorded(s) = Whole(m)
    BY <1>1, MiddleIs DEF Recorded
  <2> QED
    BY <1>1, <2>1, SortedIs
<1>3. SideAtFloor(s) <=> AtFloor(s, Whole(m))
  BY <1>2 DEF SideAtFloor, Recorded
<1>4. ASSUME NEW v \in RealValues(s)
      PROVE  \E n \in Nat : v = Whole(n) /\ IF SideAtFloor(s) THEN n <= f ELSE v = Recorded(s)
  <2>1. PICK t \in Real(s) : v = Value(Summarize(t), Statistic)
    BY DEF RealValues
  <2>2. t \in Samples /\ Len(t) = Len(x)
    BY RealIs DEF Lowered
  <2>3. v = Whole(Sorted(t)[k])
    BY <1>1, <2>1, <2>2, MiddleIs
  <2>4. /\ Sorted(t)[k] \in Nat
        /\ IF AtFloor(s, Whole(m)) THEN Sorted(t)[k] <= f ELSE Sorted(t)[k] = m
    BY <1>2, RealKth
  <2> QED
    BY <1>2, <1>3, <2>3, <2>4
<1>5. \E n \in Nat : /\ Value(Summarize(RaiseToFloor(s)), Statistic) = Whole(n)
                     /\ IF SideAtFloor(s) THEN f <= n ELSE Whole(n) = Recorded(s)
  <2>1. CASE SideAtFloor(s)
    <3> DEFINE r == RaiseToFloor(s)
    <3>1. r = [i \in DOMAIN x |-> Max({x[i], f})]
      BY <2>1 DEF RaiseToFloor
    <3>2. r \in Samples
      BY <1>1, RaisedIs DEF Measured, Samples
    <3>3. DOMAIN x = 1..Len(x) /\ Len(x) \in Nat /\ \A i \in DOMAIN x : x[i] \in Nat
      BY <1>1 DEF Samples
    <3>4. \A i \in DOMAIN x : f <= r[i]
      <4> SUFFICES ASSUME NEW i \in DOMAIN x PROVE f <= Max({x[i], f})
        BY <3>1
      <4> DEFINE a == x[i]
      <4>1. a \in Nat /\ f \in Nat
        BY <1>1, <3>3
      <4> HIDE DEF a, f
      <4>2. \E n \in {a, f} : \A j \in {a, f} : n >= j
        BY <4>1
      <4>3. Max({a, f}) >= f /\ Max({a, f}) \in {a, f}
        BY <4>2 DEF Max
      <4> QED
        BY <4>1, <4>3 DEF a
    <3>5. Len(r) = Len(x)
      BY <3>1, <3>3
    <3> HIDE DEF r
    <3> DEFINE n == Sorted(r)[k]
    <3>6. Value(Summarize(r), Statistic) = Whole(n)
      BY <1>1, <3>2, <3>5, MiddleIs
    <3>7. n \in Nat /\ \E i \in DOMAIN r : n = r[i]
      BY <1>2, <3>2, <3>5, SortedIs
    <3>8. DOMAIN r = DOMAIN x
      BY <3>1 DEF r
    <3>9. f <= n
      BY <3>4, <3>7, <3>8
    <3> QED
      BY <2>1, <3>6, <3>7, <3>9 DEF r
  <2>2. CASE ~SideAtFloor(s)
    BY <1>2, <2>2 DEF RaiseToFloor, Recorded
  <2> QED
    BY <2>1, <2>2
<1> QED
  BY <1>2, <1>4, <1>5 DEF f

-----------------------------------------------------------------------------
(* What a verdict and the budget's status rest on.                         *)
Grounded ==
  /\ IF stage = "budget" THEN budget = "none"
     ELSE budget = IF Measured(head) THEN MeasuredBudget(head, Aggregate(head.samples, opt.agg))
                   ELSE "skipped"
  /\ (stage \in {"bootstrap", "settle"} \/ verdict \in {"regression", "improved", "pass"})
     => /\ Measured(base) /\ Measured(head)
        /\ against = RaiseToFloor(base) /\ of = RaiseToFloor(head)
  /\ verdict = "regression" => Rises(Value(B, Statistic), Value(H, Statistic))
  /\ verdict = "improved" => Falls(Value(B, Statistic), Value(H, Statistic))
  /\ stage = "done" =>
       /\ verdict \in {"regression", "pass"} => ~SideAtFloor(head)
       /\ verdict \in {"improved", "pass"} => ~SideAtFloor(base)

(* No verdict and no status at first.                                      *)
LEMMA GroundedInit == Init => Grounded
BY DEF Init, Grounded

(* Every step keeps what verdicts and the status rest on.                  *)
LEMMA GroundedStep == IInv /\ Grounded /\ [Next]_vars => Grounded'
<1> SUFFICES ASSUME IInv, Grounded, [Next]_vars PROVE Grounded'
  OBVIOUS
<1>1. CASE CheckBudget
  <2>1. /\ stage = "budget" /\ stage' = "compare" /\ opt' = opt /\ base' = base /\ head' = head
        /\ against' = against /\ of' = of /\ verdict' = verdict
        /\ budget' = IF Measured(head) THEN MeasuredBudget(head, Aggregate(head.samples, opt.agg)) ELSE "skipped"
    BY <1>1 DEF CheckBudget, sides, draws
  <2>2. verdict = "none"
    BY <2>1 DEF IInv, Deciding
  <2> QED
    BY <2>1, <2>2 DEF Grounded, MeasuredBudget, AtFloor, FloorOf, Measured
<1>2. CASE Skip
  <2>1. /\ stage = "compare" /\ stage' = "done" /\ opt' = opt /\ base' = base /\ head' = head /\ budget' = budget
        /\ verdict' = "skipped"
    BY <1>2 DEF Skip, Decide, sides
  <2> QED
    BY <2>1 DEF Grounded, MeasuredBudget, AtFloor, FloorOf, Measured
<1>3. CASE Prepare
  <2>1. /\ stage = "compare" /\ stage' \in {"bootstrap", "settle"} /\ opt' = opt /\ base' = base /\ head' = head
        /\ budget' = budget /\ Measured(base) /\ Measured(head)
        /\ against' = RaiseToFloor(base) /\ of' = RaiseToFloor(head)
        /\ verdict' \in {verdict, "inconclusive"}
    BY <1>3 DEF Prepare, Decide, sides
  <2>2. verdict = "none"
    BY <2>1 DEF IInv, Deciding
  <2>3. RaiseToFloor(base') = RaiseToFloor(base) /\ RaiseToFloor(head') = RaiseToFloor(head)
    BY <2>1
  <2> QED
    BY <2>1, <2>2, <2>3 DEF Grounded, MeasuredBudget, AtFloor, FloorOf, Measured
<1>4. CASE Draw
  <2>1. /\ stage = "bootstrap" /\ stage' = stage /\ opt' = opt /\ base' = base /\ head' = head
        /\ against' = against /\ of' = of /\ verdict' = verdict /\ budget' = budget
    BY <1>4 DEF Draw, sides
  <2> QED
    BY <2>1 DEF Grounded, MeasuredBudget, AtFloor, FloorOf, Measured, RaiseToFloor, SideAtFloor, Rises, Falls, B, H
<1>5. CASE Classify
  <2>1. /\ stage = "bootstrap" /\ stage' = "settle" /\ opt' = opt /\ base' = base /\ head' = head
        /\ against' = against /\ of' = of /\ budget' = budget
    BY <1>5 DEF Classify, sides
  <2>2. /\ verdict' = "regression" => Rises(Value(B, Statistic), Value(H, Statistic))
        /\ verdict' = "improved" => Falls(Value(B, Statistic), Value(H, Statistic))
    BY <1>5 DEF Classify, Decide, B, H
  <2> QED
    BY <2>1, <2>2 DEF Grounded, MeasuredBudget, AtFloor, FloorOf, Measured, RaiseToFloor, SideAtFloor, Rises, Falls, B, H
<1>6. CASE Settle
  <2>1. /\ stage = "settle" /\ stage' = "done" /\ opt' = opt /\ base' = base /\ head' = head
        /\ against' = against /\ of' = of /\ budget' = budget
    BY <1>6 DEF Settle, sides
  <2>2. \/ verdict' = "inconclusive"
        \/ /\ verdict' = verdict
           /\ \/ ~SideAtFloor(base) /\ ~SideAtFloor(head)
              \/ verdict = "regression" /\ ~SideAtFloor(head)
              \/ verdict = "improved" /\ ~SideAtFloor(base)
    BY <1>6 DEF Settle, Decide
  <2> QED
    BY <2>1, <2>2 DEF Grounded, MeasuredBudget, AtFloor, FloorOf, Measured, RaiseToFloor, SideAtFloor, Rises, Falls, B, H
<1>7. CASE UNCHANGED vars
  <2>1. /\ stage' = stage /\ opt' = opt /\ base' = base /\ head' = head /\ against' = against /\ of' = of
        /\ verdict' = verdict /\ budget' = budget
    BY <1>7 DEF vars, sides, draws
  <2> QED
    BY <2>1 DEF Grounded, MeasuredBudget, AtFloor, FloorOf, Measured, RaiseToFloor, SideAtFloor, Rises, Falls, B, H
<1> QED
  BY <1>1, <1>2, <1>3, <1>4, <1>5, <1>6, <1>7 DEF Next

-----------------------------------------------------------------------------
(* What holds below the floor.                                             *)

(* A lower base and a higher head are a rise all the more.                 *)
LEMMA RisesMore ==
  ASSUME opt.max \in Nat, NEW b \in Nat, NEW h \in Nat, NEW b1 \in Nat, NEW h1 \in Nat,
         b1 <= b, h <= h1, Rises(Whole(b), Whole(h))
  PROVE  Rises(Whole(b1), Whole(h1))
<1> DEFINE m == opt.max
<1>1. m \in Nat /\ (100 + m) * b < 100 * h
  BY DEF Rises, Whole
<1>2. Rises(Whole(b1), Whole(h1)) <=> (100 + m) * b1 < 100 * h1
  <2>1. Rises(Whole(b1), Whole(h1)) <=> (100 + m) * b1 * 1 < 100 * h1 * 1
    BY DEF Rises, Whole
  <2> HIDE DEF m
  <2>2. (100 + m) * b1 \in Int /\ 100 * h1 \in Int
    BY <1>1
  <2> QED
    BY <2>1, <2>2
<1> HIDE DEF m
<1>3. b1 * (100 + m) <= b * (100 + m)
  BY <1>1, Times
<1>4. b1 * (100 + m) = (100 + m) * b1 /\ b * (100 + m) = (100 + m) * b
  BY <1>1
<1> DEFINE p == (100 + m) * b1
           q == (100 + m) * b
<1>5. p \in Int /\ q \in Int /\ p <= q /\ q < 100 * h
  BY <1>1, <1>3, <1>4
<1> HIDE DEF p, q
<1>6. p < 100 * h1
  BY <1>5
<1> QED
  BY <1>2, <1>6 DEF p

(* A lower head is a fall all the more.                                    *)
LEMMA FallsMore ==
  ASSUME opt.max \in Nat, NEW b \in Nat, NEW h \in Nat, NEW h1 \in Nat,
         h1 <= h, Falls(Whole(b), Whole(h))
  PROVE  Falls(Whole(b), Whole(h1))
<1> DEFINE n == 100 - opt.max
<1>1. n \in Int
  OBVIOUS
<1>2. \A y \in Nat : Falls(Whole(b), Whole(y)) <=> 100 * y * 1 < n * b * 1
  BY DEF Falls, Whole
<1> HIDE DEF n
<1> DEFINE p == n * b
<1>3. p \in Int /\ n * b * 1 = p
  BY <1>1
<1> HIDE DEF p
<1>4. 100 * h < p
  BY <1>2, <1>3
<1>5. 100 * h1 * 1 < p
  BY <1>3, <1>4
<1> QED
  BY <1>2, <1>3, <1>5

(* What is on one of the sides.                                            *)
LEMMA SidesAre ==
  ASSUME TypeOK
  PROVE  /\ Measured(base) => Side(base) /\ (OddSides => Odd(base))
         /\ Measured(head) => Side(head) /\ (OddSides => Odd(head))
<1>1. base \in Sides /\ head \in Sides
  BY DEF TypeOK
<1>2. \A s \in Sides : s.samples \in Seq(Nat) /\ s.floors \in Seq(Nat) /\ Len(s.floors) = Len(s.samples)
  BY ComparisonAssumption
<1> QED
  BY <1>1, <1>2 DEF OddSides, Side, Samples, Measured

(* A verdict that claims a change, or none, is true of the real values.    *)
LEMMA TrueBelowFloor ==
  ASSUME TypeOK, Grounded, OddSides, Statistic = "median"
  PROVE  HoldsBelowFloor
<1> DEFINE bv == Value(B, Statistic)
           hv == Value(H, Statistic)
<1>1. opt.max \in Nat
  BY OptionIs
<1>2. SUFFICES ASSUME stage = "done", verdict \in {"regression", "improved", "pass"},
                      NEW b \in RealValues(base), NEW h \in RealValues(head)
               PROVE  /\ verdict = "regression" => Rises(b, h)
                      /\ verdict = "improved" => Falls(b, h)
                      /\ verdict = "pass" /\ ~Rises(bv, hv) => ~Rises(b, h)
  BY DEF HoldsBelowFloor, CalledChangesHold, B, H
<1>3. /\ Measured(base) /\ Measured(head)
      /\ bv = Value(Summarize(RaiseToFloor(base)), Statistic)
      /\ hv = Value(Summarize(RaiseToFloor(head)), Statistic)
      /\ verdict = "regression" => Rises(bv, hv)
      /\ verdict = "improved" => Falls(bv, hv)
      /\ verdict \in {"regression", "pass"} => ~SideAtFloor(head)
      /\ verdict \in {"improved", "pass"} => ~SideAtFloor(base)
  BY <1>2 DEF Grounded, B, H
<1>4. Side(base) /\ Odd(base) /\ Side(head) /\ Odd(head)
  BY <1>3, SidesAre
<1> HIDE DEF bv, hv
<1>5. PICK m \in Nat, n \in Nat :
        /\ b = Whole(m) /\ bv = Whole(n)
        /\ IF SideAtFloor(base) THEN m <= FloorOf(base) /\ FloorOf(base) <= n ELSE b = bv
  BY <1>3, <1>4, SideIs
<1>6. PICK k \in Nat, l \in Nat :
        /\ h = Whole(k) /\ hv = Whole(l)
        /\ IF SideAtFloor(head) THEN k <= FloorOf(head) /\ FloorOf(head) <= l ELSE h = hv
  BY <1>3, <1>4, SideIs
<1>7. FloorOf(base) \in Nat /\ FloorOf(head) \in Nat
  BY <1>4, FloorIs DEF Side
<1>8. verdict = "regression" => Rises(b, h)
  <2> SUFFICES ASSUME verdict = "regression" PROVE Rises(b, h)
    OBVIOUS
  <2>1. Rises(bv, hv) /\ h = hv
    BY <1>3, <1>6
  <2>2. b = bv \/ m <= n
    BY <1>5, <1>7
  <2>3. CASE m <= n
    BY <1>1, <1>5, <1>6, <2>1, <2>3, RisesMore
  <2> QED
    BY <2>1, <2>2, <2>3
<1>9. verdict = "improved" => Falls(b, h)
  <2> SUFFICES ASSUME verdict = "improved" PROVE Falls(b, h)
    OBVIOUS
  <2>1. Falls(bv, hv) /\ b = bv
    BY <1>3, <1>5
  <2>2. h = hv \/ k <= l
    BY <1>6, <1>7
  <2>3. CASE k <= l
    BY <1>1, <1>5, <1>6, <2>1, <2>3, FallsMore
  <2> QED
    BY <2>1, <2>2, <2>3
<1>10. verdict = "pass" => b = bv /\ h = hv
  BY <1>3, <1>5, <1>6
<1> QED
  BY <1>8, <1>9, <1>10

(* With the median of an odd number of runs a regression, an improvement   *)
(* and a pass are true of whatever the values below the floor really were  *)
(* (what compareMetric and raiseToFloor are for).                          *)
THEOREM HoldsForOddRuns == OddSides /\ Statistic = "median" => (Spec => []HoldsBelowFloor)
<1> SUFFICES ASSUME OddSides, Statistic = "median" PROVE Spec => []HoldsBelowFloor
  OBVIOUS
<1>1. IInv /\ Grounded => HoldsBelowFloor
  BY TrueBelowFloor DEF IInv
<1>2. Init /\ IInv => Grounded
  BY GroundedInit
<1>3. IInv /\ Grounded /\ [Next]_vars => Grounded'
  BY GroundedStep
<1> QED
  BY <1>1, <1>2, <1>3, ComparisonInvariant, PTL DEF Spec

(* The value a budget is on is one of the order.                           *)
LEMMA AggregateIs ==
  ASSUME NEW agg \in {"min", "max", "median"}, NEW x \in Samples,
         agg = "median" => Len(x) % 2 = 1
  PROVE  \E k \in 1..Len(x) : \A t \in Samples :
           Len(t) = Len(x) => Aggregate(t, agg) = Whole(Sorted(t)[k])
<1> DEFINE k == IF agg = "min" THEN 1 ELSE IF agg = "max" THEN Len(x) ELSE Len(x) \div 2 + 1
<1>1. Len(x) \in Nat /\ Len(x) >= 1
  BY SortedIs
<1>2. k \in 1..Len(x)
  BY <1>1
<1>3. ASSUME NEW t \in Samples, Len(t) = Len(x) PROVE Aggregate(t, agg) = Whole(Sorted(t)[k])
  <2>1. Last(Sorted(t)) = Sorted(t)[Len(x)]
    <3>1. Len(Sorted(t)) = Len(x)
      BY <1>3, SortedIs
    <3> QED
      BY <3>1 DEF Last
  <2>3. CASE agg = "min"
    BY <2>3 DEF Aggregate
  <2>4. CASE agg = "max"
    BY <2>1, <2>4 DEF Aggregate
  <2>5. CASE agg = "median"
    <3>1. MedianSorted(Sorted(t)) = Whole(Sorted(t)[Len(x) \div 2 + 1])
      BY <1>3, <2>5, MiddleIs
    <3> QED
      BY <2>5, <3>1 DEF Aggregate
  <2> QED
    BY <2>3, <2>4, <2>5
<1> QED
  BY <1>2, <1>3

(* Whether the status is known by a value above the floor or by the floor. *)
LEMMA TrueBudget ==
  ASSUME TypeOK, Grounded, OneRunBudgets
  PROVE  BudgetHolds
<1> DEFINE x == head.samples
           f == FloorOf(head)
           limit == opt.limit
<1>1. SUFFICES ASSUME stage = "done", budget \in {"pass", "fail"}, NEW t \in Real(head)
               PROVE  Holds(opt.op, Aggregate(t, opt.agg), limit) <=> budget = "pass"
  BY DEF BudgetHolds
<1>2. Measured(head) /\ budget = MeasuredBudget(head, Aggregate(x, opt.agg))
  BY <1>1 DEF Grounded
<1>3. Side(head) /\ (OddSides => Odd(head))
  BY <1>2, SidesAre
<1>4. t \in Samples /\ x \in Samples /\ Len(t) = Len(x)
  BY <1>3, RealIs DEF Lowered, Side
<1>5. opt.agg \in {"min", "max", "median"} /\ (opt.agg = "median" => Len(x) % 2 = 1)
  BY <1>3 DEF TypeOK, OneRunBudgets, Odd
<1>6. PICK k \in 1..Len(x) : /\ Aggregate(t, opt.agg) = Whole(Sorted(t)[k])
                             /\ Aggregate(x, opt.agg) = Whole(Sorted(x)[k])
  BY <1>4, <1>5, AggregateIs
<1> DEFINE m == Sorted(x)[k]
           w == Sorted(t)[k]
<1>7. /\ m \in Nat /\ w \in Nat /\ f \in Nat
      /\ IF AtFloor(head, Whole(m)) THEN m <= f /\ w <= f ELSE w = m
  BY <1>3, <1>6, RealKth
<1>8. limit \in Nat
  BY OptionIs
<1> HIDE DEF m, w, f, limit
<1>9. CASE ~AtFloor(head, Whole(m))
  <2>1. w = m
    BY <1>7, <1>9
  <2>2. budget = IF Holds(opt.op, Whole(m), limit) THEN "pass" ELSE "fail"
    BY <1>2, <1>6, <1>9 DEF MeasuredBudget, m, limit
  <2> QED
    BY <1>6, <2>1, <2>2 DEF m, w
<1>10. CASE AtFloor(head, Whole(m))
  <2>1. budget = "pass" /\ Upper(opt.op) /\ Holds(opt.op, Whole(f), limit)
    BY <1>1, <1>2, <1>6, <1>10 DEF MeasuredBudget, m, f, limit
  <2>2. \A a \in Nat, op \in {"<", "<="} : Holds(op, Whole(a), limit) <=> (a < limit \/ (op = "<=" /\ a = limit))
    <3> SUFFICES ASSUME NEW a \in Nat, NEW op \in {"<", "<="}
        PROVE  Holds(op, Whole(a), limit) <=> (a < limit \/ (op = "<=" /\ a = limit))
      OBVIOUS
    <3>1. CASE op = "<"
      BY <1>8, <3>1 DEF Holds, Less, Whole
    <3>2. CASE op = "<="
      BY <1>8, <3>2 DEF Holds, Less, Whole
    <3> QED
      BY <3>1, <3>2
  <2>3. w <= f
    BY <1>7, <1>10
  <2>4. Holds(opt.op, Whole(w), limit)
    BY <1>7, <1>8, <2>1, <2>2, <2>3 DEF Upper
  <2> QED
    BY <1>6, <2>1, <2>4 DEF w
<1> QED
  BY <1>9, <1>10

(* A budget on the least, the greatest or, of an odd number of runs, the   *)
(* middle value passes or fails as the real value would (evaluateBudget    *)
(* skips it otherwise).                                                    *)
THEOREM BudgetOfOneRun == OneRunBudgets => (Spec => []BudgetHolds)
<1> SUFFICES ASSUME OneRunBudgets PROVE Spec => []BudgetHolds
  OBVIOUS
<1>1. IInv /\ Grounded => BudgetHolds
  BY TrueBudget DEF IInv
<1>2. Init /\ IInv => Grounded
  BY GroundedInit
<1>3. IInv /\ Grounded /\ [Next]_vars => Grounded'
  BY GroundedStep
<1> QED
  BY <1>1, <1>2, <1>3, ComparisonInvariant, PTL DEF Spec

-----------------------------------------------------------------------------
(* The scan of a document.                                                 *)

Marks(s, kind) == IF kind = "begin" THEN s.begin ELSE s.end

(* Where the scan of a document finds a marker.                            *)
Reads(doc, name, i, kind) ==
  /\ i \in 1..Len(doc) /\ i \notin FrontMatter(doc) /\ doc[i].k # "fence"
  /\ Scanned(doc, name)[i - 1].fence = NoFence /\ IsMarker(doc[i], kind, name)

(* The fence that is open after a line.                                    *)
FenceAfter(fence, l) ==
  IF l.k # "fence" THEN fence
  ELSE IF fence = NoFence THEN l ELSE IF Closes(fence, l) THEN NoFence ELSE fence

ScanStates(D) ==
  [fence : D \cup {NoFence}, begin : Seq(Nat), end : Seq(Nat), parent : {0} \cup {l.level : l \in D}]

(* A line adds a marker to those that were found, or nothing.              *)
Adds(s, l, i, name, kind) ==
  Marks(ScanLine(s, l, i, name), kind) =
    IF l.k # "fence" /\ s.fence = NoFence /\ IsMarker(l, kind, name)
    THEN Append(Marks(s, kind), i) ELSE Marks(s, kind)

(* What a line of the scan does to its state.                              *)
LEMMA LineIs ==
  ASSUME NEW D, NEW s \in ScanStates(D), NEW l \in D, NEW i \in Nat, NEW name
  PROVE  /\ ScanLine(s, l, i, name) \in ScanStates(D)
         /\ ScanLine(s, l, i, name).fence = FenceAfter(s.fence, l)
         /\ \A kind \in {"begin", "end"} : Adds(s, l, i, name, kind)
         /\ s.begin # <<>> => ScanLine(s, l, i, name).parent = s.parent
<1> DEFINE t == ScanLine(s, l, i, name)
<1>0. /\ s.fence \in D \cup {NoFence} /\ s.begin \in Seq(Nat) /\ s.end \in Seq(Nat)
      /\ s.parent \in {0} \cup {x.level : x \in D}
      /\ s = [fence |-> s.fence, begin |-> s.begin, end |-> s.end, parent |-> s.parent]
  BY DEF ScanStates
<1>1. Append(s.begin, i) \in Seq(Nat) /\ Append(s.end, i) \in Seq(Nat)
  BY <1>0
<1>2. CASE l.k = "fence"
  <2>1. t = Fence(s, l)
    BY <1>2 DEF ScanLine
  <2>2. t \in ScanStates(D) /\ t.fence = FenceAfter(s.fence, l)
        /\ t.begin = s.begin /\ t.end = s.end /\ t.parent = s.parent
    BY <1>0, <1>2, <2>1 DEF Fence, FenceAfter, ScanStates
  <2> HIDE DEF t
  <2> QED
    BY <1>2, <2>2 DEF Marks, Adds, t
<1>3. CASE l.k # "fence" /\ s.fence # NoFence
  BY <1>3 DEF ScanLine, FenceAfter, Marks, Adds
<1>4. CASE l.k # "fence" /\ s.fence = NoFence /\ IsMarker(l, "begin", name)
  <2>1. t = [s EXCEPT !.begin = Append(@, i)]
    BY <1>4 DEF ScanLine
  <2>2. ~IsMarker(l, "end", name)
    BY <1>4 DEF IsMarker
  <2>3. t \in ScanStates(D) /\ t.fence = s.fence
        /\ t.begin = Append(s.begin, i) /\ t.end = s.end /\ t.parent = s.parent
    BY <1>0, <1>1, <2>1 DEF ScanStates
  <2> HIDE DEF t
  <2> QED
    BY <1>4, <2>2, <2>3 DEF Marks, FenceAfter, Adds, t
<1>5. CASE l.k # "fence" /\ s.fence = NoFence /\ ~IsMarker(l, "begin", name) /\ IsMarker(l, "end", name)
  <2>1. t = [s EXCEPT !.end = Append(@, i)]
    BY <1>5 DEF ScanLine
  <2>3. t \in ScanStates(D) /\ t.fence = s.fence
        /\ t.begin = s.begin /\ t.end = Append(s.end, i) /\ t.parent = s.parent
    BY <1>0, <1>1, <2>1 DEF ScanStates
  <2> HIDE DEF t
  <2> QED
    BY <1>5, <2>3 DEF Marks, FenceAfter, Adds, t
<1>6. CASE l.k # "fence" /\ s.fence = NoFence /\ ~IsMarker(l, "begin", name) /\ ~IsMarker(l, "end", name)
  <2>1. t = Level(s, l)
    BY <1>6 DEF ScanLine
  <2>2. t \in ScanStates(D) /\ t.fence = s.fence
        /\ t.begin = s.begin /\ t.end = s.end /\ (s.begin # <<>> => t.parent = s.parent)
    BY <1>0, <2>1 DEF ScanStates, Level
  <2> HIDE DEF t
  <2> QED
    BY <1>6, <2>2 DEF Marks, FenceAfter, Adds, t
<1> QED
  BY <1>2, <1>3, <1>4, <1>5, <1>6

(* The states of a scan, each from the one before.                         *)
LEMMA ScanIs ==
  ASSUME NEW D, NEW doc \in Seq(D), NEW name
  PROVE  /\ Scanned(doc, name)[0] = Unscanned
         /\ \A i \in 0..Len(doc) : Scanned(doc, name)[i] \in ScanStates(D)
         /\ \A i \in 1..Len(doc) :
              Scanned(doc, name)[i] =
                IF i \in FrontMatter(doc) THEN Scanned(doc, name)[i - 1]
                ELSE ScanLine(Scanned(doc, name)[i - 1], doc[i], i, name)
<1> DEFINE N == Len(doc)
           S == ScanStates(D)
           Next1(s, i) == IF i \in FrontMatter(doc) THEN s ELSE ScanLine(s, doc[i], i, name)
           step == [x \in S \X (1..N) |-> Next1(x[1], x[2])]
           Is(w) == w = [i \in 0..N |-> IF i = 0 THEN Unscanned ELSE Next1(w[i - 1], i)]
<1>0. N \in Nat /\ \A i \in 1..N : doc[i] \in D
  OBVIOUS
<1>1. ASSUME NEW s \in S, NEW i \in 1..N PROVE Next1(s, i) \in S
  <2>1. i \in Nat /\ doc[i] \in D
    BY <1>0
  <2> QED
    BY <1>1, <2>1, LineIs
<1>2. Unscanned \in S
  BY DEF Unscanned, ScanStates
<1> HIDE DEF N, S, Next1
<1>3. step \in Steps(S, N)
  BY <1>1 DEF Steps
<1>4. PICK f \in [0..N -> S] : f[0] = Unscanned /\ \A n \in 1..N : f[n] = step[<<f[n - 1], n>>]
  <2> DEFINE start == Unscanned
  <2>1. start \in S
    BY <1>2
  <2> HIDE DEF step, start
  <2>2. \E f \in [0..N -> S] : f[0] = start /\ \A n \in 1..N : f[n] = step[<<f[n - 1], n>>]
    BY <1>0, <1>3, <2>1, StepByStep
  <2> QED
    BY <2>2 DEF start
<1>5. \A i \in 1..N : f[i] = Next1(f[i - 1], i)
  <2> SUFFICES ASSUME NEW i \in 1..N PROVE f[i] = Next1(f[i - 1], i)
    OBVIOUS
  <2>1. i - 1 \in 0..N
    BY <1>0
  <2>2. f[i - 1] \in S
    BY <2>1
  <2>3. step[<<f[i - 1], i>>] = Next1(f[i - 1], i)
    BY <2>2
  <2> QED
    BY <1>4, <2>3
<1> HIDE DEF step
<1>6. Is(f)
  <2>1. ASSUME NEW i \in 0..N PROVE f[i] = IF i = 0 THEN Unscanned ELSE Next1(f[i - 1], i)
    BY <1>0, <1>4, <1>5
  <2> QED
    BY <2>1
<1> DEFINE w == CHOOSE g : Is(g)
<1>7. Is(w)
  <2> HIDE DEF Is
  <2> QED
    BY <1>6
<1>8. Scanned(doc, name) = w
  BY DEF Scanned, N, Next1
<1> HIDE DEF w
<1>9. w[0] = Unscanned /\ \A i \in 1..N : w[i] = Next1(w[i - 1], i)
  <2>1. 0 \in 0..N /\ \A i \in 1..N : i \in 0..N /\ i # 0
    BY <1>0
  <2>2. w[0] = Unscanned
    BY <1>7, <2>1
  <2>3. ASSUME NEW i \in 1..N PROVE w[i] = Next1(w[i - 1], i)
    BY <1>7, <2>1
  <2> QED
    BY <2>2, <2>3
<1> HIDE DEF Is
<1>10. \A i \in 0..N : w[i] \in S
  <2> DEFINE Good == {i \in 0..N : w[i] \in S}
  <2>1. 0 \in Good
    BY <1>0, <1>2, <1>9
  <2>2. ASSUME NEW i \in 1..N, i - 1 \in Good PROVE i \in Good
    BY <1>1, <1>9, <2>2
  <2> HIDE DEF Good
  <2>3. \A i \in 0..N : i \in Good
    BY <1>0, <2>1, <2>2, AllAlong
  <2> QED
    BY <2>3 DEF Good
<1> QED
  BY <1>8, <1>9, <1>10 DEF N, S, Next1

(* The only marker up to a line.                                           *)
OnlyOne(doc, name, i, kind, b) == \A j \in 1..i : Reads(doc, name, j, kind) <=> j = b

(* The markers the scan has found so far are those it reads: none, one, or *)
(* more.                                                                   *)
LEMMA MarksAre ==
  ASSUME NEW D, NEW doc \in Seq(D), NEW name, NEW kind \in {"begin", "end"}, NEW i \in 0..Len(doc)
  PROVE  /\ Marks(Scanned(doc, name)[i], kind) \in Seq(Nat)
         /\ Marks(Scanned(doc, name)[i], kind) = <<>> <=> \A j \in 1..i : ~Reads(doc, name, j, kind)
         /\ \A b \in 1..i : Marks(Scanned(doc, name)[i], kind) = <<b>> <=> OnlyOne(doc, name, i, kind, b)
         /\ Len(Marks(Scanned(doc, name)[i], kind)) = 1 =>
              \E b \in 1..i : Marks(Scanned(doc, name)[i], kind) = <<b>>
<1> DEFINE N == Len(doc)
           M(n) == Marks(Scanned(doc, name)[n], kind)
           R(j) == Reads(doc, name, j, kind)
           Good == {n \in 0..N :
                      /\ M(n) \in Seq(Nat)
                      /\ M(n) = <<>> <=> \A j \in 1..n : ~R(j)
                      /\ \A b \in 1..n : M(n) = <<b>> <=> \A j \in 1..n : R(j) <=> j = b
                      /\ Len(M(n)) = 1 => \E b \in 1..n : M(n) = <<b>>}
<1>0. N \in Nat
  OBVIOUS
<1>1. M(0) = <<>>
  BY ScanIs DEF Marks, Unscanned
<1>2. ASSUME NEW n \in 1..N PROVE M(n) = IF R(n) THEN Append(M(n - 1), n) ELSE M(n - 1)
  <2> DEFINE s == Scanned(doc, name)[n - 1]
  <2>1. s \in ScanStates(D) /\ doc[n] \in D /\ n \in Nat /\ n \in 1..Len(doc)
    <3>1. n - 1 \in 0..Len(doc)
      OBVIOUS
    <3> QED
      BY <3>1, ScanIs
  <2>2. Scanned(doc, name)[n] = IF n \in FrontMatter(doc) THEN s ELSE ScanLine(s, doc[n], n, name)
    BY <2>1, ScanIs
  <2>3. CASE n \in FrontMatter(doc)
    BY <2>2, <2>3 DEF Reads
  <2>4. CASE n \notin FrontMatter(doc)
    <3>1. Marks(ScanLine(s, doc[n], n, name), kind) =
            IF doc[n].k # "fence" /\ s.fence = NoFence /\ IsMarker(doc[n], kind, name)
            THEN Append(Marks(s, kind), n) ELSE Marks(s, kind)
      <4> DEFINE l == doc[n]
      <4>1. s \in ScanStates(D) /\ l \in D
        BY <2>1
      <4> HIDE DEF s, l
      <4>2. Adds(s, l, n, name, kind)
        BY <2>1, <4>1, LineIs
      <4> QED
        BY <4>2 DEF Adds, l
    <3>2. R(n) <=> doc[n].k # "fence" /\ s.fence = NoFence /\ IsMarker(doc[n], kind, name)
      BY <2>1, <2>4 DEF Reads
    <3> QED
      BY <2>2, <2>4, <3>1, <3>2
  <2> QED
    BY <2>3, <2>4
<1> HIDE DEF M, R, N
<1>3. 0 \in Good
  <2>1. M(0) \in Seq(Nat) /\ Len(M(0)) = 0 /\ 0 \in 0..N
    <3>1. <<>> \in Seq(Nat) /\ Len(<<>>) = 0
      OBVIOUS
    <3>2. M(0) \in Seq(Nat)
      BY <1>1, <3>1
    <3>3. Len(M(0)) = 0
      BY <1>1, <3>1
    <3> QED
      BY <1>0, <3>2, <3>3
  <2> QED
    BY <1>1, <2>1
<1>4. ASSUME NEW n \in 1..N, n - 1 \in Good PROVE n \in Good
  <2>0. n \in 0..N /\ n - 1 \in 0..N /\ n \in Nat
    BY <1>0
  <2>1. /\ M(n - 1) \in Seq(Nat)
        /\ M(n - 1) = <<>> <=> \A j \in 1..(n - 1) : ~R(j)
        /\ \A b \in 1..(n - 1) : M(n - 1) = <<b>> <=> \A j \in 1..(n - 1) : R(j) <=> j = b
        /\ Len(M(n - 1)) = 1 => \E b \in 1..(n - 1) : M(n - 1) = <<b>>
    BY <1>4
  <2>2. \A j : j \in 1..n <=> j \in 1..(n - 1) \/ j = n
    BY <2>0
  <2>3. CASE ~R(n)
    <3>1. M(n) = M(n - 1)
      BY <1>2, <2>3
    <3>2. ASSUME NEW b \in 1..n PROVE M(n) = <<b>> <=> \A j \in 1..n : R(j) <=> j = b
      <4>1. CASE b = n
        <5>1. M(n - 1) # <<n>>
          <6> SUFFICES ASSUME M(n - 1) = <<n>> PROVE FALSE
            OBVIOUS
          <6>1. Len(M(n - 1)) = 1 /\ M(n - 1)[1] = n
            OBVIOUS
          <6>2. PICK c \in 1..(n - 1) : M(n - 1) = <<c>>
            BY <2>1, <6>1
          <6>3. c = n
            BY <6>1, <6>2
          <6> QED
            BY <2>0, <6>3
        <5> QED
          BY <2>3, <3>1, <4>1, <5>1
      <4>2. CASE b \in 1..(n - 1)
        <5>1. b # n
          BY <2>0, <4>2
        <5> QED
          BY <2>1, <2>2, <2>3, <3>1, <4>2, <5>1
      <4> QED
        BY <2>2, <4>1, <4>2
    <3>3. M(n) = <<>> <=> \A j \in 1..n : ~R(j)
      BY <2>1, <2>2, <2>3, <3>1
    <3>4. Len(M(n)) = 1 => \E b \in 1..n : M(n) = <<b>>
      BY <2>1, <2>2, <3>1
    <3> QED
      BY <2>0, <2>1, <3>1, <3>2, <3>3, <3>4
  <2>4. CASE R(n)
    <3>1. M(n) = Append(M(n - 1), n)
      BY <1>2, <2>4
    <3>2. M(n) \in Seq(Nat) /\ Len(M(n)) = Len(M(n - 1)) + 1 /\ Len(M(n - 1)) \in Nat
      BY <2>0, <2>1, <3>1
    <3>3. M(n) # <<>>
      BY <3>2
    <3>4. CASE M(n - 1) = <<>>
      <4>1. M(n) = <<n>>
        <5>1. Append(<<>>, n) = <<n>>
          OBVIOUS
        <5> QED
          BY <3>1, <3>4, <5>1
      <4>2. \A j \in 1..n : R(j) <=> j = n
        BY <2>1, <2>2, <2>4, <3>4
      <4>3. \A b \in 1..n : <<n>> = <<b>> <=> b = n
        OBVIOUS
      <4>4. ASSUME NEW b \in 1..n PROVE M(n) = <<b>> <=> \A j \in 1..n : R(j) <=> j = b
        BY <4>1, <4>2, <4>3
      <4>5. n \in 1..n
        BY <2>0
      <4> QED
        BY <2>0, <2>4, <3>2, <3>3, <4>1, <4>4, <4>5
    <3>5. CASE M(n - 1) # <<>>
      <4>1. Len(M(n)) # 1
        BY <2>1, <3>2, <3>5
      <4>2. PICK j \in 1..(n - 1) : R(j)
        BY <2>1, <3>5
      <4>3. j \in 1..n /\ n \in 1..n /\ j # n
        BY <2>0, <4>2
      <4>4. ASSUME NEW b \in 1..n PROVE M(n) # <<b>> /\ ~(\A m \in 1..n : R(m) <=> m = b)
        <5>1. Len(<<b>>) = 1
          OBVIOUS
        <5> QED
          BY <2>4, <4>1, <4>2, <4>3, <5>1
      <4> QED
        BY <2>0, <2>4, <3>2, <3>3, <4>1, <4>3, <4>4
    <3> QED
      BY <3>4, <3>5
  <2> QED
    BY <2>3, <2>4
<1> HIDE DEF Good
<1>5. \A n \in 0..N : n \in Good
  BY <1>0, <1>3, <1>4, AllAlong
<1>6. i \in Good
  BY <1>5 DEF N
<1> QED
  BY <1>6 DEF Good, M, R, OnlyOne

(* The open fence after each line.                                         *)
LEMMA FenceIs ==
  ASSUME NEW D, NEW doc \in Seq(D), NEW name, NEW n \in 1..Len(doc)
  PROVE  Scanned(doc, name)[n].fence =
           IF n \in FrontMatter(doc) THEN Scanned(doc, name)[n - 1].fence
           ELSE FenceAfter(Scanned(doc, name)[n - 1].fence, doc[n])
<1> DEFINE s == Scanned(doc, name)[n - 1]
<1>1. n - 1 \in 0..Len(doc) /\ doc[n] \in D /\ n \in Nat
  OBVIOUS
<1>2. s \in ScanStates(D)
  BY <1>1, ScanIs
<1>3. Scanned(doc, name)[n] = IF n \in FrontMatter(doc) THEN s ELSE ScanLine(s, doc[n], n, name)
  BY ScanIs
<1> HIDE DEF s
<1>4. ScanLine(s, doc[n], n, name).fence = FenceAfter(s.fence, doc[n])
  BY <1>1, <1>2, LineIs
<1> QED
  BY <1>3, <1>4 DEF s

-----------------------------------------------------------------------------
(* A section put in the place of another.                                  *)

Splice(doc, b, e, w) == SubSeq(doc, 1, b) \o w \o SubSeq(doc, e, Len(doc))

(* The lines of a document with a gap filled.                              *)
Filled(D, doc, b, e, w, out) ==
  /\ out \in Seq(D) /\ Len(out) = b + Len(w) + (Len(doc) - e + 1)
  /\ \A i \in 1..b : out[i] = doc[i]
  /\ \A i \in 1..Len(w) : out[b + i] = w[i]
  /\ \A i \in 0..(Len(doc) - e) : out[b + Len(w) + 1 + i] = doc[e + i]

(* The filling lies between the two lines, and the rest is moved.          *)
LEMMA SpliceIs ==
  ASSUME NEW D, NEW doc \in Seq(D), NEW w \in Seq(D), NEW b \in 1..Len(doc), NEW e \in 1..Len(doc)
  PROVE  Filled(D, doc, b, e, w, Splice(doc, b, e, w))
<1> DEFINE N == Len(doc)
           p == SubSeq(doc, 1, b)
           q == SubSeq(doc, e, N)
           m == Len(w)
<1>1. N \in Nat /\ m \in Nat /\ b \in 1..N /\ e \in 1..N
  OBVIOUS
<1>2. p \in Seq(D) /\ Len(p) = b /\ \A i \in 1..b : p[i] = doc[i]
  OBVIOUS
<1>3. q \in Seq(D) /\ Len(q) = N - e + 1 /\ \A i \in 1..(N - e + 1) : q[i] = doc[e + i - 1]
  OBVIOUS
<1>4. Splice(doc, b, e, w) = (p \o w) \o q
  BY DEF Splice
<1> HIDE DEF p, q, N, m
<1> DEFINE pw == p \o w
<1>5. pw \in Seq(D) /\ Len(pw) = b + m
      /\ (\A i \in 1..b : pw[i] = doc[i]) /\ \A i \in 1..m : pw[b + i] = w[i]
  <2>1. pw \in Seq(D) /\ Len(pw) = b + m
    BY <1>1, <1>2 DEF m
  <2>2. \A i \in 1..(b + m) : pw[i] = IF i <= b THEN p[i] ELSE w[i - b]
    BY <1>1, <1>2 DEF m
  <2> HIDE DEF pw
  <2>3. ASSUME NEW i \in 1..b PROVE pw[i] = doc[i]
    BY <1>1, <1>2, <2>2
  <2>4. ASSUME NEW i \in 1..m PROVE pw[b + i] = w[i]
    <3>1. b + i \in 1..(b + m) /\ ~(b + i <= b) /\ (b + i) - b = i
      BY <1>1
    <3> QED
      BY <2>2, <3>1
  <2> QED
    BY <2>1, <2>3, <2>4
<1> HIDE DEF pw
<1> DEFINE out == pw \o q
           k == N - e + 1
<1>6. out \in Seq(D) /\ Len(out) = b + m + k
  <2>1. out \in Seq(D) /\ Len(out) = Len(pw) + Len(q)
    BY <1>3, <1>5, ConcatProperties
  <2> HIDE DEF out
  <2> QED
    BY <1>3, <1>5, <2>1
<1>7. \A i \in 1..(b + m + k) : out[i] = IF i <= b + m THEN pw[i] ELSE q[i - (b + m)]
  <2>1. \A i \in 1..(Len(pw) + Len(q)) : out[i] = IF i <= Len(pw) THEN pw[i] ELSE q[i - Len(pw)]
    BY <1>3, <1>5, ConcatProperties
  <2> HIDE DEF out
  <2> QED
    BY <1>3, <1>5, <2>1
<1>8. Splice(doc, b, e, w) = out
  BY <1>4 DEF pw
<1> HIDE DEF out
<1>9. ASSUME NEW i \in 1..b PROVE out[i] = doc[i]
  <2>1. i \in 1..(b + m + k) /\ i <= b + m
    BY <1>1
  <2> QED
    BY <1>5, <1>7, <2>1
<1>10. ASSUME NEW i \in 1..m PROVE out[b + i] = w[i]
  <2>1. b + i \in 1..(b + m + k) /\ b + i <= b + m
    BY <1>1
  <2> QED
    BY <1>5, <1>7, <2>1
<1>11. ASSUME NEW i \in 0..(N - e) PROVE out[b + m + 1 + i] = doc[e + i]
  <2>1. /\ b + m + 1 + i \in 1..(b + m + k) /\ ~(b + m + 1 + i <= b + m)
        /\ (b + m + 1 + i) - (b + m) = i + 1 /\ i + 1 \in 1..k /\ e + (i + 1) - 1 = e + i
    BY <1>1
  <2>2. out[b + m + 1 + i] = q[i + 1]
    BY <1>7, <2>1
  <2>3. q[i + 1] = doc[e + i]
    BY <1>3, <2>1
  <2> QED
    BY <2>2, <2>3
<1> QED
  BY <1>6, <1>8, <1>9, <1>10, <1>11 DEF N, m, Filled

(* The level of a section below a heading.                                 *)
LevelBelow(parent) == IF parent = 0 THEN 2 ELSE Min({parent + 1, 6})

(* The one marker of a kind.                                               *)
ReadsOnly(doc, name, kind, b) == b \in 1..Len(doc) /\ OnlyOne(doc, name, Len(doc), kind, b)

(* A section is replaced when its markers are there once and in order.     *)
LEMMA ReplaceIs ==
  ASSUME NEW D, NEW doc \in Seq(D), NEW name, NEW r
  PROVE  /\ ReplaceSection(doc, name, r) # <<>> =>
              \E b, e \in 1..Len(doc) : b < e /\ ReadsOnly(doc, name, "begin", b) /\ ReadsOnly(doc, name, "end", e)
         /\ \A b, e \in 1..Len(doc) :
              b < e /\ ReadsOnly(doc, name, "begin", b) /\ ReadsOnly(doc, name, "end", e) =>
                ReplaceSection(doc, name, r) =
                  Splice(doc, b, e, WholeSection(LevelBelow(Scan(doc, name).parent), r))
<1> DEFINE N == Len(doc)
           s == Scan(doc, name)
<1>1. N \in Nat /\ N \in 0..N
  OBVIOUS
<1>2. /\ s.begin \in Seq(Nat) /\ s.end \in Seq(Nat)
      /\ \A b \in 1..N : s.begin = <<b>> <=> ReadsOnly(doc, name, "begin", b)
      /\ \A b \in 1..N : s.end = <<b>> <=> ReadsOnly(doc, name, "end", b)
      /\ Len(s.begin) = 1 => \E b \in 1..N : s.begin = <<b>>
      /\ Len(s.end) = 1 => \E b \in 1..N : s.end = <<b>>
  <2>1. Marks(s, "begin") = s.begin /\ Marks(s, "end") = s.end
    BY DEF Marks
  <2>2. s = Scanned(doc, name)[N]
    BY DEF Scan
  <2>3. ASSUME NEW kind \in {"begin", "end"}
        PROVE  /\ Marks(s, kind) \in Seq(Nat)
               /\ \A b \in 1..N : Marks(s, kind) = <<b>> <=> OnlyOne(doc, name, N, kind, b)
               /\ Len(Marks(s, kind)) = 1 => \E b \in 1..N : Marks(s, kind) = <<b>>
    <3>1. N \in 0..Len(doc)
      BY <1>1
    <3>2. Marks(Scanned(doc, name)[N], kind) \in Seq(Nat)
      BY <3>1, MarksAre
    <3>3. \A b \in 1..N : Marks(Scanned(doc, name)[N], kind) = <<b>> <=> OnlyOne(doc, name, N, kind, b)
      BY <3>1, MarksAre
    <3>4. Len(Marks(Scanned(doc, name)[N], kind)) = 1 => \E b \in 1..N : Marks(Scanned(doc, name)[N], kind) = <<b>>
      BY <3>1, MarksAre
    <3> HIDE DEF s
    <3> QED
      BY <2>2, <3>2, <3>3, <3>4
  <2> HIDE DEF s
  <2>4. \A b \in 1..N : s.begin = <<b>> <=> ReadsOnly(doc, name, "begin", b)
    BY <2>1, <2>3 DEF ReadsOnly, N
  <2>5. \A b \in 1..N : s.end = <<b>> <=> ReadsOnly(doc, name, "end", b)
    BY <2>1, <2>3 DEF ReadsOnly, N
  <2> QED
    BY <2>1, <2>3, <2>4, <2>5
<1>3. ReplaceSection(doc, name, r) =
        IF Len(s.begin) # 1 \/ Len(s.end) # 1 THEN <<>>
        ELSE IF s.end[1] < s.begin[1] THEN <<>>
        ELSE Splice(doc, s.begin[1], s.end[1], WholeSection(LevelBelow(s.parent), r))
  BY DEF ReplaceSection, Splice, LevelBelow
<1> HIDE DEF s, N
<1>4. ASSUME ReplaceSection(doc, name, r) # <<>>
      PROVE  \E b, e \in 1..N : b < e /\ ReadsOnly(doc, name, "begin", b) /\ ReadsOnly(doc, name, "end", e)
  <2>1. Len(s.begin) = 1 /\ Len(s.end) = 1 /\ ~(s.end[1] < s.begin[1])
    BY <1>3, <1>4
  <2>2. PICK b \in 1..N : s.begin = <<b>>
    BY <1>2, <2>1
  <2>3. PICK e \in 1..N : s.end = <<e>>
    BY <1>2, <2>1
  <2>4. s.begin[1] = b /\ s.end[1] = e
    BY <2>2, <2>3
  <2>5. ReadsOnly(doc, name, "begin", b) /\ ReadsOnly(doc, name, "end", e)
    BY <1>2, <2>2, <2>3
  <2>6. b # e
    <3>1. Reads(doc, name, b, "begin") /\ Reads(doc, name, e, "end")
      BY <2>5 DEF ReadsOnly, OnlyOne
    <3> QED
      BY <3>1 DEF Reads, IsMarker
  <2> QED
    BY <1>1, <2>1, <2>4, <2>5, <2>6
<1>5. ASSUME NEW b \in 1..N, NEW e \in 1..N, b < e,
             ReadsOnly(doc, name, "begin", b), ReadsOnly(doc, name, "end", e)
      PROVE  ReplaceSection(doc, name, r) = Splice(doc, b, e, WholeSection(LevelBelow(s.parent), r))
  <2>1. s.begin = <<b>> /\ s.end = <<e>>
    BY <1>2, <1>5
  <2>2. Len(s.begin) = 1 /\ Len(s.end) = 1 /\ s.begin[1] = b /\ s.end[1] = e /\ ~(e < b)
    BY <1>1, <1>5, <2>1
  <2> QED
    BY <1>3, <2>2
<1> QED
  BY <1>4, <1>5 DEF s, N

(* Which lines are in a fence does not depend on the section.              *)
LEMMA SameFence ==
  ASSUME NEW D, NEW doc \in Seq(D), NEW name, NEW other, NEW i \in 0..Len(doc)
  PROVE  Scanned(doc, name)[i].fence = Scanned(doc, other)[i].fence
<1> DEFINE N == Len(doc)
           F(t, n) == Scanned(doc, t)[n].fence
           Good == {n \in 0..N : F(name, n) = F(other, n)}
<1>1. N \in Nat
  OBVIOUS
<1>2. ASSUME NEW t PROVE F(t, 0) = NoFence
  BY ScanIs DEF Unscanned
<1>3. ASSUME NEW t, NEW n \in 1..N
      PROVE  F(t, n) = IF n \in FrontMatter(doc) THEN F(t, n - 1) ELSE FenceAfter(F(t, n - 1), doc[n])
  BY FenceIs
<1> HIDE DEF F, N
<1>4. 0 \in Good
  BY <1>1, <1>2
<1>5. ASSUME NEW n \in 1..N, n - 1 \in Good PROVE n \in Good
  BY <1>1, <1>3, <1>5
<1> HIDE DEF Good
<1>6. \A n \in 0..N : n \in Good
  BY <1>1, <1>4, <1>5, AllAlong
<1> QED
  BY <1>6 DEF Good, F, N

(* Two lines of a document that are not in a fence, with what is to go     *)
(* between them.                                                           *)
Gap(doc, b, e) ==
  /\ b \in 1..Len(doc) /\ e \in 1..Len(doc) /\ b < e /\ b \notin FrontMatter(doc)
  /\ \A name : Scanned(doc, name)[b].fence = NoFence /\ Scanned(doc, name)[e - 1].fence = NoFence

Plain(w) == \A i \in DOMAIN w : w[i].k \in {"text", "heading", "results"}

(* The markers of a section have a gap between them.                       *)
LEMMA GapIs ==
  ASSUME NEW D, NEW doc \in Seq(D), NEW name, NEW b \in 1..Len(doc), NEW e \in 1..Len(doc), b < e,
         Reads(doc, name, b, "begin"), Reads(doc, name, e, "end")
  PROVE  Gap(doc, b, e)
<1>1. b - 1 \in 0..Len(doc) /\ e - 1 \in 0..Len(doc) /\ b \in 0..Len(doc)
  OBVIOUS
<1>2. /\ b \notin FrontMatter(doc) /\ doc[b].k # "fence"
      /\ Scanned(doc, name)[b - 1].fence = NoFence /\ Scanned(doc, name)[e - 1].fence = NoFence
  BY DEF Reads
<1>3. Scanned(doc, name)[b].fence = NoFence
  BY <1>2, FenceIs DEF FenceAfter
<1>4. ASSUME NEW other
      PROVE  Scanned(doc, other)[b].fence = NoFence /\ Scanned(doc, other)[e - 1].fence = NoFence
  <2>1. Scanned(doc, name)[b].fence = Scanned(doc, other)[b].fence
    BY <1>1, SameFence
  <2>2. Scanned(doc, name)[e - 1].fence = Scanned(doc, other)[e - 1].fence
    <3> DEFINE j == e - 1
    <3>1. j \in 0..Len(doc)
      BY <1>1
    <3> HIDE DEF j
    <3>2. Scanned(doc, name)[j].fence = Scanned(doc, other)[j].fence
      BY <3>1, SameFence
    <3> QED
      BY <3>2 DEF j
  <2> QED
    BY <1>2, <1>3, <2>1, <2>2
<1> QED
  BY <1>2, <1>4 DEF Gap

(* The first line that ends a front matter.                                *)
LEMMA FrontIs ==
  ASSUME NEW D, NEW doc \in Seq(D), NEW i \in 1..Len(doc)
  PROVE  i \in FrontMatter(doc) <=>
           /\ doc[1].k = "front"
           /\ \E m \in 2..Len(doc) : /\ i <= m /\ doc[m] = doc[1]
                                     /\ \A n \in 2..(m - 1) : doc[n] # doc[1]
<1> DEFINE ends == {n \in 2..Len(doc) : doc[n] = doc[1]}
<1>1. doc # <<>> /\ Len(doc) \in Nat
  OBVIOUS
<1>2. FrontMatter(doc) = IF doc[1].k = "front" /\ ends # {} THEN 1..Min(ends) ELSE {}
  BY <1>1 DEF FrontMatter
<1>3. ASSUME ends # {} PROVE Min(ends) \in ends /\ \A n \in ends : Min(ends) <= n
  <2>1. ends \in SUBSET Nat
    OBVIOUS
  <2> HIDE DEF ends
  <2>2. \E m \in ends : \A k \in ends : m <= k
    BY <1>3, <2>1, SmallestNumber
  <2> QED
    BY <2>2 DEF Min
<1>4. ASSUME i \in FrontMatter(doc)
      PROVE  /\ doc[1].k = "front"
             /\ \E m \in 2..Len(doc) : i <= m /\ doc[m] = doc[1] /\ \A n \in 2..(m - 1) : doc[n] # doc[1]
  <2>1. doc[1].k = "front" /\ ends # {} /\ i \in 1..Min(ends)
    BY <1>2, <1>4
  <2> DEFINE m == Min(ends)
  <2>2. m \in ends /\ \A n \in ends : m <= n
    BY <1>3, <2>1
  <2>3. i \in 1..m
    BY <2>1
  <2> HIDE DEF m
  <2>4. m \in 2..Len(doc) /\ doc[m] = doc[1] /\ i <= m
    BY <2>2, <2>3
  <2>5. ASSUME NEW n \in 2..(m - 1) PROVE doc[n] # doc[1]
    <3>1. n \in 2..Len(doc) /\ ~(m <= n)
      BY <2>4
    <3> QED
      BY <2>2, <3>1
  <2> QED
    BY <2>1, <2>4, <2>5
<1>6. ASSUME doc[1].k = "front", NEW m \in 2..Len(doc), i <= m, doc[m] = doc[1],
             \A n \in 2..(m - 1) : doc[n] # doc[1]
      PROVE  i \in FrontMatter(doc)
  <2>1. m \in ends
    BY <1>6
  <2> DEFINE x == Min(ends)
  <2>2. x \in ends
    BY <1>3, <2>1
  <2>3. FrontMatter(doc) = 1..x
    BY <1>2, <1>6, <2>1
  <2> HIDE DEF x
  <2>4. x \in 2..Len(doc) /\ doc[x] = doc[1]
    BY <2>2
  <2>5. m <= x
    BY <1>6, <2>4
  <2> QED
    BY <1>6, <2>3, <2>4, <2>5
<1> QED
  BY <1>4, <1>6

(* The front matter is that of before.                                     *)
LEMMA SameFront ==
  ASSUME NEW D, NEW doc \in Seq(D), NEW w \in Seq(D), Plain(w), NEW b, NEW e, Gap(doc, b, e),
         NEW i \in 1..Len(Splice(doc, b, e, w))
  PROVE  i \in FrontMatter(Splice(doc, b, e, w)) <=> i <= b /\ i \in FrontMatter(doc)
<1> DEFINE out == Splice(doc, b, e, w)
           N == Len(doc)
           m == Len(w)
<1>1. b \in 1..N /\ e \in 1..N /\ b < e /\ b \notin FrontMatter(doc) /\ N \in Nat /\ m \in Nat
  BY DEF Gap
<1>2. out \in Seq(D) /\ Len(out) = b + m + (N - e + 1) /\ (\A j \in 1..b : out[j] = doc[j])
      /\ (\A j \in 1..m : out[b + j] = w[j]) /\ (\A j \in 0..(N - e) : out[b + m + 1 + j] = doc[e + j])
  <2>1. Filled(D, doc, b, e, w, out)
    BY <1>1, SpliceIs
  <2> HIDE DEF out
  <2> QED
    BY <2>1 DEF Filled
<1>3. \A j \in 1..m : w[j].k # "front"
  BY DEF Plain
<1> HIDE DEF out, m, N
<1>4. out[1] = doc[1] /\ Len(out) \in Nat
  BY <1>1, <1>2
<1>5. ASSUME i \in FrontMatter(out) PROVE i <= b /\ i \in FrontMatter(doc)
  <2>1. PICK p \in 2..Len(out) : /\ i <= p /\ out[p] = out[1] /\ \A n \in 2..(p - 1) : out[n] # out[1]
    BY <1>2, <1>5, FrontIs DEF out
  <2>2. out[1].k = "front"
    BY <1>2, <1>5, FrontIs DEF out
  <2>3. CASE p <= b
    <3>1. p \in 2..N /\ p \in 1..b
      BY <1>1, <2>1, <2>3
    <3>2. doc[p] = doc[1] /\ \A n \in 2..(p - 1) : doc[n] # doc[1]
      BY <1>1, <1>2, <1>4, <2>1, <3>1
    <3>3. i \in 1..N /\ i <= b
      BY <1>1, <1>2, <2>1, <2>3 DEF out
    <3> QED
      BY <1>4, <2>1, <2>2, <3>1, <3>2, <3>3, FrontIs DEF N
  <2>4. CASE p > b /\ p <= b + m
    <3>1. p - b \in 1..m /\ b + (p - b) = p
      BY <1>1, <2>1, <2>4
    <3>2. out[p] = w[p - b]
      BY <1>2, <3>1
    <3> QED
      BY <1>3, <2>1, <2>2, <3>1, <3>2
  <2>5. CASE p > b + m
    <3> DEFINE q == p - (b + m + 1)
    <3>1. q \in 0..(N - e) /\ b + m + 1 + q = p /\ e + q \in 2..N
      BY <1>1, <1>2, <2>1, <2>5
    <3> HIDE DEF q
    <3>2. doc[e + q] = doc[1]
      BY <1>2, <1>4, <2>1, <3>1
    <3> DEFINE T == {n \in 2..N : doc[n] = doc[1]}
    <3>3. T \in SUBSET Nat /\ T # {}
      BY <3>1, <3>2
    <3>4. PICK x \in T : \A k \in T : x <= k
      <4> HIDE DEF T
      <4> QED
        BY <3>3, SmallestNumber
    <3>5. x \in 2..N /\ doc[x] = doc[1] /\ \A n \in 2..(x - 1) : doc[n] # doc[1]
      <4>1. ASSUME NEW n \in 2..(x - 1), doc[n] = doc[1] PROVE FALSE
        <5>1. n \in 2..N /\ ~(x <= n) /\ n \in T
          BY <4>1, <1>1
        <5> QED
          BY <3>4, <5>1
      <4> QED
        BY <4>1
    <3>6. ~(b <= x)
      BY <1>1, <1>4, <2>2, <3>5, FrontIs DEF N
    <3>7. x \in 2..(p - 1) /\ x \in 1..b
      BY <1>1, <1>2, <2>1, <2>5, <3>5, <3>6
    <3>8. out[x] = out[1]
      BY <1>2, <1>4, <3>5, <3>7
    <3> QED
      BY <2>1, <3>7, <3>8
  <2> QED
    BY <1>1, <1>2, <2>1, <2>3, <2>4, <2>5
<1>6. ASSUME i <= b, i \in FrontMatter(doc) PROVE i \in FrontMatter(out)
  <2>0. i \in 1..N /\ i \in 1..Len(out)
    BY <1>1, <1>2, <1>6 DEF out
  <2>1. PICK p \in 2..N : i <= p /\ doc[p] = doc[1] /\ \A n \in 2..(p - 1) : doc[n] # doc[1]
    BY <1>6, <2>0, FrontIs DEF N
  <2>2. doc[1].k = "front"
    BY <1>6, <2>0, FrontIs DEF N
  <2>3. ~(b <= p)
    BY <1>1, <2>1, <2>2, FrontIs DEF N
  <2>4. p \in 2..Len(out) /\ p \in 1..b /\ \A n \in 2..(p - 1) : n \in 1..b
    BY <1>1, <1>2, <2>1, <2>3
  <2>5. out[p] = out[1] /\ \A n \in 2..(p - 1) : out[n] # out[1]
    BY <1>2, <1>4, <2>1, <2>4
  <2> QED
    BY <1>2, <1>4, <2>0, <2>1, <2>2, <2>4, <2>5, FrontIs
<1> QED
  BY <1>5, <1>6 DEF out

(* A line after one that is not front matter is none either.               *)
LEMMA AfterFront ==
  ASSUME NEW D, NEW doc \in Seq(D), NEW b \in 1..Len(doc), b \notin FrontMatter(doc), NEW i \in 1..Len(doc), b < i
  PROVE  i \notin FrontMatter(doc)
<1> SUFFICES ASSUME i \in FrontMatter(doc) PROVE FALSE
  OBVIOUS
<1>1. PICK m \in 2..Len(doc) : i <= m /\ doc[m] = doc[1] /\ \A n \in 2..(m - 1) : doc[n] # doc[1]
  BY FrontIs
<1>2. doc[1].k = "front" /\ b <= m
  BY <1>1, FrontIs
<1> QED
  BY <1>1, <1>2, FrontIs

(* Before the gap nothing changes for the scan.                            *)
LEMMA StartSame ==
  ASSUME NEW D, NEW doc \in Seq(D), NEW w \in Seq(D), Plain(w), NEW b, NEW e, Gap(doc, b, e),
         NEW name, NEW i \in 0..b
  PROVE  Scanned(Splice(doc, b, e, w), name)[i] = Scanned(doc, name)[i]
<1> DEFINE out == Splice(doc, b, e, w)
           A(n) == Scanned(doc, name)[n]
           O(n) == Scanned(out, name)[n]
           Good == {n \in 0..b : O(n) = A(n)}
<1>1. b \in 1..Len(doc) /\ e \in 1..Len(doc) /\ Len(doc) \in Nat /\ b \in Nat /\ Len(w) \in Nat
  BY DEF Gap
<1>2. Filled(D, doc, b, e, w, out)
  BY <1>1, SpliceIs
<1>3. out \in Seq(D) /\ (\A n \in 1..b : out[n] = doc[n] /\ n \in 1..Len(out) /\ n \in 1..Len(doc))
  <2> HIDE DEF out
  <2> QED
    BY <1>1, <1>2 DEF Filled
<1>4. ASSUME NEW n \in 1..b PROVE n \in FrontMatter(out) <=> n \in FrontMatter(doc)
  <2>1. n \in 1..Len(Splice(doc, b, e, w)) /\ n <= b
    BY <1>1, <1>3
  <2> QED
    BY <2>1, SameFront
<1> HIDE DEF out
<1>5. ASSUME NEW n \in 1..b
      PROVE  /\ O(n) = IF n \in FrontMatter(doc) THEN O(n - 1) ELSE ScanLine(O(n - 1), doc[n], n, name)
             /\ A(n) = IF n \in FrontMatter(doc) THEN A(n - 1) ELSE ScanLine(A(n - 1), doc[n], n, name)
  <2>1. n \in 1..Len(out) /\ n \in 1..Len(doc) /\ out[n] = doc[n]
    BY <1>3
  <2>2. Scanned(out, name)[n] =
          IF n \in FrontMatter(out) THEN Scanned(out, name)[n - 1]
          ELSE ScanLine(Scanned(out, name)[n - 1], out[n], n, name)
    BY <1>3, <2>1, ScanIs
  <2>3. Scanned(doc, name)[n] =
          IF n \in FrontMatter(doc) THEN Scanned(doc, name)[n - 1]
          ELSE ScanLine(Scanned(doc, name)[n - 1], doc[n], n, name)
    BY <2>1, ScanIs
  <2> QED
    BY <1>4, <2>1, <2>2, <2>3
<1>6. O(0) = A(0)
  BY <1>3, ScanIs
<1> HIDE DEF O, A
<1>7. 0 \in Good
  BY <1>1, <1>6
<1>8. ASSUME NEW n \in 1..b, n - 1 \in Good PROVE n \in Good
  BY <1>1, <1>5, <1>8
<1> HIDE DEF Good
<1>9. \A n \in 0..b : n \in Good
  BY <1>1, <1>7, <1>8, AllAlong
<1> QED
  BY <1>9 DEF Good, O, A, out

(* In it no fence is opened.                                               *)
LEMMA GapFence ==
  ASSUME NEW D, NEW doc \in Seq(D), NEW w \in Seq(D), Plain(w), NEW b, NEW e, Gap(doc, b, e),
         NEW name, NEW i \in 0..Len(w)
  PROVE  Scanned(Splice(doc, b, e, w), name)[b + i].fence = NoFence
<1> DEFINE out == Splice(doc, b, e, w)
           O(n) == Scanned(out, name)[b + n].fence
           Good == {n \in 0..Len(w) : O(n) = NoFence}
<1>1. b \in 1..Len(doc) /\ e \in 1..Len(doc) /\ Len(doc) \in Nat /\ b \in Nat /\ Len(w) \in Nat
  BY DEF Gap
<1>2. Filled(D, doc, b, e, w, out)
  BY <1>1, SpliceIs
<1>3. out \in Seq(D) /\ (\A n \in 1..Len(w) : out[b + n] = w[n] /\ b + n \in 1..Len(out))
  <2> HIDE DEF out
  <2> QED
    BY <1>1, <1>2 DEF Filled
<1>4. O(0) = NoFence
  <2>1. b \in 0..b /\ b + 0 = b
    BY <1>1
  <2>2. Scanned(out, name)[b] = Scanned(doc, name)[b]
    BY <2>1, StartSame
  <2> QED
    BY <2>1, <2>2 DEF Gap
<1> HIDE DEF out
<1>5. ASSUME NEW n \in 1..Len(w), O(n - 1) = NoFence PROVE O(n) = NoFence
  <2>1. b + n \in 1..Len(out) /\ out[b + n] = w[n] /\ (b + n) - 1 = b + (n - 1)
    BY <1>1, <1>3
  <2>2. w[n].k # "fence"
    BY DEF Plain
  <2>3. Scanned(out, name)[b + n].fence =
          IF b + n \in FrontMatter(out) THEN Scanned(out, name)[(b + n) - 1].fence
          ELSE FenceAfter(Scanned(out, name)[(b + n) - 1].fence, out[b + n])
    <3> DEFINE j == b + n
    <3>1. j \in 1..Len(out)
      BY <2>1
    <3> HIDE DEF j
    <3>2. Scanned(out, name)[j].fence =
          IF j \in FrontMatter(out) THEN Scanned(out, name)[j - 1].fence
          ELSE FenceAfter(Scanned(out, name)[j - 1].fence, out[j])
      BY <1>3, <3>1, FenceIs
    <3> QED
      BY <3>2 DEF j
  <2> QED
    BY <1>5, <2>1, <2>2, <2>3 DEF FenceAfter
<1> HIDE DEF O
<1>6. 0 \in Good
  BY <1>1, <1>4
<1>7. ASSUME NEW n \in 1..Len(w), n - 1 \in Good PROVE n \in Good
  BY <1>1, <1>5, <1>7
<1> HIDE DEF Good
<1>8. \A n \in 0..Len(w) : n \in Good
  BY <1>1, <1>6, <1>7, AllAlong
<1> QED
  BY <1>8 DEF Good, O, out

(* After it the same lines are in a fence as before.                       *)
LEMMA RestFence ==
  ASSUME NEW D, NEW doc \in Seq(D), NEW w \in Seq(D), Plain(w), NEW b, NEW e, Gap(doc, b, e),
         NEW name, NEW i \in 0..(Len(doc) - e + 1)
  PROVE  Scanned(Splice(doc, b, e, w), name)[b + Len(w) + i].fence = Scanned(doc, name)[e - 1 + i].fence
<1> DEFINE out == Splice(doc, b, e, w)
           m == Len(w)
           R == Len(doc) - e + 1
           O(n) == Scanned(out, name)[b + m + n].fence
           A(n) == Scanned(doc, name)[e - 1 + n].fence
           Good == {n \in 0..R : O(n) = A(n)}
<1>1. /\ b \in 1..Len(doc) /\ e \in 1..Len(doc) /\ Len(doc) \in Nat /\ b \in Nat /\ m \in Nat /\ R \in Nat
      /\ b < e /\ b \notin FrontMatter(doc)
  BY DEF Gap
<1>2. Filled(D, doc, b, e, w, out)
  BY <1>1, SpliceIs
<1>3. out \in Seq(D) /\ Len(out) = b + m + R /\ (\A n \in 0..(R - 1) : out[b + m + 1 + n] = doc[e + n])
  <2> HIDE DEF out
  <2>1. out \in Seq(D) /\ Len(out) = b + m + (Len(doc) - e + 1)
    BY <1>2 DEF Filled
  <2>2. \A n \in 0..(Len(doc) - e) : out[b + m + 1 + n] = doc[e + n]
    BY <1>2 DEF Filled
  <2>3. Len(doc) - e + 1 = R /\ Len(doc) - e = R - 1
    BY <1>1
  <2> HIDE DEF R, m
  <2>4. Len(out) = b + m + R
    BY <2>1, <2>3
  <2>5. \A n \in 0..(R - 1) : out[b + m + 1 + n] = doc[e + n]
    BY <2>2, <2>3
  <2>6. out \in Seq(D)
    BY <2>1
  <2> QED
    BY <2>4, <2>5, <2>6, Zenon
<1>4. O(0) = A(0)
  <2>1. m \in 0..Len(w) /\ b + m + 0 = b + m /\ e - 1 + 0 = e - 1
    BY <1>1
  <2>2. Scanned(out, name)[b + m].fence = NoFence
    BY <2>1, GapFence
  <2>3. Scanned(doc, name)[e - 1].fence = NoFence
    BY DEF Gap
  <2> QED
    BY <2>1, <2>2, <2>3
<1>5. ASSUME NEW n \in 1..R, O(n - 1) = A(n - 1) PROVE O(n) = A(n)
  <2> DEFINE j == b + m + n
             k == e - 1 + n
  <2>1. /\ j \in 1..Len(out) /\ k \in 1..Len(doc) /\ j - 1 = b + m + (n - 1) /\ k - 1 = e - 1 + (n - 1)
        /\ ~(j <= b) /\ b < k
    BY <1>1, <1>3
  <2>2. out[j] = doc[k]
    <3>1. n - 1 \in 0..(R - 1) /\ b + m + 1 + (n - 1) = j /\ e + (n - 1) = k
      BY <1>1
    <3> HIDE DEF j, k, out
    <3> QED
      BY <1>3, <3>1
  <2>3. j \notin FrontMatter(out)
    <3> HIDE DEF j
    <3>1. j \in 1..Len(Splice(doc, b, e, w)) /\ ~(j <= b)
      BY <2>1
    <3> QED
      BY <3>1, SameFront
  <2>4. k \notin FrontMatter(doc)
    <3> HIDE DEF k
    <3> QED
      BY <1>1, <2>1, AfterFront
  <2> HIDE DEF j, k, out
  <2>5. Scanned(out, name)[j].fence = FenceAfter(Scanned(out, name)[j - 1].fence, out[j])
    BY <1>3, <2>1, <2>3, FenceIs
  <2>6. Scanned(doc, name)[k].fence = FenceAfter(Scanned(doc, name)[k - 1].fence, doc[k])
    BY <2>1, <2>4, FenceIs
  <2>7. Scanned(out, name)[j - 1].fence = Scanned(doc, name)[k - 1].fence
    BY <1>5, <2>1
  <2> QED
    BY <2>2, <2>5, <2>6, <2>7 DEF j, k
<1> HIDE DEF O, A, R
<1>6. 0 \in Good
  BY <1>1, <1>4
<1>7. ASSUME NEW n \in 1..R, n - 1 \in Good PROVE n \in Good
  BY <1>1, <1>5, <1>7
<1> HIDE DEF Good
<1>8. \A n \in 0..R : n \in Good
  BY <1>1, <1>6, <1>7, AllAlong
<1> QED
  BY <1>8 DEF Good, O, A, R, m, out

(* So the markers are where they were, and none is in the gap.             *)
KeepsMarkers(doc, b, e, m, name, kind, out) ==
  /\ \A i \in 1..b : Reads(out, name, i, kind) <=> Reads(doc, name, i, kind)
  /\ \A i \in 1..m : ~Reads(out, name, b + i, kind)
  /\ \A i \in 0..(Len(doc) - e) : Reads(out, name, b + m + 1 + i, kind) <=> Reads(doc, name, e + i, kind)

(* The markers of a section are read where they were, moved.               *)
LEMMA ReadsSpliced ==
  ASSUME NEW D, NEW doc \in Seq(D), NEW w \in Seq(D), Plain(w), NEW b, NEW e, Gap(doc, b, e),
         NEW name, NEW kind \in {"begin", "end"}
  PROVE  KeepsMarkers(doc, b, e, Len(w), name, kind, Splice(doc, b, e, w))
<1> DEFINE out == Splice(doc, b, e, w)
           m == Len(w)
           R == Len(doc) - e + 1
<1>1. /\ b \in 1..Len(doc) /\ e \in 1..Len(doc) /\ Len(doc) \in Nat /\ b \in Nat /\ m \in Nat /\ R \in Nat
      /\ b < e /\ b \notin FrontMatter(doc) /\ Len(doc) - e = R - 1
  BY DEF Gap
<1>2. Filled(D, doc, b, e, w, out)
  BY <1>1, SpliceIs
<1>3. /\ out \in Seq(D) /\ Len(out) = b + m + R
      /\ \A n \in 1..b : out[n] = doc[n]
      /\ \A n \in 1..m : out[b + n] = w[n]
      /\ \A n \in 0..(R - 1) : out[b + m + 1 + n] = doc[e + n]
  <2> HIDE DEF out
  <2>1. out \in Seq(D) /\ Len(out) = b + m + (Len(doc) - e + 1)
    BY <1>2 DEF Filled
  <2>2. \A n \in 1..b : out[n] = doc[n]
    BY <1>2 DEF Filled
  <2>3. \A n \in 1..m : out[b + n] = w[n]
    BY <1>2 DEF Filled
  <2>4. \A n \in 0..(Len(doc) - e) : out[b + m + 1 + n] = doc[e + n]
    BY <1>2 DEF Filled
  <2>5. Len(doc) - e + 1 = R /\ Len(doc) - e = R - 1
    BY <1>1
  <2> HIDE DEF R, m
  <2>6. Len(out) = b + m + R
    BY <2>1, <2>5
  <2>7. \A n \in 0..(R - 1) : out[b + m + 1 + n] = doc[e + n]
    BY <2>4, <2>5
  <2>8. out \in Seq(D)
    BY <2>1
  <2> QED
    BY <2>2, <2>3, <2>6, <2>7, <2>8, Zenon
<1>4. ASSUME NEW i \in 1..b PROVE Reads(out, name, i, kind) <=> Reads(doc, name, i, kind)
  <2>1. i \in 1..Len(out) /\ i \in 1..Len(doc) /\ i - 1 \in 0..b /\ i <= b /\ out[i] = doc[i]
    BY <1>1, <1>3
  <2>2. i \in FrontMatter(out) <=> i \in FrontMatter(doc)
    BY <2>1, SameFront
  <2>3. Scanned(out, name)[i - 1] = Scanned(doc, name)[i - 1]
    <3> DEFINE j == i - 1
    <3>1. j \in 0..b
      BY <2>1
    <3> HIDE DEF j
    <3>2. Scanned(out, name)[j] = Scanned(doc, name)[j]
      BY <3>1, StartSame
    <3> QED
      BY <3>2 DEF j
  <2> HIDE DEF out
  <2> QED
    BY <2>1, <2>2, <2>3 DEF Reads
<1>5. ASSUME NEW i \in 1..m PROVE ~Reads(out, name, b + i, kind)
  <2>1. w[i].k \notin {"begin", "end"} /\ out[b + i] = w[i]
    BY <1>3 DEF Plain
  <2> HIDE DEF out
  <2> QED
    BY <2>1 DEF Reads, IsMarker
<1>6. ASSUME NEW i \in 0..(R - 1) PROVE Reads(out, name, b + m + 1 + i, kind) <=> Reads(doc, name, e + i, kind)
  <2> DEFINE j == b + m + 1 + i
             k == e + i
  <2>1. /\ j \in 1..Len(out) /\ k \in 1..Len(doc) /\ j - 1 = b + m + i /\ k - 1 = e - 1 + i
        /\ ~(j <= b) /\ b < k /\ i \in 0..(Len(doc) - e + 1)
    BY <1>1, <1>3
  <2>2. out[j] = doc[k]
    BY <1>3
  <2>3. j \notin FrontMatter(out)
    <3> HIDE DEF j
    <3>1. j \in 1..Len(Splice(doc, b, e, w)) /\ ~(j <= b)
      BY <2>1
    <3> QED
      BY <3>1, SameFront
  <2>4. k \notin FrontMatter(doc)
    <3> HIDE DEF k
    <3> QED
      BY <1>1, <2>1, AfterFront
  <2>5. Scanned(out, name)[b + m + i].fence = Scanned(doc, name)[e - 1 + i].fence
    BY <2>1, RestFence
  <2> HIDE DEF j, k, out
  <2>6. Scanned(out, name)[j - 1].fence = Scanned(doc, name)[k - 1].fence
    BY <2>1, <2>5
  <2>7. Reads(out, name, j, kind) <=> Reads(doc, name, k, kind)
    BY <2>1, <2>2, <2>3, <2>4, <2>6 DEF Reads
  <2> QED
    BY <2>7 DEF j, k
<1>7. Len(doc) - e = R - 1
  BY <1>1
<1> HIDE DEF out, m, R
<1>8. KeepsMarkers(doc, b, e, m, name, kind, out)
  BY <1>4, <1>5, <1>6, <1>7 DEF KeepsMarkers
<1> QED
  BY <1>8 DEF out, m

(* After the begin marker no heading counts.                               *)
LEMMA ParentStays ==
  ASSUME NEW D, NEW doc \in Seq(D), NEW name, NEW b \in 1..Len(doc),
         \A j \in 1..Len(doc) : Reads(doc, name, j, "begin") <=> j = b
  PROVE  Scanned(doc, name)[Len(doc)].parent = Scanned(doc, name)[b].parent
<1> DEFINE A(n) == Scanned(doc, name)[n]
           N == Len(doc)
           R == N - b
           Good == {n \in 0..R : A(b + n).parent = A(b).parent}
<1>1. N \in Nat /\ b \in 1..N /\ R \in Nat
  OBVIOUS
<1>2. ASSUME NEW n \in b..N PROVE A(n) \in ScanStates(D) /\ A(n).begin # <<>>
  <2>1. n \in 0..N /\ b \in 1..n /\ n \in 0..Len(doc)
    BY <1>1
  <2>2. A(n) \in ScanStates(D)
    BY <2>1, ScanIs
  <2>3. Reads(doc, name, b, "begin")
    OBVIOUS
  <2>4. Marks(A(n), "begin") = <<>> <=> \A j \in 1..n : ~Reads(doc, name, j, "begin")
    BY <2>1, MarksAre
  <2> HIDE DEF A
  <2>5. Marks(A(n), "begin") # <<>>
    BY <2>1, <2>3, <2>4
  <2> QED
    BY <2>2, <2>5 DEF Marks
<1>3. ASSUME NEW n \in 1..R, A(b + (n - 1)).parent = A(b).parent PROVE A(b + n).parent = A(b).parent
  <2> DEFINE k == b + n
  <2>1. k \in 1..Len(doc) /\ k - 1 \in b..N /\ b + (n - 1) = k - 1 /\ doc[k] \in D /\ k \in Nat
    BY <1>1
  <2> HIDE DEF k
  <2>2. A(k) = IF k \in FrontMatter(doc) THEN A(k - 1) ELSE ScanLine(A(k - 1), doc[k], k, name)
    BY <2>1, ScanIs
  <2>3. A(k - 1) \in ScanStates(D) /\ A(k - 1).begin # <<>>
    BY <1>2, <2>1
  <2> DEFINE s == A(k - 1)
  <2> HIDE DEF A
  <2>4. s \in ScanStates(D) /\ s.begin # <<>>
    BY <2>3
  <2> HIDE DEF s
  <2>5. ScanLine(s, doc[k], k, name).parent = s.parent
    BY <2>1, <2>4, LineIs
  <2>6. s.parent = A(b).parent
    BY <1>3, <2>1 DEF s
  <2> QED
    BY <2>2, <2>5, <2>6 DEF s, k
<1> HIDE DEF A, R
<1>4. 0 \in Good
  <2>1. b + 0 = b
    BY <1>1
  <2> QED
    BY <1>1, <2>1
<1>5. ASSUME NEW n \in 1..R, n - 1 \in Good PROVE n \in Good
  BY <1>1, <1>3, <1>5
<1> HIDE DEF Good
<1>6. \A n \in 0..R : n \in Good
  BY <1>1, <1>4, <1>5, AllAlong
<1>7. R \in 0..R /\ b + R = N
  BY <1>1 DEF R
<1>8. A(b + R).parent = A(b).parent
  BY <1>6, <1>7 DEF Good
<1> QED
  BY <1>7, <1>8 DEF A, N

(* What himorime writes, line by line.                                     *)
LEMMA SectionIs ==
  ASSUME NEW level, NEW r
  PROVE  WholeSection(level, r) =
           <<Blank, [k |-> "heading", level |-> level], Description,
             [k |-> "heading", level |-> Min({level + 1, 6})], [k |-> "results", run |-> r], Blank>>
<1> DEFINE h1 == [k |-> "heading", level |-> level]
           h2 == [k |-> "heading", level |-> Min({level + 1, 6})]
           rs == [k |-> "results", run |-> r]
<1>1. Rendered(level, r) = <<h1, Description, h2, rs>>
  BY DEF Rendered
<1> HIDE DEF h1, h2, rs
<1> DEFINE d == Description
           x == Blank
<1> HIDE DEF d, x
<1>2. (<<x>> \o <<h1, d, h2, rs>>) \o <<x>> = <<x, h1, d, h2, rs, x>>
  <2> DEFINE V == {x, h1, d, h2, rs}
             one == <<x>>
             four == <<h1, d, h2, rs>>
             six == <<x, h1, d, h2, rs, x>>
             five == one \o four
  <2>1. one \in Seq(V) /\ Len(one) = 1 /\ one[1] = x
    OBVIOUS
  <2>2. four \in Seq(V) /\ Len(four) = 4 /\ four[1] = h1 /\ four[2] = d /\ four[3] = h2 /\ four[4] = rs
    OBVIOUS
  <2>3. six \in Seq(V) /\ Len(six) = 6 /\ six[1] = x /\ six[2] = h1 /\ six[3] = d /\ six[4] = h2
        /\ six[5] = rs /\ six[6] = x
    OBVIOUS
  <2> HIDE DEF one, four, six, V
  <2>4. /\ five \in Seq(V) /\ Len(five) = Len(one) + Len(four)
        /\ \A i \in 1..(Len(one) + Len(four)) : five[i] = IF i <= Len(one) THEN one[i] ELSE four[i - Len(one)]
    BY <2>1, <2>2, ConcatProperties
  <2> HIDE DEF five
  <2>5. five[1] = x /\ five[2] = h1 /\ five[3] = d /\ five[4] = h2 /\ five[5] = rs /\ Len(five) = 5
    BY <2>1, <2>2, <2>4
  <2>9. five \in Seq(V) /\ one \in Seq(V)
    BY <2>1, <2>4
  <2> DEFINE all == five \o one
  <2>6. /\ all \in Seq(V) /\ Len(all) = Len(five) + Len(one)
        /\ \A i \in 1..(Len(five) + Len(one)) : all[i] = IF i <= Len(five) THEN five[i] ELSE one[i - Len(five)]
    BY <2>9, ConcatProperties
  <2> HIDE DEF all
  <2>7. \A i \in 1..6 : all[i] = six[i]
    BY <2>1, <2>3, <2>5, <2>6
  <2>10. all \in Seq(V) /\ six \in Seq(V) /\ Len(all) = 6 /\ Len(six) = 6
    BY <2>1, <2>3, <2>5, <2>6
  <2>11. \A i \in 1..Len(all) : all[i] = six[i]
    BY <2>7, <2>10
  <2>12. Len(all) = Len(six)
    BY <2>10
  <2>8. all = six
    BY <2>10, <2>11, <2>12, SeqEqual
  <2> QED
    BY <2>8 DEF all, five, one, four, six
<1> QED
  BY <1>1, <1>2 DEF WholeSection, d, x, h1, h2, rs

(* They are neither markers nor fences.                                    *)
LEMMA SectionLines ==
  ASSUME PlainDescription, NEW level, NEW r, NEW E, NEW D, D = E \cup Range(WholeSection(level, r))
  PROVE  /\ WholeSection(level, r) \in Seq(D) /\ Len(WholeSection(level, r)) = 6
         /\ Plain(WholeSection(level, r))
<1> DEFINE w == WholeSection(level, r)
           h1 == [k |-> "heading", level |-> level]
           h2 == [k |-> "heading", level |-> Min({level + 1, 6})]
           rs == [k |-> "results", run |-> r]
<1>1. w = <<Blank, h1, Description, h2, rs, Blank>>
  BY SectionIs
<1>2. Blank.k = "text" /\ h1.k = "heading" /\ h2.k = "heading" /\ rs.k = "results"
      /\ Description.k \in {"text", "heading"}
  BY DEF Blank, PlainDescription
<1> HIDE DEF h1, h2, rs
<1>3. DOMAIN w = 1..6 /\ Len(w) = 6
      /\ w[1] = Blank /\ w[2] = h1 /\ w[3] = Description /\ w[4] = h2 /\ w[5] = rs /\ w[6] = Blank
  BY <1>1
<1> HIDE DEF w
<1>4. \A i \in 1..6 : w[i].k \in {"text", "heading", "results"}
  <2>1. \A i \in 1..6 : i = 1 \/ i = 2 \/ i = 3 \/ i = 4 \/ i = 5 \/ i = 6
    OBVIOUS
  <2> QED
    BY <1>2, <1>3, <2>1
<1>5. w \in Seq(D)
  <2>1. \A i \in 1..6 : w[i] \in Range(w)
    BY <1>3 DEF Range
  <2>2. {w[1], w[2], w[3], w[4], w[5], w[6]} \subseteq D
    BY <2>1 DEF w
  <2> DEFINE six == <<w[1], w[2], w[3], w[4], w[5], w[6]>>
  <2>3. six \in Seq(D)
    BY <2>2
  <2>4. w = six
    BY <1>1, <1>3
  <2> QED
    BY <2>3, <2>4
<1> QED
  BY <1>3, <1>4, <1>5 DEF w, Plain

(* A section that was written is written the same again: the document      *)
(* does not change.                                                        *)
LEMMA ReplacedAgain ==
  ASSUME PlainDescription, NEW E, NEW doc \in Seq(E), NEW name, NEW r, ReplaceSection(doc, name, r) # <<>>
  PROVE  ReplaceSection(ReplaceSection(doc, name, r), name, r) = ReplaceSection(doc, name, r)
<1> DEFINE level == LevelBelow(Scan(doc, name).parent)
           w == WholeSection(level, r)
           D == E \cup Range(w)
           N == Len(doc)
<1>1. PICK b \in 1..N : \E e \in 1..N :
             b < e /\ ReadsOnly(doc, name, "begin", b) /\ ReadsOnly(doc, name, "end", e)
  BY ReplaceIs
<1>2. PICK e \in 1..N : b < e /\ ReadsOnly(doc, name, "begin", b) /\ ReadsOnly(doc, name, "end", e)
  BY <1>1
<1> DEFINE out == Splice(doc, b, e, w)
<1>3. ReplaceSection(doc, name, r) = out
  BY <1>2, ReplaceIs
<1>4. w \in Seq(D) /\ Len(w) = 6 /\ Plain(w)
  BY SectionLines
<1>5. doc \in Seq(D)
  OBVIOUS
<1>6. /\ \A j \in 1..N : Reads(doc, name, j, "begin") <=> j = b
      /\ \A j \in 1..N : Reads(doc, name, j, "end") <=> j = e
  BY <1>2 DEF ReadsOnly, OnlyOne
<1>7. Gap(doc, b, e)
  BY <1>2, <1>6, GapIs
<1> HIDE DEF w, D, level
<1>8. Filled(D, doc, b, e, w, out)
  BY <1>4, <1>5, SpliceIs
<1> DEFINE R == N - e + 1
<1>9. /\ N \in Nat /\ b \in 1..N /\ e \in 1..N /\ b < e /\ R \in Nat \ {0} /\ b \in Nat /\ e \in Nat /\ N - e = R - 1
      /\ out \in Seq(D) /\ Len(out) = b + 6 + R
      /\ \A i \in 1..b : out[i] = doc[i]
      /\ \A i \in 1..6 : out[b + i] = w[i]
      /\ \A i \in 0..(R - 1) : out[b + 7 + i] = doc[e + i]
  <2> HIDE DEF out
  <2>1. out \in Seq(D) /\ Len(out) = b + Len(w) + (N - e + 1)
    BY <1>8 DEF Filled
  <2>2. \A i \in 1..b : out[i] = doc[i]
    BY <1>8 DEF Filled
  <2>3. \A i \in 1..Len(w) : out[b + i] = w[i]
    BY <1>8 DEF Filled
  <2>4. \A i \in 0..(N - e) : out[b + Len(w) + 1 + i] = doc[e + i]
    BY <1>8 DEF Filled
  <2>5. N \in Nat /\ b \in 1..N /\ e \in 1..N /\ b < e /\ b \in Nat /\ e \in Nat /\ e <= N /\ N - e = R - 1 /\ R \in Nat \ {0}
    BY <1>2
  <2> HIDE DEF R, N
  <2>10. Len(w) = 6
    BY <1>4
  <2> HIDE DEF w
  <2>6. Len(out) = b + 6 + R
    BY <2>1, <2>5, <2>10
  <2>7. ASSUME NEW i \in 0..(R - 1) PROVE out[b + 7 + i] = doc[e + i]
    <3>1. i \in 0..(N - e) /\ b + Len(w) + 1 + i = b + 7 + i
      BY <2>5, <2>10
    <3> QED
      BY <2>4, <3>1
  <2>8. \A i \in 1..6 : out[b + i] = w[i]
    BY <2>3, <2>10
  <2>9. out \in Seq(D)
    BY <2>1
  <2> QED
    BY <2>2, <2>5, <2>6, <2>7, <2>8, <2>9
<1> HIDE DEF R, N
<1>0. /\ N \in Nat /\ R \in Nat \ {0} /\ b \in 1..N /\ e \in 1..N /\ b < e /\ N - e = R - 1
      /\ Len(out) = b + 6 + R
  BY <1>9
<1>10. ASSUME NEW kind \in {"begin", "end"}
       PROVE  /\ \A i \in 1..b : Reads(out, name, i, kind) <=> Reads(doc, name, i, kind)
              /\ \A i \in 1..6 : ~Reads(out, name, b + i, kind)
              /\ \A i \in 0..(R - 1) : Reads(out, name, b + 7 + i, kind) <=> Reads(doc, name, e + i, kind)
  <2>0. KeepsMarkers(doc, b, e, Len(w), name, kind, out)
    BY <1>4, <1>5, <1>7, ReadsSpliced
  <2> HIDE DEF out
  <2>1. \A i \in 1..b : Reads(out, name, i, kind) <=> Reads(doc, name, i, kind)
    BY <2>0 DEF KeepsMarkers
  <2>2. \A i \in 1..Len(w) : ~Reads(out, name, b + i, kind)
    BY <2>0 DEF KeepsMarkers
  <2>3. \A i \in 0..(Len(doc) - e) : Reads(out, name, b + Len(w) + 1 + i, kind) <=> Reads(doc, name, e + i, kind)
    BY <2>0 DEF KeepsMarkers
  <2>4. ASSUME NEW i \in 0..(R - 1) PROVE Reads(out, name, b + 7 + i, kind) <=> Reads(doc, name, e + i, kind)
    <3>1. i \in 0..(Len(doc) - e) /\ b + Len(w) + 1 + i = b + 7 + i
      BY <1>4, <1>9 DEF N
    <3> QED
      BY <2>3, <3>1
  <2> QED
    BY <1>4, <2>1, <2>2, <2>4
<1>11. \A j \in 1..(b + 6 + R) : j \in 1..b \/ (\E i \in 1..6 : j = b + i) \/ \E i \in 0..(R - 1) : j = b + 7 + i
  <2> SUFFICES ASSUME NEW j \in 1..(b + 6 + R)
               PROVE  j \in 1..b \/ (\E i \in 1..6 : j = b + i) \/ \E i \in 0..(R - 1) : j = b + 7 + i
    OBVIOUS
  <2>1. CASE j <= b
    BY <1>9, <2>1
  <2>2. CASE j > b /\ j <= b + 6
    <3>1. j - b \in 1..6 /\ j = b + (j - b)
      BY <1>9, <2>2
    <3> QED
      BY <3>1
  <2>3. CASE j > b + 6
    <3>1. j - (b + 7) \in 0..(R - 1) /\ j = b + 7 + (j - (b + 7))
      BY <1>9, <2>3
    <3> QED
      BY <3>1
  <2> QED
    BY <1>9, <2>1, <2>2, <2>3
<1> HIDE DEF out
<1>12. ReadsOnly(out, name, "begin", b)
  <2>1. b \in 1..b /\ b \in 1..Len(out)
    BY <1>0
  <2>2. ASSUME NEW j \in 1..Len(out) PROVE Reads(out, name, j, "begin") <=> j = b
    <3>1. CASE j \in 1..b
      <4>1. j \in 1..N
        BY <3>1 DEF N
      <4> QED
        BY <1>6, <1>10, <3>1, <4>1
    <3>2. ASSUME NEW i \in 1..6, j = b + i PROVE ~Reads(out, name, j, "begin") /\ j # b
      BY <1>0, <1>10, <3>2
    <3>3. ASSUME NEW i \in 0..(R - 1), j = b + 7 + i PROVE ~Reads(out, name, j, "begin") /\ j # b
      <4>1. e + i \in 1..N /\ e + i # b /\ j # b
        BY <1>0, <3>3
      <4>2. ~Reads(doc, name, e + i, "begin")
        BY <1>6, <4>1
      <4> QED
        BY <1>10, <3>3, <4>1, <4>2
    <3> QED
      BY <1>0, <1>11, <3>1, <3>2, <3>3
  <2> QED
    BY <2>1, <2>2 DEF ReadsOnly, OnlyOne
<1>13. ReadsOnly(out, name, "end", b + 7)
  <2>1. b + 7 \in 1..Len(out)
    BY <1>0
  <2>2. ASSUME NEW j \in 1..Len(out) PROVE Reads(out, name, j, "end") <=> j = b + 7
    <3>1. CASE j \in 1..b
      <4>1. j \in 1..N /\ j # e /\ j # b + 7
        BY <1>0, <3>1
      <4> QED
        BY <1>6, <1>10, <3>1, <4>1
    <3>2. ASSUME NEW i \in 1..6, j = b + i PROVE ~Reads(out, name, j, "end") /\ j # b + 7
      BY <1>0, <1>10, <3>2
    <3>3. ASSUME NEW i \in 0..(R - 1), j = b + 7 + i PROVE Reads(out, name, j, "end") <=> j = b + 7
      <4>1. e + i \in 1..N /\ (e + i = e <=> j = b + 7)
        BY <1>0, <3>3
      <4>2. Reads(doc, name, e + i, "end") <=> e + i = e
        BY <1>6, <4>1
      <4> QED
        BY <1>10, <3>3, <4>1, <4>2
    <3> QED
      BY <1>0, <1>11, <3>1, <3>2, <3>3
  <2> QED
    BY <2>1, <2>2 DEF ReadsOnly, OnlyOne
<1>14. Scan(out, name).parent = Scan(doc, name).parent
  <2>1. Scanned(out, name)[b].parent = Scanned(doc, name)[b].parent
    <3>1. b \in 0..b
      BY <1>9
    <3>2. Scanned(Splice(doc, b, e, w), name)[b] = Scanned(doc, name)[b]
      BY <1>4, <1>5, <1>7, <3>1, StartSame
    <3> QED
      BY <3>2 DEF out
  <2>2. Scanned(out, name)[Len(out)].parent = Scanned(out, name)[b].parent
    BY <1>9, <1>12, ParentStays DEF ReadsOnly, OnlyOne
  <2>3. Scanned(doc, name)[Len(doc)].parent = Scanned(doc, name)[b].parent
    BY <1>6, ParentStays DEF N
  <2> QED
    BY <2>1, <2>2, <2>3 DEF Scan
<1>15. ReplaceSection(out, name, r) = Splice(out, b, b + 7, w)
  <2>1. b \in 1..Len(out) /\ b + 7 \in 1..Len(out) /\ b < b + 7
    BY <1>0
  <2> DEFINE f == b + 7
  <2>2. ReadsOnly(out, name, "end", f) /\ f \in 1..Len(out) /\ b < f
    BY <1>13, <2>1
  <2> HIDE DEF f
  <2>4. out \in Seq(D)
    BY <1>9
  <2>3. ReplaceSection(out, name, r) = Splice(out, b, f, WholeSection(LevelBelow(Scan(out, name).parent), r))
    BY <1>12, <2>1, <2>2, <2>4, ReplaceIs
  <2> QED
    BY <1>14, <2>3 DEF f, w, level
<1>16. Splice(out, b, b + 7, w) = out
  <2> DEFINE again == Splice(out, b, b + 7, w)
             f == b + 7
  <2>1. b \in 1..Len(out) /\ f \in 1..Len(out)
    BY <1>0
  <2> HIDE DEF f
  <2>2. Filled(D, out, b, f, w, Splice(out, b, f, w))
    BY <1>4, <1>9, <2>1, SpliceIs
  <2>3. Filled(D, out, b, f, w, again)
    BY <2>2 DEF f
  <2> HIDE DEF again
  <2>4. /\ again \in Seq(D) /\ Len(again) = b + 6 + R
        /\ \A i \in 1..b : again[i] = out[i]
        /\ \A i \in 1..6 : again[b + i] = w[i]
        /\ \A i \in 0..(R - 1) : again[b + 7 + i] = out[b + 7 + i]
    <3>1. again \in Seq(D) /\ Len(again) = b + Len(w) + (Len(out) - f + 1)
      BY <2>3 DEF Filled
    <3>2. \A i \in 1..b : again[i] = out[i]
      BY <2>3 DEF Filled
    <3>3. \A i \in 1..Len(w) : again[b + i] = w[i]
      BY <2>3 DEF Filled
    <3>4. \A i \in 0..(Len(out) - f) : again[b + Len(w) + 1 + i] = out[f + i]
      BY <2>3 DEF Filled
    <3>5. Len(out) - f = R - 1
      BY <1>9 DEF f
    <3>6. Len(again) = b + 6 + R
      BY <1>4, <1>9, <3>1, <3>5
    <3>7. ASSUME NEW i \in 0..(R - 1) PROVE again[b + 7 + i] = out[b + 7 + i]
      <4>1. b + Len(w) + 1 + i = b + 7 + i /\ f + i = b + 7 + i
        BY <1>4, <1>9 DEF f
      <4> QED
        BY <3>4, <3>5, <4>1
    <3> QED
      BY <1>4, <3>1, <3>2, <3>3, <3>6, <3>7
  <2>5. ASSUME NEW j \in 1..(b + 6 + R) PROVE again[j] = out[j]
    <3>1. CASE j \in 1..b
      BY <2>4, <3>1
    <3>2. ASSUME NEW i \in 1..6, j = b + i PROVE again[j] = out[j]
      <4>1. again[b + i] = w[i] /\ out[b + i] = w[i]
        BY <1>9, <2>4
      <4> QED
        BY <3>2, <4>1
    <3>3. ASSUME NEW i \in 0..(R - 1), j = b + 7 + i PROVE again[j] = out[j]
      <4>1. again[b + 7 + i] = out[b + 7 + i]
        BY <2>4
      <4> QED
        BY <3>3, <4>1
    <3> QED
      BY <1>11, <3>1, <3>2, <3>3
  <2>6. out \in Seq(D) /\ Len(again) = Len(out)
    BY <1>9, <2>4
  <2>7. \A j \in 1..Len(again) : again[j] = out[j]
    BY <2>4, <2>5
  <2>8. again \in Seq(D)
    BY <2>4
  <2>9. again = out
    BY <2>6, <2>7, <2>8, SeqEqual
  <2> QED
    BY <2>9 DEF again
<1> QED
  BY <1>3, <1>15, <1>16 DEF out

-----------------------------------------------------------------------------
(* The lines of a section and those outside.                               *)

(* The lines that are kept of a document, line by line.                    *)
Kept(D, doc, where, f) ==
  /\ f \in [0..Len(doc) -> Seq(D)] /\ f[0] = <<>>
  /\ \A n \in 1..Len(doc) : f[n] = IF n \in where THEN Append(f[n - 1], doc[n]) ELSE f[n - 1]

(* What is taken of a document is what a function of its lines gives.      *)
LEMMA LinesAre ==
  ASSUME NEW D, NEW doc \in Seq(D), NEW where
  PROVE  \E f : Kept(D, doc, where, f) /\ LinesAt(doc, where) = f[Len(doc)]
<1> DEFINE N == Len(doc)
           S == Seq(D)
           start == <<>>
           Next1(s, i) == IF i \in where THEN Append(s, doc[i]) ELSE s
           step == [x \in S \X (1..N) |-> Next1(x[1], x[2])]
           Is(w) == w = [i \in 0..N |-> IF i = 0 THEN <<>> ELSE IF i \in where THEN Append(w[i - 1], doc[i]) ELSE w[i - 1]]
<1>0. N \in Nat /\ (\A i \in 1..N : doc[i] \in D) /\ start \in S
  OBVIOUS
<1>1. ASSUME NEW s \in S, NEW i \in 1..N PROVE Next1(s, i) \in S
  <2>1. doc[i] \in D
    BY <1>0
  <2>2. Append(s, doc[i]) \in S
    BY <2>1, AppendProperties
  <2> QED
    BY <2>2
<1> HIDE DEF N, S, start
<1>2. step \in Steps(S, N)
  <2> HIDE DEF Next1
  <2> QED
    BY <1>1 DEF Steps
<1> HIDE DEF step
<1>3. PICK f \in [0..N -> S] : f[0] = start /\ \A n \in 1..N : f[n] = step[<<f[n - 1], n>>]
  <2>1. N \in Nat /\ start \in S
    BY <1>0
  <2> HIDE DEF Next1, Is
  <2> QED
    BY <1>2, <2>1, StepByStep
<1> HIDE DEF Next1
<1>4. \A i \in 1..N : f[i] = Next1(f[i - 1], i)
  <2> SUFFICES ASSUME NEW i \in 1..N PROVE f[i] = Next1(f[i - 1], i)
    OBVIOUS
  <2>1. i - 1 \in 0..N
    BY <1>0
  <2>2. f[i - 1] \in S
    BY <2>1
  <2>3. step[<<f[i - 1], i>>] = Next1(f[i - 1], i)
    BY <2>2 DEF step
  <2> QED
    BY <1>3, <2>3
<1>5. Is(f)
  <2>1. ASSUME NEW i \in 0..N
        PROVE  f[i] = IF i = 0 THEN <<>> ELSE IF i \in where THEN Append(f[i - 1], doc[i]) ELSE f[i - 1]
    <3>1. CASE i = 0
      BY <1>3, <3>1 DEF start
    <3>2. CASE i # 0
      <4>1. i \in 1..N
        BY <1>0, <3>2
      <4>2. f[i] = Next1(f[i - 1], i)
        BY <1>4, <4>1
      <4> QED
        BY <3>2, <4>2 DEF Next1
    <3> QED
      BY <3>1, <3>2
  <2> QED
    BY <2>1
<1> DEFINE g == CHOOSE w : Is(w)
<1>6. Is(g)
  <2> HIDE DEF Is
  <2> QED
    BY <1>5
<1>7. LinesAt(doc, where) = g[N]
  BY DEF LinesAt, N
<1> HIDE DEF g
<1>8. g[0] = <<>> /\ \A i \in 1..N : g[i] = IF i \in where THEN Append(g[i - 1], doc[i]) ELSE g[i - 1]
  <2>1. 0 \in 0..N /\ \A i \in 1..N : i \in 0..N /\ i # 0
    BY <1>0
  <2>2. g[0] = <<>>
    BY <1>6, <2>1
  <2>3. ASSUME NEW i \in 1..N PROVE g[i] = IF i \in where THEN Append(g[i - 1], doc[i]) ELSE g[i - 1]
    BY <1>6, <2>1
  <2> QED
    BY <2>2, <2>3
<1>9. \A i \in 0..N : g[i] \in S
  <2> DEFINE Good == {i \in 0..N : g[i] \in S}
  <2>1. 0 \in Good
    BY <1>0, <1>8 DEF start
  <2>2. ASSUME NEW i \in 1..N, i - 1 \in Good PROVE i \in Good
    BY <1>1, <1>8, <2>2 DEF Next1
  <2> HIDE DEF Good
  <2>3. \A i \in 0..N : i \in Good
    BY <1>0, <2>1, <2>2, AllAlong
  <2> QED
    BY <2>3 DEF Good
<1>10. g = [i \in 0..N |-> g[i]]
  <2>1. \E Filling : g = Filling /\ DOMAIN Filling = 0..N /\ Filling = [i \in 0..N |-> Filling[i]]
    <3> DEFINE Filling == [i \in 0..N |-> IF i = 0 THEN <<>> ELSE IF i \in where THEN Append(g[i - 1], doc[i]) ELSE g[i - 1]]
    <3>1. g = Filling
      BY <1>6
    <3>2. DOMAIN Filling = 0..N /\ Filling = [i \in 0..N |-> Filling[i]]
      OBVIOUS
    <3> QED
      BY <3>1, <3>2
  <2> QED
    BY <2>1
<1> HIDE DEF Is
<1>11. Kept(D, doc, where, g)
  BY <1>8, <1>9, <1>10 DEF Kept, N, S
<1> QED
  BY <1>7, <1>11 DEF N

(* The same lines are kept when a gap has been filled with m lines, and    *)
(* none of the gap.                                                        *)
SameKept(doc, b, e, m, V, W) ==
  /\ \A i \in 1..b : i \in W <=> i \in V
  /\ \A i \in 1..m : b + i \notin W
  /\ \A i \in (b + 1)..(e - 1) : i \notin V
  /\ \A i \in 0..(Len(doc) - e) : b + m + 1 + i \in W <=> e + i \in V

(* So what is kept does not depend on what is in the gap.                  *)
LEMMA LinesSpliced ==
  ASSUME NEW D, NEW doc \in Seq(D), NEW w \in Seq(D), NEW b \in 1..Len(doc), NEW e \in 1..Len(doc), b < e,
         NEW V, NEW W, SameKept(doc, b, e, Len(w), V, W)
  PROVE  LinesAt(Splice(doc, b, e, w), W) = LinesAt(doc, V)
<1> DEFINE out == Splice(doc, b, e, w)
           N == Len(doc)
           m == Len(w)
           R == N - e + 1
<1>1. Filled(D, doc, b, e, w, out)
  BY SpliceIs
<1> HIDE DEF out
<1>2. /\ out \in Seq(D) /\ Len(out) = b + m + R
      /\ \A i \in 1..b : out[i] = doc[i]
      /\ \A i \in 0..(N - e) : out[b + m + 1 + i] = doc[e + i]
  BY <1>1 DEF Filled
<1>3. PICK f : Kept(D, doc, V, f) /\ LinesAt(doc, V) = f[N]
  BY LinesAre
<1>4. PICK g : Kept(D, out, W, g) /\ LinesAt(out, W) = g[Len(out)]
  BY <1>2, LinesAre
<1>5. b \in Nat /\ e \in Nat /\ N \in Nat /\ m \in Nat /\ R \in Nat \ {0} /\ b > 0 /\ b < e /\ e <= N /\ N - e = R - 1
  OBVIOUS
<1> HIDE DEF N, m, R
<1>6. /\ f[0] = <<>> /\ g[0] = <<>>
      /\ \A n \in 1..N : f[n] = IF n \in V THEN Append(f[n - 1], doc[n]) ELSE f[n - 1]
      /\ \A n \in 1..(b + m + R) : g[n] = IF n \in W THEN Append(g[n - 1], out[n]) ELSE g[n - 1]
  BY <1>2, <1>3, <1>4 DEF Kept, N
<1>7. f[b] = g[b]
  <2> DEFINE Good == {n \in 0..b : f[n] = g[n]}
  <2>1. 0 \in Good
    BY <1>5, <1>6
  <2>2. ASSUME NEW n \in 1..b, n - 1 \in Good PROVE n \in Good
    <3>1. n \in 1..N /\ n \in 1..(b + m + R) /\ n \in 0..b
      BY <1>5
    <3>2. f[n] = IF n \in V THEN Append(f[n - 1], doc[n]) ELSE f[n - 1]
      BY <1>6, <3>1
    <3>3. g[n] = IF n \in W THEN Append(g[n - 1], out[n]) ELSE g[n - 1]
      BY <1>6, <3>1
    <3>4. out[n] = doc[n] /\ (n \in W <=> n \in V) /\ f[n - 1] = g[n - 1]
      BY <1>2, <2>2 DEF SameKept
    <3> QED
      BY <3>1, <3>2, <3>3, <3>4
  <2> HIDE DEF Good
  <2>3. \A n \in 0..b : n \in Good
    BY <1>5, <2>1, <2>2, AllAlong
  <2> QED
    BY <1>5, <2>3 DEF Good
<1>8. g[b + m] = g[b]
  <2> DEFINE Good == {n \in 0..m : g[b + n] = g[b]}
  <2>1. 0 \in Good
    BY <1>5
  <2>2. ASSUME NEW n \in 1..m, n - 1 \in Good PROVE n \in Good
    <3>1. b + n \in 1..(b + m + R) /\ b + (n - 1) = (b + n) - 1
      BY <1>5
    <3>2. g[b + n] = IF b + n \in W THEN Append(g[(b + n) - 1], out[b + n]) ELSE g[(b + n) - 1]
      BY <1>6, <3>1
    <3>3. b + n \notin W
      BY DEF m, SameKept
    <3>4. g[b + (n - 1)] = g[b] /\ n \in 0..m
      BY <1>5, <2>2
    <3> QED
      BY <3>1, <3>2, <3>3, <3>4
  <2> HIDE DEF Good
  <2>3. \A n \in 0..m : n \in Good
    BY <1>5, <2>1, <2>2, AllAlong
  <2>4. m \in 0..m
    BY <1>5
  <2> QED
    BY <2>3, <2>4 DEF Good
<1>9. f[e - 1] = f[b]
  <2> DEFINE k == e - 1 - b
             Good == {n \in 0..k : f[b + n] = f[b]}
  <2>0. k \in Nat /\ b + k = e - 1
    BY <1>5
  <2> HIDE DEF k
  <2>1. 0 \in Good
    BY <1>5, <2>0
  <2>2. ASSUME NEW n \in 1..k, n - 1 \in Good PROVE n \in Good
    <3>1. b + n \in 1..N /\ b + (n - 1) = (b + n) - 1 /\ b + n \in (b + 1)..(e - 1)
      BY <1>5, <2>0
    <3>2. f[b + n] = IF b + n \in V THEN Append(f[(b + n) - 1], doc[b + n]) ELSE f[(b + n) - 1]
      BY <1>6, <3>1
    <3>3. b + n \notin V
      BY <3>1 DEF SameKept
    <3>4. f[b + (n - 1)] = f[b] /\ n \in 0..k
      BY <2>0, <2>2
    <3> QED
      BY <3>1, <3>2, <3>3, <3>4
  <2> HIDE DEF Good
  <2>3. \A n \in 0..k : n \in Good
    BY <2>0, <2>1, <2>2, AllAlong
  <2>4. k \in 0..k
    BY <2>0
  <2>5. f[b + k] = f[b]
    BY <2>3, <2>4 DEF Good
  <2> QED
    BY <2>0, <2>5
<1>10. f[e - 1 + R] = g[b + m + R]
  <2> DEFINE Good == {n \in 0..R : f[e - 1 + n] = g[b + m + n]}
  <2>0. R \in Nat
    BY <1>5
  <2>1. 0 \in Good
    BY <1>5, <1>7, <1>8, <1>9
  <2>2. ASSUME NEW n \in 1..R, n - 1 \in Good PROVE n \in Good
    <3> DEFINE i == e - 1 + n
               j == b + m + n
    <3>1. /\ i \in 1..N /\ j \in 1..(b + m + R) /\ i - 1 = e - 1 + (n - 1) /\ j - 1 = b + m + (n - 1)
          /\ n - 1 \in 0..(N - e) /\ e + (n - 1) = i /\ b + m + 1 + (n - 1) = j
      BY <1>5
    <3>2. out[j] = doc[i] /\ (j \in W <=> i \in V)
      BY <1>2, <3>1 DEF N, m, SameKept
    <3>3. f[i - 1] = g[j - 1]
      BY <2>2, <3>1
    <3> HIDE DEF i, j
    <3>4. f[i] = IF i \in V THEN Append(f[i - 1], doc[i]) ELSE f[i - 1]
      BY <1>6, <3>1
    <3>5. g[j] = IF j \in W THEN Append(g[j - 1], out[j]) ELSE g[j - 1]
      BY <1>6, <3>1
    <3>6. f[i] = g[j]
      BY <3>2, <3>3, <3>4, <3>5
    <3>7. n \in 0..R
      BY <2>0
    <3> QED
      BY <3>6, <3>7 DEF i, j
  <2> HIDE DEF Good
  <2>3. \A n \in 0..R : n \in Good
    BY <2>0, <2>1, <2>2, AllAlong
  <2> QED
    BY <2>0, <2>3 DEF Good
<1>11. e - 1 + R = N
  BY <1>5
<1> QED
  BY <1>2, <1>3, <1>4, <1>10, <1>11 DEF out

(* What is kept of the gap is what it is filled with.                      *)
LEMMA LinesFilled ==
  ASSUME NEW D, NEW doc \in Seq(D), NEW w \in Seq(D), NEW b \in 1..Len(doc), NEW e \in 1..Len(doc)
  PROVE  LinesAt(Splice(doc, b, e, w), (b + 1)..(b + Len(w))) = w
<1> DEFINE out == Splice(doc, b, e, w)
           m == Len(w)
           R == Len(doc) - e + 1
           W == (b + 1)..(b + m)
<1>1. Filled(D, doc, b, e, w, out)
  BY SpliceIs
<1> HIDE DEF out
<1>2. /\ out \in Seq(D) /\ Len(out) = b + m + R
      /\ \A i \in 1..m : out[b + i] = w[i]
  BY <1>1 DEF Filled
<1>3. PICK g : Kept(D, out, W, g) /\ LinesAt(out, W) = g[Len(out)]
  BY <1>2, LinesAre
<1>4. b \in Nat /\ m \in Nat /\ R \in Nat
  OBVIOUS
<1>5. \A n \in 1..m : w[n] \in D
  OBVIOUS
<1> HIDE DEF m, R
<1>6. /\ g[0] = <<>> /\ (\A n \in 0..(b + m + R) : g[n] \in Seq(D))
      /\ \A n \in 1..(b + m + R) : g[n] = IF n \in W THEN Append(g[n - 1], out[n]) ELSE g[n - 1]
  BY <1>2, <1>3 DEF Kept
<1> HIDE DEF W
<1>7. g[b] = <<>>
  <2> DEFINE Good == {n \in 0..b : g[n] = <<>>}
  <2>1. 0 \in Good
    BY <1>4, <1>6
  <2>2. ASSUME NEW n \in 1..b, n - 1 \in Good PROVE n \in Good
    <3>1. n \in 1..(b + m + R) /\ n \notin W
      BY <1>4 DEF W
    <3> QED
      BY <1>6, <2>2, <3>1
  <2> HIDE DEF Good
  <2>3. \A n \in 0..b : n \in Good
    BY <1>4, <2>1, <2>2, AllAlong
  <2> QED
    BY <1>4, <2>3 DEF Good
<1>8. Len(g[b + m]) = m /\ \A i \in 1..m : g[b + m][i] = w[i]
  <2> DEFINE Is(n) == Len(g[b + n]) = n /\ \A i \in 1..n : g[b + n][i] = w[i]
             Good == {n \in 0..m : Is(n)}
  <2>1. 0 \in Good
    <3>1. Is(0)
      BY <1>4, <1>7
    <3> QED
      BY <1>4, <3>1
  <2>2. ASSUME NEW n \in 1..m, n - 1 \in Good PROVE n \in Good
    <3> DEFINE j == b + n
    <3>1. j \in 1..(b + m + R) /\ j \in W /\ j - 1 = b + (n - 1) /\ j - 1 \in 0..(b + m + R) /\ n \in 0..m
      BY <1>4 DEF W
    <3>2. out[j] = w[n] /\ w[n] \in D
      BY <1>2, <1>5
    <3>3. Len(g[j - 1]) = n - 1 /\ \A i \in 1..(n - 1) : g[j - 1][i] = w[i]
      BY <2>2, <3>1
    <3> HIDE DEF j
    <3>4. g[j] = Append(g[j - 1], out[j]) /\ g[j - 1] \in Seq(D)
      BY <1>6, <3>1
    <3> DEFINE s == g[j - 1]
               l == w[n]
    <3>5. s \in Seq(D) /\ l \in D /\ Len(s) = n - 1
      BY <3>2, <3>3, <3>4
    <3> HIDE DEF s, l
    <3>6. /\ Len(Append(s, l)) = Len(s) + 1 /\ Append(s, l)[Len(s) + 1] = l
          /\ \A i \in 1..Len(s) : Append(s, l)[i] = s[i]
      BY <3>5, AppendProperties
    <3>7. g[j] = Append(s, l)
      BY <3>2, <3>4 DEF s, l
    <3>8. Len(g[j]) = n /\ g[j][n] = w[n] /\ \A i \in 1..(n - 1) : g[j][i] = w[i]
      <4>1. (n - 1) + 1 = n
        OBVIOUS
      <4> QED
        BY <3>3, <3>5, <3>6, <3>7, <4>1 DEF s, l
    <3>9. \A i \in 1..n : i \in 1..(n - 1) \/ i = n
      OBVIOUS
    <3>10. Is(n)
      BY <3>8, <3>9 DEF j
    <3> HIDE DEF Is
    <3> QED
      BY <3>1, <3>10
  <2> HIDE DEF Good
  <2>3. \A n \in 0..m : n \in Good
    BY <1>4, <2>1, <2>2, AllAlong
  <2>4. m \in 0..m
    BY <1>4
  <2> QED
    BY <2>3, <2>4 DEF Good
<1>9. g[b + m + R] = g[b + m]
  <2> DEFINE Good == {n \in 0..R : g[b + m + n] = g[b + m]}
  <2>1. 0 \in Good
    BY <1>4
  <2>2. ASSUME NEW n \in 1..R, n - 1 \in Good PROVE n \in Good
    <3> DEFINE j == b + m + n
    <3>1. j \in 1..(b + m + R) /\ j \notin W /\ j - 1 = b + m + (n - 1) /\ n \in 0..R
      BY <1>4 DEF W
    <3>2. g[j - 1] = g[b + m]
      BY <2>2, <3>1
    <3> HIDE DEF j
    <3>3. g[j] = g[j - 1]
      BY <1>6, <3>1
    <3> QED
      BY <3>1, <3>2, <3>3 DEF j
  <2> HIDE DEF Good
  <2>3. \A n \in 0..R : n \in Good
    BY <1>4, <2>1, <2>2, AllAlong
  <2>4. R \in 0..R
    BY <1>4
  <2> QED
    BY <2>3, <2>4 DEF Good
<1>10. g[b + m] \in Seq(D)
  <2>1. b + m \in 0..(b + m + R)
    BY <1>4
  <2> QED
    BY <1>6, <2>1
<1> DEFINE t == g[b + m]
<1>11. t \in Seq(D) /\ Len(t) = Len(w) /\ \A i \in 1..Len(t) : t[i] = w[i]
  BY <1>8, <1>10 DEF m
<1> HIDE DEF t
<1>12. t = w
  BY <1>11, SeqEqual
<1> QED
  BY <1>2, <1>3, <1>9, <1>12 DEF t, out, W, m

-----------------------------------------------------------------------------
(* A section replaced in a document whose markers are what the scan takes  *)
(* them for.                                                               *)

Markers == {"begin", "end"}

(* The markers that are real are those the scan reads.                     *)
MarkersReal(doc) ==
  \A i \in DOMAIN doc : doc[i].k \in Markers => doc[i].real = Reads(doc, doc[i].name, i, doc[i].k)

(* No other marker is between those of a section.                          *)
Separate(doc) ==
  \A b, m, e \in DOMAIN doc :
    b < m /\ m < e /\ doc[b].k = "begin" /\ doc[e].k = "end" /\ doc[m].k \in Markers
    /\ doc[b].real /\ doc[m].real /\ doc[e].real /\ doc[b].name = doc[e].name
    => doc[m].name = doc[b].name

(* A document is legible when its markers are real and none is within
   another section.                                                        *)
LEMMA LegibleIs ==
  ASSUME NEW D, NEW doc \in Seq(D)
  PROVE  Legible(doc) <=> MarkersReal(doc) /\ Separate(doc)
<1> DEFINE Seen(i) == /\ i \notin FrontMatter(doc) /\ doc[i].indent <= 3
                      /\ Scanned(doc, doc[i].name)[i - 1].fence = NoFence
<1>1. ASSUME NEW i \in DOMAIN doc, doc[i].k \in Markers PROVE Seen(i) = Reads(doc, doc[i].name, i, doc[i].k)
  <2>1. i \in 1..Len(doc) /\ doc[i].k # "fence"
    BY <1>1 DEF Markers
  <2>2. Reads(doc, doc[i].name, i, doc[i].k) <=> Seen(i)
    BY <2>1 DEF Reads, IsMarker
  <2>3. Seen(i) \in BOOLEAN /\ Reads(doc, doc[i].name, i, doc[i].k) \in BOOLEAN
    BY DEF Reads
  <2> QED
    BY <2>2, <2>3
<1>2. (\A i \in DOMAIN doc : doc[i].k \in Markers => doc[i].real = Seen(i)) <=> MarkersReal(doc)
  <2> HIDE DEF Seen
  <2> QED
    BY <1>1 DEF MarkersReal
<1> DEFINE First == \A i \in DOMAIN doc : doc[i].k \in Markers => doc[i].real = Seen(i)
<1>3. Legible(doc) <=> First /\ Separate(doc)
  BY DEF Legible, Separate, Markers
<1> HIDE DEF First
<1> QED
  BY <1>2, <1>3 DEF First

(* Which line of a document a line is, when a gap of it has been filled    *)
(* with m lines.                                                           *)
Stays(doc, b, e, m, j, i) ==
  \/ i \in 1..b /\ j = i
  \/ \E k \in 0..(Len(doc) - e) : j = b + m + 1 + k /\ i = e + k

Moved(doc, out, b, e, m) ==
  /\ \A j \in 1..Len(out) : j \in (b + 1)..(b + m) \/ \E i \in 1..Len(doc) : Stays(doc, b, e, m, j, i)
  /\ \A i \in 1..Len(doc) : i \in (b + 1)..(e - 1) \/ \E j \in 1..Len(out) : Stays(doc, b, e, m, j, i)
  /\ \A j, i : Stays(doc, b, e, m, j, i) =>
       /\ j \in 1..Len(out) /\ i \in 1..Len(doc) /\ out[j] = doc[i]
       /\ \A name : \A kind \in Markers : Reads(out, name, j, kind) <=> Reads(doc, name, i, kind)
  /\ \A j, i, l, k : Stays(doc, b, e, m, j, i) /\ Stays(doc, b, e, m, l, k) => (j < l <=> i < k)
  /\ \A j \in (b + 1)..(b + m) : j \in 1..Len(out) /\ out[j].k \in {"text", "heading", "results"}
  /\ Stays(doc, b, e, m, b, b) /\ Stays(doc, b, e, m, b + m + 1, e)

(* Filling a gap with plain lines moves what follows, as it is.            *)
LEMMA SpliceMoves ==
  ASSUME NEW D, NEW doc \in Seq(D), NEW w \in Seq(D), Plain(w), NEW b, NEW e, Gap(doc, b, e)
  PROVE  Moved(doc, Splice(doc, b, e, w), b, e, Len(w))
<1> DEFINE out == Splice(doc, b, e, w)
           N == Len(doc)
           m == Len(w)
           R == N - e + 1
           S(j, i) == Stays(doc, b, e, m, j, i)
<1>1. b \in 1..N /\ e \in 1..N /\ b < e
  BY DEF Gap
<1>2. Filled(D, doc, b, e, w, out)
  BY <1>1, SpliceIs
<1>3. ASSUME NEW name, NEW kind \in Markers
      PROVE  KeepsMarkers(doc, b, e, m, name, kind, out)
  BY <1>3, ReadsSpliced DEF Markers
<1>4. N \in Nat /\ m \in Nat /\ R \in Nat \ {0} /\ N - e = R - 1 /\ b \in Nat /\ e \in Nat /\ b > 0 /\ e <= N
  BY <1>1
<1> HIDE DEF out
<1>5. /\ Len(out) = b + m + R
      /\ \A i \in 1..b : out[i] = doc[i]
      /\ \A i \in 1..m : out[b + i] = w[i]
      /\ \A i \in 0..(N - e) : out[b + m + 1 + i] = doc[e + i]
  BY <1>2 DEF Filled
<1>6. \A i \in 1..m : w[i].k \in {"text", "heading", "results"}
  BY DEF Plain
<1> HIDE DEF m, R, N
<1>7. ASSUME NEW j \in 1..Len(out) PROVE j \in (b + 1)..(b + m) \/ \E i \in 1..N : S(j, i)
  <2>1. CASE j <= b
    <3>1. j \in 1..b /\ j \in 1..N
      BY <1>1, <1>4, <1>5, <2>1
    <3> QED
      BY <3>1 DEF Stays
  <2>2. CASE j > b /\ j <= b + m
    BY <1>4, <1>5, <2>2
  <2>3. CASE j > b + m
    <3> DEFINE k == j - (b + m + 1)
    <3>1. k \in 0..(N - e) /\ j = b + m + 1 + k /\ e + k \in 1..N
      BY <1>1, <1>4, <1>5, <2>3
    <3> HIDE DEF k
    <3>2. S(j, e + k)
      BY <3>1 DEF Stays, N
    <3> QED
      BY <3>1, <3>2
  <2> QED
    BY <1>4, <1>5, <2>1, <2>2, <2>3
<1>8. ASSUME NEW i \in 1..N PROVE i \in (b + 1)..(e - 1) \/ \E j \in 1..Len(out) : S(j, i)
  <2>1. CASE i <= b
    <3>1. i \in 1..b /\ i \in 1..Len(out)
      BY <1>1, <1>4, <1>5, <2>1
    <3> QED
      BY <3>1 DEF Stays
  <2>2. CASE i > b /\ i < e
    BY <1>1, <1>4, <2>2
  <2>3. CASE i >= e
    <3> DEFINE k == i - e
    <3>1. k \in 0..(N - e) /\ i = e + k /\ b + m + 1 + k \in 1..Len(out)
      BY <1>1, <1>4, <1>5, <2>3
    <3> HIDE DEF k
    <3>2. S(b + m + 1 + k, i)
      BY <3>1 DEF Stays, N
    <3> QED
      BY <3>1, <3>2
  <2> QED
    BY <1>1, <1>4, <2>1, <2>2, <2>3
<1>9. ASSUME NEW j, NEW i, S(j, i)
      PROVE  /\ j \in 1..Len(out) /\ i \in 1..N /\ out[j] = doc[i]
             /\ \A name : \A kind \in Markers : Reads(out, name, j, kind) <=> Reads(doc, name, i, kind)
  <2>1. CASE i \in 1..b /\ j = i
    <3>1. i \in 1..N /\ i \in 1..Len(out)
      BY <1>1, <1>4, <1>5, <2>1
    <3> QED
      BY <1>3, <1>5, <2>1, <3>1 DEF KeepsMarkers
  <2>2. ASSUME NEW k \in 0..(N - e), j = b + m + 1 + k, i = e + k
        PROVE  /\ j \in 1..Len(out) /\ i \in 1..N /\ out[j] = doc[i]
               /\ \A name : \A kind \in Markers : Reads(out, name, j, kind) <=> Reads(doc, name, i, kind)
    <3>1. j \in 1..Len(out) /\ i \in 1..N
      BY <1>1, <1>4, <1>5, <2>2
    <3>2. out[j] = doc[i]
      BY <1>5, <2>2
    <3>3. ASSUME NEW name, NEW kind \in Markers PROVE Reads(out, name, j, kind) <=> Reads(doc, name, i, kind)
      BY <1>3, <2>2 DEF KeepsMarkers, N
    <3> QED
      BY <3>1, <3>2, <3>3
  <2> QED
    BY <1>9, <2>1, <2>2 DEF Stays, N
<1>10. ASSUME NEW j, NEW i, NEW l, NEW k, S(j, i), S(l, k) PROVE j < l <=> i < k
  <2>1. (i \in 1..b /\ j = i) \/ \E n \in 0..(N - e) : j = b + m + 1 + n /\ i = e + n
    BY <1>10 DEF Stays, N
  <2>2. (k \in 1..b /\ l = k) \/ \E n \in 0..(N - e) : l = b + m + 1 + n /\ k = e + n
    BY <1>10 DEF Stays, N
  <2> QED
    BY <1>1, <1>4, <2>1, <2>2
<1>11. ASSUME NEW j \in (b + 1)..(b + m) PROVE j \in 1..Len(out) /\ out[j].k \in {"text", "heading", "results"}
  <2>1. j - b \in 1..m /\ j = b + (j - b) /\ j \in 1..Len(out)
    BY <1>1, <1>4, <1>5
  <2> QED
    BY <1>5, <1>6, <2>1
<1>12. S(b, b) /\ S(b + m + 1, e)
  <2>1. b \in 1..b /\ 0 \in 0..(N - e) /\ b + m + 1 = b + m + 1 + 0 /\ e = e + 0
    BY <1>1, <1>4
  <2> QED
    BY <2>1 DEF Stays, N
<1> HIDE DEF S
<1> QED
  BY <1>7, <1>8, <1>9, <1>10, <1>11, <1>12 DEF Moved, out, S, N, m

(* A section with one pair of markers, in a document that is legible, and  *)
(* the lines put in its place.                                             *)
InPlace(D, doc, name, b, e, w) ==
  /\ doc \in Seq(D) /\ w \in Seq(D) /\ Plain(w)
  /\ b \in 1..Len(doc) /\ e \in 1..Len(doc) /\ b < e
  /\ ReadsOnly(doc, name, "begin", b) /\ ReadsOnly(doc, name, "end", e)
  /\ Legible(doc)

(* The real markers are those the scan reads.                              *)
LEMMA RealIsRead ==
  ASSUME NEW D, NEW doc \in Seq(D), MarkersReal(doc), NEW i \in DOMAIN doc, NEW kind \in Markers, NEW name
  PROVE  RealMarker(doc, i, kind, name) <=> Reads(doc, name, i, kind)
<1>1. Reads(doc, name, i, kind) => doc[i].k = kind /\ doc[i].name = name
  BY DEF Reads, IsMarker
<1>2. doc[i].k = kind /\ doc[i].name = name => doc[i].real = Reads(doc, name, i, kind)
  BY DEF MarkersReal
<1> QED
  BY <1>1, <1>2 DEF RealMarker

(* What is in place stays so.                                              *)
LEMMA SectionInPlace ==
  ASSUME NEW D, NEW doc, NEW name, NEW b, NEW e, NEW w, InPlace(D, doc, name, b, e, w)
  PROVE  /\ Moved(doc, Splice(doc, b, e, w), b, e, Len(w))
         /\ MarkersReal(doc) /\ Separate(doc)
         /\ Splice(doc, b, e, w) \in Seq(D)
         /\ \A i \in DOMAIN doc : /\ RealMarker(doc, i, "begin", name) <=> i = b
                                  /\ RealMarker(doc, i, "end", name) <=> i = e
         /\ \A i \in (b + 1)..(e - 1) : \A kind \in Markers : \A s : i \in DOMAIN doc /\ ~RealMarker(doc, i, kind, s)
<1> USE DEF InPlace
<1>1. MarkersReal(doc) /\ Separate(doc)
  BY LegibleIs
<1>2. /\ \A j \in 1..Len(doc) : Reads(doc, name, j, "begin") <=> j = b
      /\ \A j \in 1..Len(doc) : Reads(doc, name, j, "end") <=> j = e
  BY DEF ReadsOnly, OnlyOne
<1>3. Gap(doc, b, e)
  BY <1>2, GapIs
<1>4. Moved(doc, Splice(doc, b, e, w), b, e, Len(w))
  BY <1>3, SpliceMoves
<1>5. DOMAIN doc = 1..Len(doc) /\ b \in Nat /\ e \in Nat /\ Len(doc) \in Nat
  OBVIOUS
<1>6. ASSUME NEW i \in DOMAIN doc
      PROVE  /\ RealMarker(doc, i, "begin", name) <=> i = b
             /\ RealMarker(doc, i, "end", name) <=> i = e
  BY <1>1, <1>2, <1>5, RealIsRead DEF Markers
<1>7. ASSUME NEW i \in (b + 1)..(e - 1), NEW kind \in Markers, NEW s
      PROVE  i \in DOMAIN doc /\ ~RealMarker(doc, i, kind, s)
  <2>1. i \in DOMAIN doc /\ b < i /\ i < e /\ i # b /\ i # e
    BY <1>5
  <2>2. ~RealMarker(doc, i, "begin", name) /\ ~RealMarker(doc, i, "end", name)
    BY <1>6, <2>1
  <2>3. SUFFICES ASSUME RealMarker(doc, i, kind, s) PROVE FALSE
    BY <2>1
  <2>4. RealMarker(doc, b, "begin", name) /\ RealMarker(doc, e, "end", name)
    BY <1>6
  <2>5. b \in DOMAIN doc /\ e \in DOMAIN doc
    OBVIOUS
  <2>6. doc[i].name = doc[b].name
    BY <1>1, <2>1, <2>3, <2>4, <2>5 DEF Separate, RealMarker
  <2> QED
    BY <2>2, <2>3, <2>4, <2>6 DEF RealMarker, Markers
<1>8. Splice(doc, b, e, w) \in Seq(D)
  <2>1. Filled(D, doc, b, e, w, Splice(doc, b, e, w))
    BY SpliceIs
  <2> QED
    BY <2>1 DEF Filled
<1> QED
  BY <1>1, <1>4, <1>6, <1>7, <1>8

(* The markers outside the gap are real where they were, and those of the  *)
(* document are all outside it.                                            *)
LEMMA RealMoves ==
  ASSUME NEW D, NEW doc, NEW name, NEW b, NEW e, NEW w, InPlace(D, doc, name, b, e, w),
         NEW kind \in Markers, NEW s
  PROVE  /\ \A j \in DOMAIN Splice(doc, b, e, w) : RealMarker(Splice(doc, b, e, w), j, kind, s) =>
              \E i \in DOMAIN doc : Stays(doc, b, e, Len(w), j, i) /\ RealMarker(doc, i, kind, s)
         /\ \A i \in DOMAIN doc : RealMarker(doc, i, kind, s) =>
              \E j \in DOMAIN Splice(doc, b, e, w) :
                Stays(doc, b, e, Len(w), j, i) /\ RealMarker(Splice(doc, b, e, w), j, kind, s)
<1> DEFINE out == Splice(doc, b, e, w)
           m == Len(w)
<1>0. doc \in Seq(D)
  BY DEF InPlace
<1>1. /\ Moved(doc, out, b, e, m)
      /\ doc \in Seq(D) /\ out \in Seq(D)
      /\ \A i \in (b + 1)..(e - 1) : i \in DOMAIN doc /\ ~RealMarker(doc, i, kind, s)
  BY <1>0, SectionInPlace
<1> HIDE DEF out, m
<1>2. DOMAIN out = 1..Len(out) /\ DOMAIN doc = 1..Len(doc)
  BY <1>1
<1>3. ASSUME NEW j, NEW i, Stays(doc, b, e, m, j, i) PROVE RealMarker(out, j, kind, s) <=> RealMarker(doc, i, kind, s)
  BY <1>1, <1>3 DEF Moved, RealMarker
<1>4. ASSUME NEW j \in DOMAIN out, RealMarker(out, j, kind, s)
      PROVE  \E i \in DOMAIN doc : Stays(doc, b, e, m, j, i) /\ RealMarker(doc, i, kind, s)
  <2>1. j \notin (b + 1)..(b + m)
    <3>1. j \in (b + 1)..(b + m) => out[j].k \notin Markers
      BY <1>1 DEF Moved, Markers
    <3> QED
      BY <1>4, <3>1 DEF RealMarker
  <2> QED
    BY <1>1, <1>2, <1>3, <1>4, <2>1 DEF Moved
<1>5. ASSUME NEW i \in DOMAIN doc, RealMarker(doc, i, kind, s)
      PROVE  \E j \in DOMAIN out : Stays(doc, b, e, m, j, i) /\ RealMarker(out, j, kind, s)
  <2>1. i \notin (b + 1)..(e - 1)
    BY <1>1, <1>5
  <2> QED
    BY <1>1, <1>2, <1>3, <1>5, <2>1 DEF Moved
<1> QED
  BY <1>4, <1>5 DEF out, m

(* A document stays legible.                                               *)
LEMMA StaysLegible ==
  ASSUME NEW D, NEW doc, NEW name, NEW b, NEW e, NEW w, InPlace(D, doc, name, b, e, w)
  PROVE  Legible(Splice(doc, b, e, w))
<1> DEFINE out == Splice(doc, b, e, w)
           m == Len(w)
<1>0. doc \in Seq(D)
  BY DEF InPlace
<1>1. /\ Moved(doc, out, b, e, m)
      /\ doc \in Seq(D) /\ out \in Seq(D) /\ MarkersReal(doc) /\ Separate(doc)
  BY <1>0, SectionInPlace
<1> HIDE DEF out, m
<1>2. DOMAIN out = 1..Len(out) /\ DOMAIN doc = 1..Len(doc)
  BY <1>1
<1>3. ASSUME NEW j \in DOMAIN out, out[j].k \in Markers
      PROVE  \E i \in DOMAIN doc : Stays(doc, b, e, m, j, i) /\ out[j] = doc[i]
  <2>1. j \notin (b + 1)..(b + m)
    <3>1. j \in (b + 1)..(b + m) => out[j].k \notin Markers
      BY <1>1 DEF Moved, Markers
    <3> QED
      BY <1>3, <3>1
  <2> QED
    BY <1>1, <1>2, <2>1 DEF Moved
<1>4. MarkersReal(out)
  <2> SUFFICES ASSUME NEW j \in DOMAIN out, out[j].k \in Markers
               PROVE  out[j].real = Reads(out, out[j].name, j, out[j].k)
    BY DEF MarkersReal
  <2>1. PICK i \in DOMAIN doc : Stays(doc, b, e, m, j, i) /\ out[j] = doc[i]
    BY <1>3
  <2>2. doc[i].real = Reads(doc, doc[i].name, i, doc[i].k)
    BY <1>1, <2>1 DEF MarkersReal
  <2> DEFINE kind == out[j].k
             s == out[j].name
  <2>3. kind \in Markers /\ doc[i].name = s /\ doc[i].k = kind
    BY <2>1
  <2> HIDE DEF kind, s
  <2>4. Reads(out, s, j, kind) <=> Reads(doc, s, i, kind)
    BY <1>1, <2>1, <2>3 DEF Moved
  <2>5. Reads(out, s, j, kind) \in BOOLEAN /\ Reads(doc, s, i, kind) \in BOOLEAN
    BY DEF Reads
  <2>6. Reads(out, s, j, kind) = Reads(doc, s, i, kind)
    BY <2>4, <2>5
  <2>7. out[j].real = Reads(out, s, j, kind)
    BY <2>1, <2>2, <2>3, <2>6
  <2> QED
    BY <2>7 DEF s, kind
<1>5. Separate(out)
  <2> SUFFICES ASSUME NEW x \in DOMAIN out, NEW y \in DOMAIN out, NEW z \in DOMAIN out,
                      x < y, y < z, out[x].k = "begin", out[z].k = "end", out[y].k \in Markers,
                      out[x].real, out[y].real, out[z].real, out[x].name = out[z].name
               PROVE  out[y].name = out[x].name
    BY DEF Separate
  <2>1. PICK i \in DOMAIN doc : Stays(doc, b, e, m, x, i) /\ out[x] = doc[i]
    BY <1>3 DEF Markers
  <2>2. PICK k \in DOMAIN doc : Stays(doc, b, e, m, y, k) /\ out[y] = doc[k]
    BY <1>3
  <2>3. PICK l \in DOMAIN doc : Stays(doc, b, e, m, z, l) /\ out[z] = doc[l]
    BY <1>3 DEF Markers
  <2>4. i < k /\ k < l
    BY <1>1, <2>1, <2>2, <2>3 DEF Moved
  <2> QED
    BY <1>1, <2>1, <2>2, <2>3, <2>4 DEF Separate
<1>6. Legible(out)
  BY <1>1, <1>4, <1>5, LegibleIs
<1> QED
  BY <1>6 DEF out

(* The lines outside the gap are in the sections they were in, and the gap *)
(* is in no other section.                                                 *)
LEMMA InsideMoves ==
  ASSUME NEW D, NEW doc, NEW name, NEW b, NEW e, NEW w, InPlace(D, doc, name, b, e, w), NEW s
  PROVE  /\ \A j, i : Stays(doc, b, e, Len(w), j, i) =>
              (j \in Inside(Splice(doc, b, e, w), s) <=> i \in Inside(doc, s))
         /\ s # name => /\ \A i \in (b + 1)..(e - 1) : i \notin Inside(doc, s)
                        /\ \A j \in (b + 1)..(b + Len(w)) : j \notin Inside(Splice(doc, b, e, w), s)
<1> DEFINE out == Splice(doc, b, e, w)
           m == Len(w)
<1>0. doc \in Seq(D) /\ m \in Nat /\ e \in Nat /\ b \in Nat /\ b \in DOMAIN doc /\ e \in DOMAIN doc
  BY DEF InPlace
<1>1. /\ Moved(doc, out, b, e, m)
      /\ doc \in Seq(D) /\ out \in Seq(D) /\ Separate(doc) /\ m \in Nat /\ e \in Nat /\ b \in Nat
      /\ b \in DOMAIN doc /\ e \in DOMAIN doc
      /\ \A i \in DOMAIN doc : /\ RealMarker(doc, i, "begin", name) <=> i = b
                               /\ RealMarker(doc, i, "end", name) <=> i = e
  BY <1>0, SectionInPlace
<1>2. ASSUME NEW kind \in Markers
      PROVE  /\ \A j \in DOMAIN out : RealMarker(out, j, kind, s) =>
                  \E i \in DOMAIN doc : Stays(doc, b, e, m, j, i) /\ RealMarker(doc, i, kind, s)
             /\ \A i \in DOMAIN doc : RealMarker(doc, i, kind, s) =>
                  \E j \in DOMAIN out : Stays(doc, b, e, m, j, i) /\ RealMarker(out, j, kind, s)
  BY RealMoves
<1> HIDE DEF out, m
<1>3. DOMAIN out = 1..Len(out) /\ DOMAIN doc = 1..Len(doc)
  BY <1>1
<1>4. \A x, i, y, k : Stays(doc, b, e, m, x, i) /\ Stays(doc, b, e, m, y, k) => (x < y <=> i < k)
  BY <1>1 DEF Moved
<1>5. ASSUME NEW j, NEW i, Stays(doc, b, e, m, j, i) PROVE j \in Inside(out, s) <=> i \in Inside(doc, s)
  <2>1. j \in DOMAIN out /\ i \in DOMAIN doc
    BY <1>1, <1>3, <1>5 DEF Moved
  <2>2. ASSUME j \in Inside(out, s) PROVE i \in Inside(doc, s)
    <3>1. PICK x \in DOMAIN out : \E y \in DOMAIN out :
                 x < j /\ j < y /\ RealMarker(out, x, "begin", s) /\ RealMarker(out, y, "end", s)
      BY <2>2 DEF Inside
    <3>2. PICK y \in DOMAIN out : x < j /\ j < y /\ RealMarker(out, x, "begin", s) /\ RealMarker(out, y, "end", s)
      BY <3>1
    <3>3. PICK k \in DOMAIN doc : Stays(doc, b, e, m, x, k) /\ RealMarker(doc, k, "begin", s)
      BY <1>2, <3>2 DEF Markers
    <3>4. PICK l \in DOMAIN doc : Stays(doc, b, e, m, y, l) /\ RealMarker(doc, l, "end", s)
      BY <1>2, <3>2 DEF Markers
    <3>5. k < i /\ i < l
      BY <1>4, <1>5, <3>2, <3>3, <3>4
    <3> QED
      BY <2>1, <3>3, <3>4, <3>5 DEF Inside
  <2>3. ASSUME i \in Inside(doc, s) PROVE j \in Inside(out, s)
    <3>1. PICK k \in DOMAIN doc : \E l \in DOMAIN doc :
                 k < i /\ i < l /\ RealMarker(doc, k, "begin", s) /\ RealMarker(doc, l, "end", s)
      BY <2>3 DEF Inside
    <3>2. PICK l \in DOMAIN doc : k < i /\ i < l /\ RealMarker(doc, k, "begin", s) /\ RealMarker(doc, l, "end", s)
      BY <3>1
    <3>3. PICK x \in DOMAIN out : Stays(doc, b, e, m, x, k) /\ RealMarker(out, x, "begin", s)
      BY <1>2, <3>2 DEF Markers
    <3>4. PICK y \in DOMAIN out : Stays(doc, b, e, m, y, l) /\ RealMarker(out, y, "end", s)
      BY <1>2, <3>2 DEF Markers
    <3>5. x < j /\ j < y
      BY <1>4, <1>5, <3>2, <3>3, <3>4
    <3> QED
      BY <2>1, <3>3, <3>4, <3>5 DEF Inside
  <2> QED
    BY <2>2, <2>3
<1>6. ASSUME s # name, NEW k \in DOMAIN doc, NEW l \in DOMAIN doc,
             RealMarker(doc, k, "begin", s), RealMarker(doc, l, "end", s), k <= b, b < l
      PROVE  FALSE
  <2>1. RealMarker(doc, b, "begin", name)
    BY <1>1
  <2>2. k # b /\ k \in Nat /\ b \in Nat
    BY <1>1, <1>3, <1>6, <2>1 DEF RealMarker
  <2>3. k < b
    BY <1>6, <2>2
  <2>4. doc[b].name = doc[k].name
    BY <1>1, <1>6, <2>1, <2>3 DEF Separate, RealMarker, Markers
  <2> QED
    BY <1>6, <2>1, <2>4 DEF RealMarker
<1>7. ASSUME s # name, NEW i \in (b + 1)..(e - 1) PROVE i \notin Inside(doc, s)
  <2> SUFFICES ASSUME i \in Inside(doc, s) PROVE FALSE
    OBVIOUS
  <2>1. PICK k \in DOMAIN doc : \E l \in DOMAIN doc :
               k < i /\ i < l /\ RealMarker(doc, k, "begin", s) /\ RealMarker(doc, l, "end", s)
    BY DEF Inside
  <2>2. PICK l \in DOMAIN doc : k < i /\ i < l /\ RealMarker(doc, k, "begin", s) /\ RealMarker(doc, l, "end", s)
    BY <2>1
  <2>3. k \notin (b + 1)..(e - 1)
    <3>1. \A x \in (b + 1)..(e - 1) : ~RealMarker(doc, x, "begin", s)
      BY SectionInPlace DEF Markers
    <3> QED
      BY <2>2, <3>1
  <2>4. k \in Nat /\ l \in Nat /\ i \in Nat /\ b < i /\ i < e
    BY <1>1, <1>3
  <2>5. k <= b /\ b < l
    BY <1>1, <2>2, <2>3, <2>4
  <2> QED
    BY <1>6, <1>7, <2>2, <2>5
<1>8. ASSUME s # name, NEW j \in (b + 1)..(b + m) PROVE j \notin Inside(out, s)
  <2> SUFFICES ASSUME j \in Inside(out, s) PROVE FALSE
    OBVIOUS
  <2>1. PICK x \in DOMAIN out : \E y \in DOMAIN out :
               x < j /\ j < y /\ RealMarker(out, x, "begin", s) /\ RealMarker(out, y, "end", s)
    BY DEF Inside
  <2>2. PICK y \in DOMAIN out : x < j /\ j < y /\ RealMarker(out, x, "begin", s) /\ RealMarker(out, y, "end", s)
    BY <2>1
  <2>3. PICK k \in DOMAIN doc : Stays(doc, b, e, m, x, k) /\ RealMarker(doc, k, "begin", s)
    BY <1>2, <2>2 DEF Markers
  <2>4. PICK l \in DOMAIN doc : Stays(doc, b, e, m, y, l) /\ RealMarker(doc, l, "end", s)
    BY <1>2, <2>2 DEF Markers
  <2>5. Stays(doc, b, e, m, b, b) /\ Stays(doc, b, e, m, b + m + 1, e)
    BY <1>1 DEF Moved
  <2>6. x \in Nat /\ y \in Nat /\ j \in Nat /\ b < j /\ j < b + m + 1 /\ k \in Nat /\ l \in Nat
    BY <1>1, <1>3
  <2>7. b < y /\ x < b + m + 1
    BY <1>1, <2>2, <2>6
  <2>8. b < l /\ k < e
    BY <1>4, <2>3, <2>4, <2>5, <2>7
  <2>9. k \notin (b + 1)..(e - 1)
    <3>1. \A i \in (b + 1)..(e - 1) : ~RealMarker(doc, i, "begin", s)
      BY SectionInPlace DEF Markers
    <3> QED
      BY <2>3, <3>1
  <2>10. k <= b
    BY <1>1, <2>6, <2>8, <2>9
  <2> QED
    BY <1>6, <1>8, <2>3, <2>4, <2>8, <2>10
<1> QED
  BY <1>5, <1>7, <1>8 DEF out, m

(* The section itself is the gap.                                          *)
LEMMA InsideGap ==
  ASSUME NEW D, NEW doc, NEW name, NEW b, NEW e, NEW w, InPlace(D, doc, name, b, e, w)
  PROVE  /\ Inside(doc, name) = (b + 1)..(e - 1)
         /\ Inside(Splice(doc, b, e, w), name) = (b + 1)..(b + Len(w))
<1> DEFINE out == Splice(doc, b, e, w)
           m == Len(w)
<1>0. doc \in Seq(D) /\ m \in Nat /\ e \in Nat /\ b \in Nat /\ b \in DOMAIN doc /\ e \in DOMAIN doc
  BY DEF InPlace
<1>1. /\ Moved(doc, out, b, e, m)
      /\ doc \in Seq(D) /\ out \in Seq(D) /\ m \in Nat /\ e \in Nat /\ b \in Nat
      /\ b \in DOMAIN doc /\ e \in DOMAIN doc
      /\ \A i \in DOMAIN doc : /\ RealMarker(doc, i, "begin", name) <=> i = b
                               /\ RealMarker(doc, i, "end", name) <=> i = e
  BY <1>0, SectionInPlace
<1>2. ASSUME NEW kind \in Markers
      PROVE  /\ \A j \in DOMAIN out : RealMarker(out, j, kind, name) =>
                  \E i \in DOMAIN doc : Stays(doc, b, e, m, j, i) /\ RealMarker(doc, i, kind, name)
             /\ \A i \in DOMAIN doc : RealMarker(doc, i, kind, name) =>
                  \E j \in DOMAIN out : Stays(doc, b, e, m, j, i) /\ RealMarker(out, j, kind, name)
  BY RealMoves
<1> HIDE DEF out, m
<1>3. DOMAIN out = 1..Len(out) /\ DOMAIN doc = 1..Len(doc) /\ Len(doc) \in Nat /\ Len(out) \in Nat
  BY <1>1
<1>4. Stays(doc, b, e, m, b, b) /\ Stays(doc, b, e, m, b + m + 1, e)
  BY <1>1 DEF Moved
<1>5. \A x, y, i : Stays(doc, b, e, m, x, i) /\ Stays(doc, b, e, m, y, i) => x \in 1..Len(out) /\ y \in 1..Len(out) /\ ~(x < y)
  <2>1. \A x, y, i : Stays(doc, b, e, m, x, i) /\ Stays(doc, b, e, m, y, i) =>
          x \in 1..Len(out) /\ y \in 1..Len(out) /\ i \in 1..Len(doc) /\ (x < y <=> i < i)
    BY <1>1 DEF Moved
  <2>2. \A i \in 1..Len(doc) : ~(i < i)
    OBVIOUS
  <2> QED
    BY <2>1, <2>2
<1>6. ASSUME NEW x, NEW y, NEW i, Stays(doc, b, e, m, x, i), Stays(doc, b, e, m, y, i) PROVE x = y
  <2>1. x \in 1..Len(out) /\ y \in 1..Len(out) /\ ~(x < y) /\ ~(y < x)
    BY <1>5, <1>6
  <2> QED
    BY <2>1
<1>7. \A j \in DOMAIN out : /\ RealMarker(out, j, "begin", name) <=> j = b
                            /\ RealMarker(out, j, "end", name) <=> j = b + m + 1
  <2>1. ASSUME NEW j \in DOMAIN out, RealMarker(out, j, "begin", name) PROVE j = b
    <3>1. PICK i \in DOMAIN doc : Stays(doc, b, e, m, j, i) /\ RealMarker(doc, i, "begin", name)
      BY <1>2, <2>1 DEF Markers
    <3> QED
      BY <1>1, <1>4, <1>6, <3>1
  <2>2. ASSUME NEW j \in DOMAIN out, RealMarker(out, j, "end", name) PROVE j = b + m + 1
    <3>1. PICK i \in DOMAIN doc : Stays(doc, b, e, m, j, i) /\ RealMarker(doc, i, "end", name)
      BY <1>2, <2>2 DEF Markers
    <3>2. i = e
      BY <1>1, <3>1
    <3> QED
      BY <1>4, <1>6, <3>1, <3>2
  <2>3. RealMarker(out, b, "begin", name)
    <3>1. PICK j \in DOMAIN out : Stays(doc, b, e, m, j, b) /\ RealMarker(out, j, "begin", name)
      BY <1>1, <1>2 DEF Markers
    <3> QED
      BY <2>1, <3>1
  <2>4. RealMarker(out, b + m + 1, "end", name)
    <3>1. PICK j \in DOMAIN out : Stays(doc, b, e, m, j, e) /\ RealMarker(out, j, "end", name)
      BY <1>1, <1>2 DEF Markers
    <3> QED
      BY <2>2, <3>1
  <2> QED
    BY <2>1, <2>2, <2>3, <2>4
<1>8. b \in DOMAIN out /\ b + m + 1 \in DOMAIN out
  BY <1>1, <1>3, <1>4 DEF Moved
<1>9. Inside(doc, name) = (b + 1)..(e - 1)
  <2>1. Inside(doc, name) = {i \in DOMAIN doc : b < i /\ i < e}
    BY <1>1 DEF Inside
  <2> QED
    BY <1>1, <1>3, <2>1
<1>10. Inside(out, name) = (b + 1)..(b + m)
  <2>1. Inside(out, name) = {j \in DOMAIN out : b < j /\ j < b + m + 1}
    <3> DEFINE f == b + m + 1
    <3>1. /\ \A j \in DOMAIN out : RealMarker(out, j, "begin", name) <=> j = b
          /\ \A j \in DOMAIN out : RealMarker(out, j, "end", name) <=> j = f
          /\ f \in DOMAIN out
      BY <1>7, <1>8
    <3> HIDE DEF f
    <3>2. Inside(out, name) = {j \in DOMAIN out : b < j /\ j < f}
      BY <1>8, <3>1 DEF Inside
    <3> QED
      BY <3>2 DEF f
  <2> QED
    BY <1>1, <1>3, <1>8, <2>1
<1> QED
  BY <1>9, <1>10 DEF out, m

(* A section put in the place of another one is that section, and changes  *)
(* nothing else: the other sections are there, with what they hold, and so *)
(* are the lines outside of all of them.                                   *)
LEMMA OnlyTheSection ==
  ASSUME NEW D, NEW doc, NEW name, NEW b, NEW e, NEW w, InPlace(D, doc, name, b, e, w)
  PROVE  /\ SectionsIn(Splice(doc, b, e, w)) = SectionsIn(doc)
         /\ SectionOf(Splice(doc, b, e, w), name) = w
         /\ \A s : s # name => SectionOf(Splice(doc, b, e, w), s) = SectionOf(doc, s)
         /\ Outside(Splice(doc, b, e, w)) = Outside(doc)
<1> DEFINE out == Splice(doc, b, e, w)
           m == Len(w)
<1>1. /\ doc \in Seq(D) /\ w \in Seq(D) /\ b \in 1..Len(doc) /\ e \in 1..Len(doc) /\ b < e
  BY DEF InPlace
<1>2. /\ Moved(doc, out, b, e, m)
      /\ out \in Seq(D)
      /\ \A i \in DOMAIN doc : RealMarker(doc, i, "begin", name) <=> i = b
  BY SectionInPlace
<1>3. SectionOf(out, name) = w
  <2>1. Inside(out, name) = (b + 1)..(b + m)
    BY InsideGap
  <2> QED
    BY <1>1, <2>1, LinesFilled DEF SectionOf
<1>4. SectionsIn(out) = SectionsIn(doc)
  <2>1. ASSUME NEW s
        PROVE  (\E j \in DOMAIN out : RealMarker(out, j, "begin", s)) <=>
                 \E i \in DOMAIN doc : RealMarker(doc, i, "begin", s)
    <3>1. "begin" \in Markers
      BY DEF Markers
    <3> QED
      BY <3>1, RealMoves
  <2>2. \A d, s : s \in SectionsIn(d) <=> \E i \in DOMAIN d : RealMarker(d, i, "begin", s)
    BY DEF SectionsIn, RealMarker
  <2> HIDE DEF out
  <2>3. \A s : s \in SectionsIn(out) <=> s \in SectionsIn(doc)
    BY <2>1, <2>2
  <2> DEFINE X == SectionsIn(out)
             Y == SectionsIn(doc)
  <2>4. X \subseteq Y /\ Y \subseteq X
    BY <2>3
  <2> HIDE DEF X, Y
  <2>5. X = Y
    BY <2>4
  <2> QED
    BY <2>5 DEF X, Y
<1>5. /\ \A i \in 1..b : Stays(doc, b, e, m, i, i)
      /\ \A i \in 0..(Len(doc) - e) : Stays(doc, b, e, m, b + m + 1 + i, e + i)
  BY DEF Stays
<1>6. m \in Nat /\ \A i \in 1..m : b + i \in (b + 1)..(b + m)
  BY <1>1
<1>7. \A i \in (b + 1)..(e - 1) : i \in 1..Len(doc)
  BY <1>1
<1>8. ASSUME NEW s, s # name PROVE SectionOf(out, s) = SectionOf(doc, s)
  <2> DEFINE W == Inside(out, s)
             V == Inside(doc, s)
  <2>1. /\ \A j, i : Stays(doc, b, e, m, j, i) => (j \in W <=> i \in V)
        /\ \A i \in (b + 1)..(e - 1) : i \notin V
        /\ \A j \in (b + 1)..(b + m) : j \notin W
    BY <1>8, InsideMoves
  <2> HIDE DEF W, V
  <2>2. SameKept(doc, b, e, m, V, W)
    <3> HIDE DEF m, out
    <3> QED
      BY <1>5, <1>6, <2>1 DEF SameKept
  <2>3. LinesAt(out, W) = LinesAt(doc, V)
    BY <1>1, <2>2, LinesSpliced
  <2> QED
    BY <2>3 DEF W, V, SectionOf
<1>9. Outside(out) = Outside(doc)
  <2> DEFINE Sections == SectionsIn(doc)
             W == DOMAIN out \ UNION {Inside(out, s) : s \in Sections}
             V == DOMAIN doc \ UNION {Inside(doc, s) : s \in Sections}
  <2>0. DOMAIN out = 1..Len(out) /\ DOMAIN doc = 1..Len(doc)
    BY <1>1, <1>2
  <2>1. name \in Sections
    BY <1>1, <1>2, <2>0 DEF SectionsIn, RealMarker
  <2>2. ASSUME NEW j, NEW i, Stays(doc, b, e, m, j, i) PROVE j \in W <=> i \in V
    <3>1. j \in DOMAIN out /\ i \in DOMAIN doc
      BY <1>2, <2>0, <2>2 DEF Moved
    <3>2. \A s : j \in Inside(out, s) <=> i \in Inside(doc, s)
      BY <2>2, InsideMoves
    <3> HIDE DEF Sections, out
    <3> QED
      BY <3>1, <3>2
  <2>3. Inside(doc, name) = (b + 1)..(e - 1) /\ Inside(out, name) = (b + 1)..(b + m)
    BY InsideGap
  <2>4. (\A i \in (b + 1)..(e - 1) : i \notin V) /\ (\A j \in (b + 1)..(b + m) : j \notin W)
    <3> HIDE DEF Sections, out
    <3> QED
      BY <2>1, <2>3
  <2> HIDE DEF W, V
  <2>5. SameKept(doc, b, e, m, V, W)
    <3> HIDE DEF m, out
    <3> QED
      BY <1>5, <1>6, <2>2, <2>4 DEF SameKept
  <2>6. LinesAt(out, W) = LinesAt(doc, V)
    BY <1>1, <2>5, LinesSpliced
  <2> QED
    BY <1>4, <2>6 DEF W, V, Outside
<1> QED
  BY <1>3, <1>4, <1>8, <1>9

-----------------------------------------------------------------------------
(* Documents that stay legible.                                            *)

(* The level of the heading a section is under.                            *)
LEMMA ParentIs ==
  ASSUME NEW D, NEW doc \in Seq(D), HeadingLevels(doc), NEW name
  PROVE  LevelBelow(Scan(doc, name).parent) \in 2..6
<1> DEFINE P(i) == Scanned(doc, name)[i].parent
           N == Len(doc)
           Good == {i \in 0..N : P(i) \in 0..6}
<1>1. N \in Nat
  OBVIOUS
<1>2. 0 \in Good
  BY <1>1, ScanIs DEF Unscanned
<1>3. ASSUME NEW i \in 1..N, i - 1 \in Good PROVE i \in Good
  <2>1. i \in 0..N /\ doc[i] \in D /\ i - 1 \in 0..N /\ P(i - 1) \in 0..6
    BY <1>3
  <2> DEFINE s == Scanned(doc, name)[i - 1]
             l == doc[i]
  <2>2. s \in ScanStates(D) /\ s.parent \in 0..6
    BY <2>1, ScanIs
  <2>3. Scanned(doc, name)[i] = IF i \in FrontMatter(doc) THEN s ELSE ScanLine(s, l, i, name)
    BY ScanIs
  <2>4. l.k = "heading" => l.level \in 1..6
    BY DEF HeadingLevels
  <2> HIDE DEF s, l
  <2>5. ScanLine(s, l, i, name).parent \in 0..6
    <3>1. s = [fence |-> s.fence, begin |-> s.begin, end |-> s.end, parent |-> s.parent]
      BY <2>2 DEF ScanStates
    <3>2. ScanLine(s, l, i, name).parent = s.parent \/ (l.k = "heading" /\ ScanLine(s, l, i, name).parent = l.level)
      BY <3>1 DEF ScanLine, Fence, Level
    <3> QED
      BY <2>2, <2>4, <3>2
  <2> QED
    BY <2>1, <2>2, <2>3, <2>5
<1> HIDE DEF Good
<1>4. \A i \in 0..N : i \in Good
  BY <1>1, <1>2, <1>3, AllAlong
<1>5. N \in Good
  BY <1>1, <1>4
<1> DEFINE p == Scan(doc, name).parent
<1>6. p \in 0..6
  BY <1>5 DEF Good, Scan
<1> HIDE DEF p
<1>7. ASSUME p # 0 PROVE Min({p + 1, 6}) \in 2..6
  <2>1. Min({p + 1, 6}) = IF p + 1 <= 6 THEN p + 1 ELSE 6
    BY <1>6 DEF Min
  <2> QED
    BY <1>6, <1>7, <2>1
<1> QED
  BY <1>7 DEF LevelBelow, p

(* The headings of a section have levels too.                              *)
LEMMA SectionLevels ==
  ASSUME PlainDescription, NEW level \in 2..6, NEW r, NEW D, WholeSection(level, r) \in Seq(D)
  PROVE  HeadingLevels(WholeSection(level, r))
<1> DEFINE h1 == [k |-> "heading", level |-> level]
           h2 == [k |-> "heading", level |-> Min({level + 1, 6})]
           w == WholeSection(level, r)
<1>1. Min({level + 1, 6}) \in 1..6
  <2>1. Min({level + 1, 6}) = IF level + 1 <= 6 THEN level + 1 ELSE 6
    BY DEF Min
  <2> QED
    BY <2>1
<1>2. \A i \in DOMAIN w : w[i].k = "heading" => w[i] \in {h1, Description, h2}
  <2> DEFINE rs == [k |-> "results", run |-> r]
  <2>1. w = <<Blank, h1, Description, h2, rs, Blank>>
    BY SectionIs
  <2>2. rs.k = "results" /\ Blank.k = "text"
    BY DEF Blank
  <2> HIDE DEF h1, h2, rs, w
  <2> QED
    BY <2>1, <2>2
<1>3. h1.level \in 1..6 /\ h2.level \in 1..6 /\ (Description.k = "heading" => Description.level \in 1..6)
  BY <1>1, SectionAssumption
<1> HIDE DEF h1, h2, w
<1> QED
  BY <1>2, <1>3 DEF HeadingLevels, w

(* A document is a sequence of lines.                                      *)
IsDocument(doc) == \E E : doc \in Seq(E)

(* A document that the scan takes for what it is.                          *)
Clear(doc) == IsDocument(doc) /\ Legible(doc) /\ HeadingLevels(doc)

(* What is changed in a document when a section of it is replaced.         *)
Replaced(doc, out, name, r) ==
  /\ SectionsIn(out) = SectionsIn(doc) /\ Outside(out) = Outside(doc)
  /\ \E level \in 2..6 : SectionOf(out, name) = WholeSection(level, r)
  /\ \A s : s # name => SectionOf(out, s) = SectionOf(doc, s)

(* A section put in place of another leaves the document clear, and the
   other sections as they were.                                            *)
LEMMA ClearReplaced ==
  ASSUME PlainDescription, NEW doc, Clear(doc), NEW name, NEW r, ReplaceSection(doc, name, r) # <<>>
  PROVE  /\ Clear(ReplaceSection(doc, name, r))
         /\ Replaced(doc, ReplaceSection(doc, name, r), name, r)
<1>1. PICK E : doc \in Seq(E)
  BY DEF Clear, IsDocument
<1>2. PICK b \in 1..Len(doc) : \E e \in 1..Len(doc) :
             b < e /\ ReadsOnly(doc, name, "begin", b) /\ ReadsOnly(doc, name, "end", e)
  BY <1>1, ReplaceIs
<1>3. PICK e \in 1..Len(doc) : b < e /\ ReadsOnly(doc, name, "begin", b) /\ ReadsOnly(doc, name, "end", e)
  BY <1>2
<1> DEFINE level == LevelBelow(Scan(doc, name).parent)
<1>4. level \in 2..6
  BY <1>1, ParentIs DEF Clear
<1>5. ReplaceSection(doc, name, r) = Splice(doc, b, e, WholeSection(level, r))
  BY <1>1, <1>3, ReplaceIs
<1> HIDE DEF level
<1> DEFINE w == WholeSection(level, r)
           D == E \cup Range(w)
           out == Splice(doc, b, e, w)
<1>6. w \in Seq(D) /\ Plain(w) /\ doc \in Seq(D)
  <2>1. doc \in Seq(D)
    BY <1>1
  <2> HIDE DEF D
  <2>2. D = E \cup Range(WholeSection(level, r))
    BY DEF D
  <2> QED
    BY <2>1, <2>2, SectionLines
<1> HIDE DEF D
<1>7. InPlace(D, doc, name, b, e, w)
  BY <1>3, <1>6 DEF InPlace, Clear
<1>8. HeadingLevels(w)
  BY <1>4, <1>6, SectionLevels
<1> HIDE DEF w
<1>9. Legible(out) /\ out \in Seq(D)
  BY <1>7, StaysLegible, SectionInPlace
<1>10. HeadingLevels(out)
  <2>1. Filled(D, doc, b, e, w, out)
    BY <1>6, SpliceIs
  <2> HIDE DEF out
  <2> DEFINE m == Len(w)
  <2>2. /\ Len(out) = b + m + (Len(doc) - e + 1)
        /\ \A i \in 1..b : out[i] = doc[i]
        /\ \A i \in 1..m : out[b + i] = w[i]
        /\ \A i \in 0..(Len(doc) - e) : out[b + m + 1 + i] = doc[e + i]
    BY <2>1 DEF Filled
  <2>3. m \in Nat /\ DOMAIN w = 1..m /\ DOMAIN doc = 1..Len(doc) /\ DOMAIN out = 1..Len(out) /\ Len(doc) \in Nat
    BY <1>6, <1>9
  <2> HIDE DEF m
  <2>4. ASSUME NEW j \in DOMAIN out
        PROVE  (\E i \in DOMAIN doc : out[j] = doc[i]) \/ \E i \in DOMAIN w : out[j] = w[i]
    <3>1. CASE j <= b
      BY <2>2, <2>3, <3>1
    <3>2. CASE j > b /\ j <= b + m
      <4>1. j - b \in 1..m /\ j = b + (j - b)
        BY <2>3, <3>2
      <4> QED
        BY <2>2, <2>3, <4>1
    <3>3. CASE j > b + m
      <4> DEFINE k == j - (b + m + 1)
      <4>1. k \in 0..(Len(doc) - e) /\ j = b + m + 1 + k /\ e + k \in 1..Len(doc)
        <5> DEFINE L == Len(doc)
        <5>1. L \in Nat /\ e \in 1..L /\ b \in 1..L /\ m \in Nat
          BY <2>3
        <5>2. j \in 1..(b + m + (L - e + 1)) /\ j > b + m
          BY <2>2, <2>3, <3>3
        <5> HIDE DEF L
        <5>3. k \in 0..(L - e) /\ j = b + m + 1 + k /\ e + k \in 1..L
          BY <5>1, <5>2
        <5> QED
          BY <5>3 DEF L
      <4> HIDE DEF k
      <4> QED
        BY <2>2, <2>3, <4>1
    <3> QED
      BY <2>3, <3>1, <3>2, <3>3
  <2> HIDE DEF out
  <2> QED
    BY <1>8, <2>4 DEF HeadingLevels, Clear
<1>11. Clear(out)
  BY <1>9, <1>10 DEF Clear, IsDocument
<1>12. Replaced(doc, out, name, r)
  <2>1. /\ SectionsIn(out) = SectionsIn(doc) /\ Outside(out) = Outside(doc)
        /\ SectionOf(out, name) = w
        /\ \A s : s # name => SectionOf(out, s) = SectionOf(doc, s)
    BY <1>7, OnlyTheSection
  <2> HIDE DEF out
  <2> QED
    BY <1>4, <2>1 DEF Replaced, w
<1> QED
  BY <1>5, <1>11, <1>12 DEF out, w

(* A line that writeFile writes.                                           *)
Written(l) == l.k \notin {"front", "fence", "begin", "end", "heading"}

(* It does not change what the scan takes the lines before it for.         *)
LEMMA ClearAppended ==
  ASSUME NEW doc, Clear(doc), NEW l, Written(l)
  PROVE  Clear(doc \o <<l>>)
<1>1. PICK E : doc \in Seq(E)
  BY DEF Clear, IsDocument
<1> DEFINE D == E \cup {l}
           one == <<l>>
           N == Len(doc)
           out == doc \o one
<1>2. doc \in Seq(D) /\ one \in Seq(D) /\ Len(one) = 1 /\ one[1] = l
  BY <1>1
<1> HIDE DEF one, D
<1>3. /\ out \in Seq(D) /\ Len(out) = N + 1
      /\ \A i \in 1..N : out[i] = doc[i]
      /\ out[N + 1] = l
  <2>1. /\ out \in Seq(D) /\ Len(out) = Len(doc) + Len(one)
        /\ \A i \in 1..(Len(doc) + Len(one)) : out[i] = IF i <= Len(doc) THEN doc[i] ELSE one[i - Len(doc)]
    BY <1>2, ConcatProperties
  <2>2. N \in Nat
    BY <1>2
  <2> HIDE DEF out
  <2>3. N + 1 \in 1..(Len(doc) + Len(one)) /\ ~(N + 1 <= Len(doc)) /\ (N + 1) - Len(doc) = 1
    BY <1>2, <2>2
  <2> QED
    BY <1>2, <2>1, <2>2, <2>3
<1>4. N \in Nat /\ DOMAIN doc = 1..N
  BY <1>2
<1> HIDE DEF out, N
<1>5. DOMAIN out = 1..(N + 1)
  BY <1>3
<1>6. ASSUME NEW i \in 1..N PROVE i \in FrontMatter(out) <=> i \in FrontMatter(doc)
  <2> DEFINE Ends(d, m) == i <= m /\ d[m] = d[1] /\ \A n \in 2..(m - 1) : d[n] # d[1]
  <2>1. i \in FrontMatter(doc) <=> doc[1].k = "front" /\ \E m \in 2..N : Ends(doc, m)
    BY <1>2, FrontIs DEF N
  <2>2. i \in FrontMatter(out) <=> out[1].k = "front" /\ \E m \in 2..(N + 1) : Ends(out, m)
    <3>1. i \in 1..Len(out)
      BY <1>3, <1>4
    <3>2. i \in FrontMatter(out) <=> out[1].k = "front" /\ \E m \in 2..Len(out) : Ends(out, m)
      BY <1>3, <3>1, FrontIs
    <3> QED
      BY <1>3, <3>2
  <2>3. out[1] = doc[1]
    BY <1>3, <1>4
  <2>4. ASSUME NEW m \in 2..N PROVE Ends(out, m) <=> Ends(doc, m)
    <3>1. \A n \in 2..m : n \in 1..N
      BY <1>4
    <3>2. \A n \in 2..m : out[n] = doc[n]
      BY <1>3, <3>1
    <3>3. m \in 2..m /\ \A n \in 2..(m - 1) : n \in 2..m
      BY <1>4
    <3> QED
      BY <2>3, <3>2, <3>3
  <2>5. out[1].k = "front" => ~Ends(out, N + 1)
    BY <1>3 DEF Written
  <2>6. \A m \in 2..(N + 1) : m \in 2..N \/ m = N + 1
    BY <1>4
  <2>7. \A m \in 2..N : m \in 2..(N + 1)
    BY <1>4
  <2> HIDE DEF Ends
  <2> QED
    BY <2>1, <2>2, <2>3, <2>4, <2>5, <2>6, <2>7
<1>7. ASSUME NEW name, NEW i \in 0..N PROVE Scanned(out, name)[i] = Scanned(doc, name)[i]
  <2> DEFINE A(n) == Scanned(doc, name)[n]
             O(n) == Scanned(out, name)[n]
             Good == {n \in 0..N : O(n) = A(n)}
  <2>1. O(0) = A(0)
    BY <1>2, <1>3, ScanIs
  <2>2. ASSUME NEW n \in 1..N
        PROVE  /\ O(n) = IF n \in FrontMatter(doc) THEN O(n - 1) ELSE ScanLine(O(n - 1), doc[n], n, name)
               /\ A(n) = IF n \in FrontMatter(doc) THEN A(n - 1) ELSE ScanLine(A(n - 1), doc[n], n, name)
    <3>1. n \in 1..Len(out) /\ n \in 1..Len(doc) /\ out[n] = doc[n]
      BY <1>3, <1>4 DEF N
    <3>2. Scanned(out, name)[n] =
            IF n \in FrontMatter(out) THEN Scanned(out, name)[n - 1]
            ELSE ScanLine(Scanned(out, name)[n - 1], out[n], n, name)
      BY <1>3, <3>1, ScanIs
    <3>3. Scanned(doc, name)[n] =
            IF n \in FrontMatter(doc) THEN Scanned(doc, name)[n - 1]
            ELSE ScanLine(Scanned(doc, name)[n - 1], doc[n], n, name)
      BY <1>2, <3>1, ScanIs
    <3> QED
      BY <1>6, <3>1, <3>2, <3>3
  <2> HIDE DEF O, A
  <2>3. 0 \in Good
    BY <1>4, <2>1
  <2>4. ASSUME NEW n \in 1..N, n - 1 \in Good PROVE n \in Good
    BY <1>4, <2>2, <2>4
  <2> HIDE DEF Good
  <2>5. \A n \in 0..N : n \in Good
    BY <1>4, <2>3, <2>4, AllAlong
  <2> QED
    BY <2>5 DEF Good, O, A
<1>8. ASSUME NEW name, NEW kind, NEW i \in 1..N PROVE Reads(out, name, i, kind) <=> Reads(doc, name, i, kind)
  <2>1. i - 1 \in 0..N /\ i \in 1..Len(out) /\ i \in 1..Len(doc) /\ out[i] = doc[i]
    BY <1>3, <1>4 DEF N
  <2>2. Scanned(out, name)[i - 1] = Scanned(doc, name)[i - 1]
    <3> DEFINE h == i - 1
    <3>1. h \in 0..N
      BY <2>1
    <3> HIDE DEF h
    <3>2. Scanned(out, name)[h] = Scanned(doc, name)[h]
      BY <1>7, <3>1
    <3> QED
      BY <3>2 DEF h
  <2> QED
    BY <1>6, <2>1, <2>2 DEF Reads
<1>9. \A j \in DOMAIN out : out[j].k \in Markers => j \in DOMAIN doc /\ j \in 1..N /\ out[j] = doc[j]
  <2> SUFFICES ASSUME NEW j \in DOMAIN out, out[j].k \in Markers PROVE j \in DOMAIN doc /\ j \in 1..N /\ out[j] = doc[j]
    OBVIOUS
  <2>1. j # N + 1
    BY <1>3 DEF Written, Markers
  <2>2. j \in 1..N
    BY <1>4, <1>5, <2>1
  <2> QED
    BY <1>3, <1>4, <2>2
<1>10. MarkersReal(doc) /\ Separate(doc)
  BY <1>2, LegibleIs DEF Clear
<1>11. MarkersReal(out)
  <2> SUFFICES ASSUME NEW j \in DOMAIN out, out[j].k \in Markers
               PROVE  out[j].real = Reads(out, out[j].name, j, out[j].k)
    BY DEF MarkersReal
  <2>1. j \in DOMAIN doc /\ j \in 1..N /\ out[j] = doc[j]
    BY <1>9
  <2>2. out[j].real = Reads(doc, out[j].name, j, out[j].k)
    BY <1>10, <2>1 DEF MarkersReal
  <2>3. Reads(out, out[j].name, j, out[j].k) <=> Reads(doc, out[j].name, j, out[j].k)
    BY <1>8, <2>1
  <2>4. Reads(out, out[j].name, j, out[j].k) \in BOOLEAN /\ Reads(doc, out[j].name, j, out[j].k) \in BOOLEAN
    BY DEF Reads
  <2> QED
    BY <2>2, <2>3, <2>4
<1>12. Separate(out)
  <2> SUFFICES ASSUME NEW x \in DOMAIN out, NEW y \in DOMAIN out, NEW z \in DOMAIN out,
                      x < y, y < z, out[x].k = "begin", out[z].k = "end", out[y].k \in Markers,
                      out[x].real, out[y].real, out[z].real, out[x].name = out[z].name
               PROVE  out[y].name = out[x].name
    BY DEF Separate
  <2>1. /\ x \in DOMAIN doc /\ y \in DOMAIN doc /\ z \in DOMAIN doc
        /\ out[x] = doc[x] /\ out[y] = doc[y] /\ out[z] = doc[z]
    BY <1>9 DEF Markers
  <2> QED
    BY <1>10, <2>1 DEF Separate
<1>13. HeadingLevels(out)
  <2> SUFFICES ASSUME NEW j \in DOMAIN out, out[j].k = "heading" PROVE out[j].level \in 1..6
    BY DEF HeadingLevels
  <2>1. j # N + 1
    BY <1>3 DEF Written
  <2>2. j \in 1..N
    BY <1>4, <1>5, <2>1
  <2> QED
    BY <1>3, <1>4, <2>2 DEF HeadingLevels, Clear
<1>14. Legible(out)
  BY <1>3, <1>11, <1>12, LegibleIs
<1> QED
  BY <1>3, <1>13, <1>14 DEF Clear, IsDocument, out, one

(* An empty document, and what writeFile writes.                           *)
LEMMA ClearWritten ==
  /\ Clear(<<>>) /\ (\A l : Written(l) => Clear(<<l>>))
  /\ \A r, i : \E l : Written(l) /\ Report(r, i) = <<l>>
  /\ \E l : Written(l) /\ Partial = <<l>>
<1>1. <<>> \in Seq({}) /\ DOMAIN <<>> = {}
  OBVIOUS
<1>2. Clear(<<>>)
  BY <1>1 DEF Clear, IsDocument, Legible, HeadingLevels
<1>3. ASSUME NEW l, Written(l) PROVE Clear(<<l>>)
  <2>1. <<>> \o <<l>> = <<l>>
    <3> DEFINE one == <<l>>
    <3>1. one \in Seq({l})
      OBVIOUS
    <3> HIDE DEF one
    <3>2. <<>> \o one = one
      BY <3>1, ConcatEmptySeq
    <3> QED
      BY <3>2 DEF one
  <2> QED
    BY <1>2, <1>3, <2>1, ClearAppended
<1>4. ASSUME NEW r, NEW i PROVE \E l : Written(l) /\ Report(r, i) = <<l>>
  <2> WITNESS [k |-> "results", run |-> r, output |-> i]
  <2> QED
    BY DEF Written, Report
<1>5. \E l : Written(l) /\ Partial = <<l>>
  <2> WITNESS [k |-> "partial"]
  <2> QED
    BY DEF Written, Partial
<1> QED
  BY <1>2, <1>3, <1>4, <1>5

-----------------------------------------------------------------------------
(* The files an invocation leaves.                                         *)

(* Every name has a file or none, and the next file is a new one.          *)
Numbered ==
  /\ next \in Nat \ {0} /\ (\E D : content \in Seq(D)) /\ Len(content) = next - 1
  /\ entries \in [Names -> {NoFile} \cup 1..(next - 1)]
  /\ pc \in {"fill", "close", "rename"} => tmp \in 1..(next - 1)

(* What the report command was started with: one output, and not the file  *)
(* of the saved report.                                                    *)
Rendering ==
  /\ pc = "start" => outputs = <<>>
  /\ command = "report" /\ outputs # <<>> =>
       /\ Exists(entries, Saved) /\ DocOf(Saved) = SavedJSON
       /\ \E to \in DOMAIN Resolve :
            outputs = <<[to |-> to, section |-> "none", append |-> FALSE]>> /\ ~SameFile(to)
       /\ pc \in {"open", "write", "finish", "done", "killed"}
       /\ pc \in {"open", "write"} => at = 1
       /\ pc = "write" => Exists(entries, Name)

(* A new file, and one that is written over.                               *)
LEMMA NewFile ==
  ASSUME NEW D, NEW c \in Seq(D), NEW doc
  PROVE  /\ Append(c, doc) \in Seq(D \cup {doc}) /\ Len(Append(c, doc)) = Len(c) + 1
         /\ \A i \in 1..Len(c) : Append(c, doc)[i] = c[i]
<1>1. c \in Seq(D \cup {doc}) /\ doc \in D \cup {doc} /\ Len(c) \in Nat
  OBVIOUS
<1> DEFINE E == D \cup {doc}
<1>2. c \in Seq(E) /\ doc \in E
  BY <1>1
<1> HIDE DEF E
<1>3. /\ Append(c, doc) \in Seq(E) /\ Len(Append(c, doc)) = Len(c) + 1
      /\ \A i \in 1..Len(c) : Append(c, doc)[i] = c[i]
  BY <1>2, AppendProperties
<1> QED
  BY <1>3 DEF E

(* The other files keep what they have.                                    *)
LEMMA Overwritten ==
  ASSUME NEW D, NEW c \in Seq(D), NEW n, NEW doc
  PROVE  /\ [c EXCEPT ![n] = doc] \in Seq(D \cup {doc}) /\ Len([c EXCEPT ![n] = doc]) = Len(c)
         /\ \A i \in 1..Len(c) : i # n => [c EXCEPT ![n] = doc][i] = c[i]
<1> DEFINE E == D \cup {doc}
           d == [c EXCEPT ![n] = doc]
<1>1. DOMAIN c = 1..Len(c) /\ Len(c) \in Nat /\ \A i \in 1..Len(c) : c[i] \in D
  OBVIOUS
<1>2. DOMAIN d = DOMAIN c /\ (\A i \in DOMAIN c : d[i] = IF i = n THEN doc ELSE c[i])
      /\ d = [i \in DOMAIN c |-> IF i = n THEN doc ELSE c[i]]
  BY <1>1
<1>3. d \in [1..Len(c) -> E]
  BY <1>1, <1>2
<1> HIDE DEF d, E
<1>4. d \in Seq(E) /\ Len(d) = Len(c)
  BY <1>1, <1>3
<1> QED
  BY <1>1, <1>2, <1>4 DEF d, E

(* An invocation starts from files that are there.                         *)
LEMMA FilesInit == ReportsInit => Numbered /\ Rendering
<1> SUFFICES ASSUME ReportsInit PROVE Numbered /\ Rendering
  OBVIOUS
<1>1. PICK f \in Files : entries = f.entries /\ content = f.content /\ next = Len(f.content) + 1
  BY DEF ReportsInit
<1>2. f.content \in Seq(Range(f.content)) /\ f.entries \in [Names -> {NoFile} \cup DOMAIN f.content]
  BY ReportsAssumption
<1>3. Len(content) \in Nat /\ DOMAIN content = 1..Len(content)
  BY <1>1, <1>2
<1>4. next - 1 = Len(content) /\ next \in Nat \ {0} /\ content \in Seq(Range(f.content))
  BY <1>1, <1>2, <1>3
<1>5. entries \in [Names -> {NoFile} \cup 1..(next - 1)]
  BY <1>1, <1>2, <1>3, <1>4
<1>6. pc = "start" /\ outputs = <<>>
  BY DEF ReportsInit
<1> QED
  BY <1>4, <1>5, <1>6 DEF Numbered, Rendering

(* What a step may do to the files: nothing, write over one, make one with *)
(* a name or without, or give a name to a temporary one.                   *)
Untouched == content' = content /\ next' = next /\ entries' = entries
WrittenOver(n) ==
  (\E doc : content' = [content EXCEPT ![n] = doc]) /\ next' = next /\ entries' = entries
Created ==
  content' = Append(content, <<>>) /\ next' = next + 1
Renamed == content' = content /\ next' = next /\ entries' = [entries EXCEPT ![Name] = tmp]

(* Every step does one of these.                                           *)
LEMMA StepOnFiles ==
  ASSUME Numbered, [ReportsNext]_reportsVars
  PROVE  \/ Untouched /\ (pc' \in {"fill", "close", "rename"} =>
                            pc \in {"fill", "close", "rename"} /\ tmp' = tmp)
         \/ /\ \E n : WrittenOver(n)
            /\ pc' \in {"fill", "close", "rename"} => pc \in {"fill", "close", "rename"} /\ tmp' = tmp
         \/ /\ Created /\ entries' \in {entries, [entries EXCEPT ![Name] = next]}
            /\ pc' \in {"fill", "close", "rename"} => tmp' = next
         \/ Renamed /\ pc = "rename" /\ pc' \notin {"fill", "close", "rename"}
<1> USE DEF disk
<1>1. CASE Check
  BY <1>1 DEF Check, Untouched
<1>2. CASE RenderSaved
  BY <1>2 DEF RenderSaved, Untouched
<1>3. CASE OpenFile
  <2>1. CASE UNCHANGED <<disk, over>> /\ NextOutput(TRUE)
    BY <2>1 DEF Untouched, NextOutput
  <2>2. CASE pc' = "write" /\ Exists(entries, Name)
    <3>1. next' = next /\ entries' = entries
          /\ content' = IF Output.append THEN content ELSE [content EXCEPT ![entries[Name]] = <<>>]
      BY <1>3, <2>2 DEF OpenFile, NextOutput
    <3>2. Untouched \/ WrittenOver(entries[Name])
      BY <3>1 DEF Untouched, WrittenOver
    <3> QED
      BY <2>2, <3>2
  <2>3. CASE pc' = "write" /\ ~Exists(entries, Name)
    BY <1>3, <2>3 DEF OpenFile, NextOutput, Created
  <2> QED
    BY <1>3, <2>1, <2>2, <2>3 DEF OpenFile
<1>4. CASE WriteFile
  <2>1. PICK part : content' = [content EXCEPT ![entries[Name]] = @ \o part] /\ NextOutput(part = Partial)
    BY <1>4 DEF WriteFile
  <2>2. WrittenOver(entries[Name])
    BY <1>4, <2>1 DEF WriteFile, WrittenOver
  <2> QED
    BY <2>1, <2>2 DEF NextOutput
<1>5. CASE ReadSection
  <2>1. Untouched
    BY <1>5 DEF ReadSection, Untouched
  <2>2. pc' \in {"temp", "finish", "open"}
    BY <1>5 DEF ReadSection, NextOutput
  <2> QED
    BY <2>1, <2>2
<1>6. CASE Temp
  <2>1. CASE NextOutput(TRUE) /\ UNCHANGED <<disk, tmp>>
    BY <2>1 DEF Untouched, NextOutput
  <2>2. CASE ~(NextOutput(TRUE) /\ UNCHANGED <<disk, tmp>>)
    BY <1>6, <2>2 DEF Temp, Created
  <2> QED
    BY <2>1, <2>2
<1>7. CASE WriteTemp
  <2>1. WrittenOver(tmp)
    BY <1>7 DEF WriteTemp, WrittenOver
  <2>2. pc = "fill" /\ (pc' \in {"finish", "open"} \/ tmp' = tmp)
    BY <1>7 DEF WriteTemp, GiveUp, NextOutput
  <2> QED
    BY <2>1, <2>2
<1>8. CASE CloseTemp
  <2>1. Untouched
    BY <1>8 DEF CloseTemp, Untouched
  <2>2. pc = "close" /\ (pc' \in {"finish", "open"} \/ tmp' = tmp)
    BY <1>8 DEF CloseTemp, GiveUp, NextOutput
  <2> QED
    BY <2>1, <2>2
<1>9. CASE Rename
  BY <1>9 DEF Rename, GiveUp, NextOutput, Untouched, Renamed
<1>10. CASE Finish \/ Killed \/ Again \/ UNCHANGED reportsVars
  BY <1>10 DEF Finish, Killed, Again, reportsVars, Untouched
<1> QED
  BY <1>1, <1>2, <1>3, <1>4, <1>5, <1>6, <1>7, <1>8, <1>9, <1>10 DEF ReportsNext

(* Names keep leading to files that exist.                                 *)
LEMMA NumberedStep == Numbered /\ [ReportsNext]_reportsVars => Numbered'
<1> SUFFICES ASSUME Numbered, [ReportsNext]_reportsVars PROVE Numbered'
  OBVIOUS
<1> DEFINE Temporary == {"fill", "close", "rename"}
<1>1. PICK D : content \in Seq(D)
  BY DEF Numbered
<1>2. /\ next \in Nat \ {0} /\ Len(content) = next - 1
      /\ entries \in [Names -> {NoFile} \cup 1..(next - 1)]
      /\ pc \in Temporary => tmp \in 1..(next - 1)
  BY DEF Numbered
<1>3. CASE Untouched /\ (pc' \in Temporary => pc \in Temporary /\ tmp' = tmp)
  BY <1>1, <1>2, <1>3 DEF Untouched, Numbered
<1>4. ASSUME NEW n, WrittenOver(n), pc' \in Temporary => pc \in Temporary /\ tmp' = tmp
      PROVE  Numbered'
  <2>1. PICK doc : content' = [content EXCEPT ![n] = doc]
    BY <1>4 DEF WrittenOver
  <2>2. content' \in Seq(D \cup {doc}) /\ Len(content') = Len(content)
    <3> DEFINE written == [content EXCEPT ![n] = doc]
    <3>1. written \in Seq(D \cup {doc}) /\ Len(written) = Len(content)
      BY <1>1, Overwritten
    <3> HIDE DEF written
    <3>2. content' = written
      BY <2>1 DEF written
    <3> QED
      BY <3>1, <3>2
  <2>3. next' = next /\ entries' = entries
    BY <1>4 DEF WrittenOver
  <2> QED
    BY <1>2, <1>4, <2>2, <2>3 DEF Numbered
<1>5. CASE Created /\ entries' \in {entries, [entries EXCEPT ![Name] = next]} /\ (pc' \in Temporary => tmp' = next)
  <2>1. content' \in Seq(D \cup {<<>>}) /\ Len(content') = Len(content) + 1 /\ next' = next + 1
    BY <1>1, <1>5, NewFile DEF Created
  <2>2. next' \in Nat \ {0} /\ Len(content') = next' - 1 /\ next \in 1..(next' - 1)
        /\ 1..(next - 1) \subseteq 1..(next' - 1)
    BY <1>2, <2>1
  <2>3. entries' \in [Names -> {NoFile} \cup 1..(next' - 1)]
    BY <1>2, <1>5, <2>2
  <2> QED
    BY <1>5, <2>1, <2>2, <2>3 DEF Numbered
<1>6. CASE Renamed /\ pc = "rename" /\ pc' \notin Temporary
  <2>1. entries' \in [Names -> {NoFile} \cup 1..(next - 1)]
    BY <1>2, <1>6 DEF Renamed
  <2> QED
    BY <1>1, <1>2, <1>6, <2>1 DEF Renamed, Numbered
<1> QED
  BY <1>3, <1>4, <1>5, <1>6, StepOnFiles

(* No step of the report command touches the file it renders.              *)
LEMMA RenderingStep == Numbered /\ Rendering /\ [ReportsNext]_reportsVars => Rendering'
<1> SUFFICES ASSUME Numbered, Rendering, [ReportsNext]_reportsVars PROVE Rendering'
  OBVIOUS
<1> USE DEF disk
<1>1. CASE Check
  BY <1>1 DEF Check, Rendering
<1>2. CASE RenderSaved
  <2>1. /\ pc = "start" /\ command' = "report" /\ Exists(entries, Saved)
        /\ entries' = entries /\ content' = content
    BY <1>2 DEF RenderSaved
  <2>2. outputs = <<>>
    BY <2>1 DEF Rendering
  <2>3. PICK to \in DOMAIN Resolve :
          IF SameFile(to) \/ DocOf(Saved) # SavedJSON
          THEN pc' = "done" /\ status' = "config" /\ UNCHANGED <<outputs, at>>
          ELSE /\ outputs' = <<[to |-> to, section |-> "none", append |-> FALSE]>>
               /\ pc' = "open" /\ at' = 1 /\ UNCHANGED status
    BY <1>2 DEF RenderSaved
  <2>4. CASE SameFile(to) \/ DocOf(Saved) # SavedJSON
    BY <2>2, <2>3, <2>4 DEF Rendering
  <2>5. CASE ~(SameFile(to) \/ DocOf(Saved) # SavedJSON)
    <3>1. /\ outputs' = <<[to |-> to, section |-> "none", append |-> FALSE]>>
          /\ pc' = "open" /\ at' = 1 /\ DocOf(Saved) = SavedJSON /\ ~SameFile(to)
      BY <2>3, <2>5
    <3>2. DocOf(Saved)' = SavedJSON /\ Exists(entries', Saved) /\ SameFile(to)' = SameFile(to)
      BY <2>1, <3>1 DEF DocOf, SavedJSON, Exists, SameFile
    <3> QED
      BY <3>1, <3>2 DEF Rendering
  <2> QED
    BY <2>4, <2>5
<1>3. ASSUME command = "report", outputs # <<>>, command' = command, outputs' = outputs
      PROVE  Rendering'
  <2>1. PICK to \in DOMAIN Resolve :
          outputs = <<[to |-> to, section |-> "none", append |-> FALSE]>> /\ ~SameFile(to)
    BY <1>3 DEF Rendering
  <2>2. /\ Exists(entries, Saved) /\ DocOf(Saved) = SavedJSON
        /\ pc \in {"open", "write", "finish", "done", "killed"}
        /\ pc \in {"open", "write"} => at = 1
        /\ pc = "write" => Exists(entries, Name)
    BY <1>3 DEF Rendering
  <2>3. /\ Resolve[to] \in Names /\ Saved \in Names /\ NoFile \notin Nat \ {0}
        /\ entries \in [Names -> {NoFile} \cup 1..(next - 1)] /\ next \in Nat \ {0}
        /\ Len(content) = next - 1
    BY ReportsAssumption DEF Numbered
  <2>4. entries[Saved] \in 1..Len(content)
    BY <2>2, <2>3 DEF Exists
  <2>5. pc \in {"open", "write"} =>
          Output = [to |-> to, section |-> "none", append |-> FALSE] /\ Name = Resolve[to] /\ Len(outputs) = 1
    <3>1. outputs[1] = [to |-> to, section |-> "none", append |-> FALSE] /\ Len(outputs) = 1
      BY <2>1
    <3>2. outputs[1].to = to
      BY <3>1
    <3> QED
      BY <2>2, <3>1, <3>2 DEF Output, Name
  <2>6. PICK D : content \in Seq(D)
    BY DEF Numbered
  <2>7. ASSUME /\ Exists(entries', Saved) /\ content'[entries'[Saved]] = SavedJSON,
               ~(Exists(entries', Resolve[to]) /\ entries'[Resolve[to]] = entries'[Saved]),
               pc' \in {"open", "write", "finish", "done", "killed"},
               pc' \in {"open", "write"} => at' = 1,
               pc' = "write" => Exists(entries', Resolve[to])
        PROVE  Rendering'
    <3>1. outputs'[1].to = to /\ outputs' = <<[to |-> to, section |-> "none", append |-> FALSE]>>
      BY <1>3, <2>1
    <3>2. pc' = "write" => Name' = Resolve[to]
      BY <3>1, <2>7 DEF Name
    <3>3. DocOf(Saved)' = SavedJSON /\ Exists(entries, Saved)' /\ ~SameFile(to)'
      BY <2>7 DEF DocOf, SavedJSON, SameFile, Exists
    <3>4. pc' = "write" => Exists(entries, Name)'
      BY <2>7, <3>2 DEF Exists
    <3> QED
      BY <2>7, <3>1, <3>3, <3>4 DEF Rendering
  <2>8. CASE OpenFile
    <3>1. /\ pc = "open" /\ at = 1 /\ Output.append = FALSE /\ Name = Resolve[to] /\ Len(outputs) = 1
      BY <2>2, <2>5, <2>8 DEF OpenFile
    <3>2. CASE NextOutput(TRUE) /\ UNCHANGED <<disk, over>>
      <4>1. pc' = "finish" /\ entries' = entries /\ content' = content
        BY <3>1, <3>2 DEF NextOutput
      <4> QED
        BY <2>1, <2>2, <2>7, <4>1 DEF DocOf, SameFile, Exists
    <3>3. CASE Exists(entries, Name) /\ ~(NextOutput(TRUE) /\ UNCHANGED <<disk, over>>)
      <4>1. pc' = "write" /\ at' = 1 /\ entries' = entries /\ content' = [content EXCEPT ![entries[Name]] = <<>>]
        BY <2>8, <3>1, <3>3 DEF OpenFile
      <4>2. entries[Saved] # entries[Name]
        BY <2>1, <3>1, <3>3 DEF SameFile
      <4>3. content'[entries[Saved]] = content[entries[Saved]]
        BY <2>4, <2>6, <4>1, <4>2
      <4> QED
        BY <2>2, <2>7, <3>1, <3>3, <4>1, <4>2, <4>3 DEF DocOf
    <3>4. CASE ~Exists(entries, Name) /\ ~(NextOutput(TRUE) /\ UNCHANGED <<disk, over>>)
      <4>1. /\ pc' = "write" /\ at' = 1 /\ content' = Append(content, <<>>)
            /\ entries' = [entries EXCEPT ![Name] = next]
        BY <2>8, <3>1, <3>4 DEF OpenFile
      <4>2. content'[entries[Saved]] = content[entries[Saved]]
        BY <2>4, <2>6, <4>1, NewFile
      <4>3. Name # Saved
        BY <2>2, <3>4
      <4>4. entries'[Saved] = entries[Saved] /\ entries'[Name] = next
        BY <2>3, <3>1, <4>1, <4>3
      <4>5. entries[Saved] # next /\ next # NoFile
        BY <2>3, <2>4
      <4> QED
        BY <2>2, <2>7, <3>1, <4>1, <4>2, <4>4, <4>5 DEF DocOf, Exists
    <3> QED
      BY <3>2, <3>3, <3>4
  <2>9. CASE WriteFile
    <3>1. pc = "write" /\ at = 1 /\ Name = Resolve[to] /\ Len(outputs) = 1 /\ entries' = entries
      BY <2>2, <2>5, <2>9 DEF WriteFile
    <3>2. PICK part : content' = [content EXCEPT ![entries[Name]] = @ \o part] /\ NextOutput(part = Partial)
      BY <2>9 DEF WriteFile
    <3>3. pc' = "finish"
      BY <3>1, <3>2 DEF NextOutput
    <3>4. entries[Saved] # entries[Name]
      BY <2>1, <2>2, <3>1 DEF SameFile
    <3>5. content'[entries[Saved]] = content[entries[Saved]]
      BY <2>4, <2>6, <3>2, <3>4
    <3> QED
      BY <2>2, <2>7, <3>1, <3>3, <3>4, <3>5 DEF DocOf
  <2>10. CASE Finish \/ Killed \/ UNCHANGED reportsVars
    <3>1. entries' = entries /\ content' = content /\ (pc' \in {"done", "killed"} \/ (pc' = pc /\ at' = at))
      BY <2>10 DEF Finish, Killed, reportsVars
    <3> QED
      BY <2>1, <2>2, <2>5, <2>7, <3>1 DEF DocOf, SameFile, Exists
  <2>11. ~ReadSection /\ ~Temp /\ ~WriteTemp /\ ~CloseTemp /\ ~Rename
    <3>1. ~ReadSection
      BY <2>5 DEF ReadSection
    <3>2. pc \notin {"temp", "fill", "close", "rename"}
      BY <2>2
    <3> QED
      BY <3>1, <3>2 DEF Temp, WriteTemp, CloseTemp, Rename
  <2>12. ~Check /\ ~RenderSaved /\ ~Again
    BY <1>3, <2>2 DEF Check, RenderSaved, Again
  <2> QED
    BY <2>8, <2>9, <2>10, <2>11, <2>12 DEF ReportsNext
<1>4. ASSUME ~(command = "report" /\ outputs # <<>>), ~Check, ~RenderSaved PROVE Rendering'
  <2>1. CASE Again
    BY <2>1 DEF Again, Rendering
  <2>2. CASE UNCHANGED reportsVars
    BY <1>4, <2>2 DEF reportsVars, Rendering
  <2>3. CASE ~Again /\ ~UNCHANGED reportsVars
    <3>1. command' = command /\ outputs' = outputs
      BY <1>4, <2>3 DEF ReportsNext, OpenFile, WriteFile, ReadSection, Temp, WriteTemp, CloseTemp, Rename, Finish, Killed
    <3>2. pc' # "start"
      BY <1>4, <2>3 DEF ReportsNext, OpenFile, WriteFile, ReadSection, Temp, WriteTemp, CloseTemp, Rename, Finish,
                        Killed, NextOutput, GiveUp
    <3> QED
      BY <1>4, <3>1, <3>2 DEF Rendering
  <2> QED
    BY <2>1, <2>2, <2>3
<1>5. CASE command = "report" /\ outputs # <<>> /\ ~(command' = command /\ outputs' = outputs)
  <2>1. pc # "start"
    BY <1>5 DEF Rendering
  <2>2. ~Check /\ ~RenderSaved
    BY <2>1 DEF Check, RenderSaved
  <2>3. Again
    BY <1>5, <2>2 DEF ReportsNext, reportsVars, OpenFile, WriteFile, ReadSection, Temp, WriteTemp, CloseTemp, Rename,
                      Finish, Killed
  <2> QED
    BY <2>3 DEF Again, Rendering
<1> QED
  BY <1>1, <1>2, <1>3, <1>4, <1>5

(* The report command never writes over the report it renders, however its *)
(* output is called and whatever is linked to what, over any number of     *)
(* invocations and of crashes in between (reportPathsSame).                *)
THEOREM SavedHolds == ReportsSpec => []SavedKept
<1>1. Numbered /\ Rendering /\ [ReportsNext]_reportsVars => Numbered' /\ Rendering'
  BY NumberedStep, RenderingStep
<1>2. Rendering => SavedKept
  BY DEF Rendering, SavedKept
<1> QED
  BY FilesInit, <1>1, <1>2, PTL DEF ReportsSpec

-----------------------------------------------------------------------------
(* The outputs of an invocation, one after the other.                      *)

(* Where an invocation writes.                                             *)
Busy == {"open", "write", "temp", "fill", "close", "rename"}
Temporary == {"fill", "close", "rename"}

(* It writes its outputs one after the other.                              *)
Asked ==
  /\ \E Q : outputs \in Seq(Q)
  /\ \A i \in 1..Len(outputs) : outputs[i].to \in DOMAIN Resolve
  /\ pc \in Busy => at \in 1..Len(outputs)
  /\ pc = "finish" => at = Len(outputs) + 1 /\ Len(outputs) > 0

(* What comes after an output.                                             *)
LEMMA AfterOutput ==
  ASSUME Asked, pc \in Busy, NEW failed \in BOOLEAN, NextOutput(failed)
  PROVE  /\ at \in 1..Len(outputs) /\ Len(outputs) \in Nat
         /\ at' = at + 1 /\ (pc' = "finish" \/ pc' = "open")
         /\ pc' \in Busy => at' \in 1..Len(outputs)
         /\ pc' = "finish" => at' = Len(outputs) + 1
         /\ at' - 1 = at
<1>1. at \in 1..Len(outputs) /\ Len(outputs) \in Nat
  BY DEF Asked
<1>2. at' = at + 1 /\ pc' = IF at = Len(outputs) THEN "finish" ELSE "open"
  BY DEF NextOutput
<1>3. CASE at = Len(outputs)
  BY <1>1, <1>2, <1>3 DEF Busy
<1>4. CASE at # Len(outputs)
  BY <1>1, <1>2, <1>4 DEF Busy
<1> QED
  BY <1>3, <1>4

(* A step goes on with the outputs it has, or starts or ends an invocation.*)
LEMMA AskedStep == Asked /\ [ReportsNext]_reportsVars => Asked'
<1> SUFFICES ASSUME Asked, [ReportsNext]_reportsVars PROVE Asked'
  OBVIOUS
<1>1. ASSUME outputs' = outputs, pc' \in Busy => at' \in 1..Len(outputs),
             pc' = "finish" => at' = Len(outputs) + 1 /\ Len(outputs) > 0
      PROVE  Asked'
  BY <1>1 DEF Asked, Busy
<1>2. ASSUME pc \in Busy, outputs' = outputs, NEW failed \in BOOLEAN, NextOutput(failed) PROVE Asked'
  <2>1. /\ at \in 1..Len(outputs) /\ Len(outputs) \in Nat
        /\ pc' \in Busy => at' \in 1..Len(outputs)
        /\ pc' = "finish" => at' = Len(outputs) + 1
    BY <1>2, AfterOutput
  <2>2. Len(outputs) > 0
    BY <2>1
  <2> QED
    BY <1>1, <1>2, <2>1, <2>2
<1>3. ASSUME pc \in Busy, pc' \in Busy, outputs' = outputs, at' = at PROVE Asked'
  BY <1>1, <1>3 DEF Asked, Busy
<1>4. CASE Check
  <2>1. outputs' \in Requests /\ (pc' = "done" \/ (pc' = "open" /\ at' = 1))
    BY <1>4 DEF Check
  <2>2. outputs' \in Seq(Range(outputs')) \ {<<>>} /\ \A i \in DOMAIN outputs' : outputs'[i].to \in DOMAIN Resolve
    BY <2>1, ReportsAssumption
  <2>3. 1 \in 1..Len(outputs') /\ DOMAIN outputs' = 1..Len(outputs') /\ \E Q : outputs' \in Seq(Q)
    BY <2>2
  <2> QED
    BY <2>1, <2>2, <2>3 DEF Asked, Busy
<1>5. CASE RenderSaved
  <2>1. PICK to \in DOMAIN Resolve :
          \/ pc' = "done" /\ outputs' = outputs
          \/ outputs' = <<[to |-> to, section |-> "none", append |-> FALSE]>> /\ pc' = "open" /\ at' = 1
    BY <1>5 DEF RenderSaved
  <2>2. CASE pc' = "done" /\ outputs' = outputs
    BY <1>1, <2>2 DEF Busy
  <2>3. CASE outputs' = <<[to |-> to, section |-> "none", append |-> FALSE]>> /\ pc' = "open" /\ at' = 1
    <3> DEFINE one == [to |-> to, section |-> "none", append |-> FALSE]
    <3>1. one.to = to
      OBVIOUS
    <3> HIDE DEF one
    <3>2. outputs' = <<one>>
      BY <2>3 DEF one
    <3>3. outputs' \in Seq({one}) /\ Len(outputs') = 1 /\ outputs'[1] = one
      BY <3>2
    <3>4. \A i \in 1..Len(outputs') : outputs'[i].to \in DOMAIN Resolve
      BY <3>1, <3>3
    <3>5. 1 \in 1..Len(outputs') /\ \E Q : outputs' \in Seq(Q)
      BY <3>3
    <3> QED
      BY <2>3, <3>4, <3>5 DEF Asked, Busy
  <2> QED
    BY <2>1, <2>2, <2>3
<1>6. CASE OpenFile
  BY <1>2, <1>3, <1>6 DEF OpenFile, Busy
<1>7. CASE WriteFile
  <2>1. PICK part : NextOutput(part = Partial)
    BY <1>7 DEF WriteFile
  <2>2. (part = Partial) \in BOOLEAN
    OBVIOUS
  <2> QED
    BY <1>2, <1>7, <2>1, <2>2 DEF WriteFile, Busy
<1>8. CASE ReadSection
  <2>1. pc = "open" /\ outputs' = outputs
    BY <1>8 DEF ReadSection
  <2>2. (pc' = "temp" /\ at' = at) \/ \E failed \in BOOLEAN : NextOutput(failed)
    BY <1>8 DEF ReadSection
  <2> QED
    BY <1>2, <1>3, <2>1, <2>2 DEF Busy
<1>9. CASE Temp \/ WriteTemp \/ CloseTemp \/ Rename
  <2>1. pc \in Busy /\ outputs' = outputs
    BY <1>9 DEF Temp, WriteTemp, CloseTemp, Rename, Busy
  <2>2. (pc' \in Busy /\ at' = at) \/ \E failed \in BOOLEAN : NextOutput(failed)
    BY <1>9 DEF Temp, WriteTemp, CloseTemp, Rename, Busy, GiveUp
  <2> QED
    BY <1>2, <1>3, <2>1, <2>2
<1>10. CASE Finish \/ Killed
  BY <1>1, <1>10 DEF Finish, Killed, Busy
<1>11. CASE Again
  <2>1. outputs' = <<>> /\ pc' = "start"
    BY <1>11 DEF Again
  <2>2. outputs' \in Seq({}) /\ Len(outputs') = 0
    BY <2>1
  <2> QED
    BY <2>1, <2>2 DEF Asked, Busy
<1>12. CASE UNCHANGED reportsVars
  BY <1>12 DEF reportsVars, Asked
<1> QED
  BY <1>4, <1>5, <1>6, <1>7, <1>8, <1>9, <1>10, <1>11, <1>12 DEF ReportsNext

(* The files hold documents.                                               *)
Documents == \A i \in 1..Len(content) : IsDocument(content[i])

(* The section that is being replaced: what is to be written is the        *)
(* document with its section replaced, and nothing but the rename gives it *)
(* a name.                                                                 *)
Composed ==
  /\ pc = "write" => Output.section = "none"
  /\ pc \in {"temp", "fill", "close", "rename"} =>
       /\ Output.section # "none" /\ Exists(entries, Name)
       /\ new # <<>> /\ new = ReplaceSection(DocOf(Name), Output.section, run)
  /\ pc \in Temporary => \A n \in Names : entries[n] # tmp
  /\ pc \in {"close", "rename"} => content[tmp] = new

(* What is written in the place of a section makes a document.             *)
LEMMA ReplacedIsDocument ==
  ASSUME PlainDescription, NEW doc, IsDocument(doc), NEW name, NEW r, ReplaceSection(doc, name, r) # <<>>
  PROVE  /\ IsDocument(ReplaceSection(doc, name, r))
         /\ ReplaceSection(ReplaceSection(doc, name, r), name, r) = ReplaceSection(doc, name, r)
<1>1. PICK E : doc \in Seq(E)
  BY DEF IsDocument
<1> DEFINE w == WholeSection(LevelBelow(Scan(doc, name).parent), r)
           D == E \cup Range(w)
<1>2. PICK b \in 1..Len(doc) : \E e \in 1..Len(doc) : b < e /\ ReplaceSection(doc, name, r) = Splice(doc, b, e, w)
  BY <1>1, ReplaceIs
<1>3. PICK e \in 1..Len(doc) : b < e /\ ReplaceSection(doc, name, r) = Splice(doc, b, e, w)
  BY <1>2
<1>0. D = E \cup Range(w)
  OBVIOUS
<1> HIDE DEF D
<1>8. w \in Seq(D)
  <2> DEFINE level == LevelBelow(Scan(doc, name).parent)
  <2> HIDE DEF level
  <2>1. D = E \cup Range(WholeSection(level, r))
    BY <1>0 DEF level
  <2>2. WholeSection(level, r) \in Seq(D)
    BY <2>1, SectionLines
  <2> QED
    BY <2>2 DEF level
<1> HIDE DEF w
<1>4. w \in Seq(D) /\ doc \in Seq(D)
  BY <1>0, <1>1, <1>8
<1>5. Filled(D, doc, b, e, w, Splice(doc, b, e, w))
  BY <1>3, <1>4, SpliceIs
<1>6. Splice(doc, b, e, w) \in Seq(D)
  BY <1>5 DEF Filled
<1>7. IsDocument(ReplaceSection(doc, name, r))
  BY <1>3, <1>6 DEF IsDocument
<1> QED
  BY <1>1, <1>7, ReplacedAgain

(* Two documents in one.                                                   *)
LEMMA JoinedIsDocument ==
  ASSUME NEW doc, IsDocument(doc), NEW part, IsDocument(part)
  PROVE  IsDocument(doc \o part)
<1>1. PICK E : doc \in Seq(E)
  BY DEF IsDocument
<1>2. PICK F : part \in Seq(F)
  BY DEF IsDocument
<1>3. doc \in Seq(E \cup F) /\ part \in Seq(E \cup F)
  BY <1>1, <1>2
<1> DEFINE G == E \cup F
<1> HIDE DEF G
<1>4. doc \in Seq(G) /\ part \in Seq(G)
  BY <1>3 DEF G
<1>5. doc \o part \in Seq(G)
  BY <1>4, ConcatProperties
<1> QED
  BY <1>5 DEF IsDocument

(* What writeFile writes.                                                  *)
LEMMA PartsAreDocuments ==
  /\ IsDocument(<<>>) /\ IsDocument(Partial)
  /\ \A r, i : IsDocument(Report(r, i))
<1>1. <<>> \in Seq({})
  OBVIOUS
<1>2. ASSUME NEW l PROVE IsDocument(<<l>>)
  <2>1. <<l>> \in Seq({l})
    OBVIOUS
  <2> QED
    BY <2>1 DEF IsDocument
<1> QED
  BY <1>1, <1>2 DEF IsDocument, Partial, Report

(* A name leads to a document, and not to the next file.                   *)
LEMMA NamedDocument ==
  ASSUME Numbered, NEW n \in Names, Exists(entries, n)
  PROVE  /\ entries[n] \in 1..Len(content) /\ entries[n] # next
         /\ Documents => IsDocument(DocOf(n))
<1>1. entries[n] \in {NoFile} \cup 1..(next - 1) /\ entries[n] # NoFile /\ Len(content) = next - 1 /\ next \in Nat \ {0}
  BY DEF Numbered, Exists
<1>2. entries[n] \in 1..Len(content) /\ entries[n] # next
  BY <1>1
<1> QED
  BY <1>2 DEF Documents, DocOf

(* The name of the output that is being written.                           *)
LEMMA NamedOutput == ASSUME Asked, pc \in Busy PROVE Name \in Names
<1>1. at \in 1..Len(outputs) /\ outputs[at].to \in DOMAIN Resolve
  BY DEF Asked
<1> QED
  BY <1>1, ReportsAssumption DEF Name

(* The files hold documents when an invocation starts.                     *)
LEMMA DocumentsInit == ReportsInit => Asked /\ Documents /\ Composed
<1> SUFFICES ASSUME ReportsInit PROVE Asked /\ Documents /\ Composed
  OBVIOUS
<1>1. PICK f \in Files : content = f.content
  BY DEF ReportsInit
<1>2. f.content \in Seq(Range(f.content)) /\ \A i \in DOMAIN f.content : f.content[i] \in Seq(Range(f.content[i]))
  BY ReportsAssumption
<1>3. \A i \in 1..Len(content) : IsDocument(content[i])
  BY <1>1, <1>2 DEF IsDocument
<1>4. pc = "start" /\ outputs = <<>>
  BY DEF ReportsInit
<1>5. outputs \in Seq({}) /\ Len(outputs) = 0
  BY <1>4
<1> QED
  BY <1>3, <1>4, <1>5 DEF Asked, Documents, Composed, Busy, Temporary

(* What a step may leave in a file: what it has, nothing, a part of a      *)
(* report, a report after what it has, or a document with a section        *)
(* replaced.                                                               *)
LEMMA WhatIsWritten ==
  ASSUME Numbered, Asked, Composed, [ReportsNext]_reportsVars, NEW i \in 1..Len(content')
  PROVE  \/ i \in 1..Len(content) /\ content'[i] = content[i]
         \/ content'[i] = <<>> \/ content'[i] = Partial
         \/ i \in 1..Len(content) /\ \E part \in {Report(run, at), Partial} : content'[i] = content[i] \o part
         \/ \E n \in Names : \E s : /\ Exists(entries, n) /\ content'[i] # <<>>
                                    /\ content'[i] = ReplaceSection(DocOf(n), s, run)
<1> USE DEF disk
<1> DEFINE Same1 == i \in 1..Len(content) /\ content'[i] = content[i]
<1>0. PICK D : content \in Seq(D)
  BY DEF Numbered
<1>1. DOMAIN content = 1..Len(content)
  BY <1>0
<1>2. content' = content => Same1
  OBVIOUS
<1>3. ASSUME NEW n, NEW doc, content' = [content EXCEPT ![n] = doc] PROVE Same1 \/ (n \in 1..Len(content) /\ i = n /\ content'[i] = doc)
  <2> DEFINE c == [content EXCEPT ![n] = doc]
  <2>1. Len(c) = Len(content) /\ \A j \in 1..Len(content) : j # n => c[j] = content[j]
    BY <1>0, Overwritten
  <2>2. n \in 1..Len(content) => c[n] = doc
    BY <1>1
  <2> HIDE DEF c
  <2>3. content' = c
    BY <1>3 DEF c
  <2> QED
    BY <2>1, <2>2, <2>3
<1>4. content' = Append(content, <<>>) => Same1 \/ content'[i] = <<>>
  <2> SUFFICES ASSUME content' = Append(content, <<>>) PROVE Same1 \/ content'[i] = <<>>
    OBVIOUS
  <2> DEFINE c == Append(content, <<>>)
             nothing == <<>>
  <2>1. /\ Len(c) = Len(content) + 1 /\ Len(content) \in Nat
        /\ \A j \in 1..Len(content) : c[j] = content[j]
    BY <1>0, NewFile
  <2>2. c[Len(content) + 1] = nothing
    BY <1>0, AppendProperties
  <2>3. content' = c
    OBVIOUS
  <2> HIDE DEF c, nothing
  <2>4. i \in 1..Len(content) \/ i = Len(content) + 1
    BY <2>1, <2>3
  <2> QED
    BY <2>1, <2>2, <2>3, <2>4 DEF nothing
<1>5. CASE OpenFile
  <2>1. \/ content' = content \/ content' = [content EXCEPT ![entries[Name]] = <<>>]
        \/ content' = Append(content, <<>>)
    BY <1>5 DEF OpenFile
  <2> QED
    BY <1>2, <1>3, <1>4, <2>1
<1>6. CASE WriteFile
  <2>1. PICK part \in {Report(run, at), Partial} : content' = [content EXCEPT ![entries[Name]] = @ \o part]
    BY <1>6 DEF WriteFile
  <2> DEFINE n == entries[Name]
             doc == content[n] \o part
  <2>2. content' = [content EXCEPT ![n] = doc]
    BY <2>1
  <2> HIDE DEF n, doc
  <2>3. Same1 \/ (n \in 1..Len(content) /\ i = n /\ content'[i] = doc)
    BY <1>3, <2>2
  <2> QED
    BY <2>3 DEF doc
<1>7. CASE Temp
  <2>1. content' = content \/ content' = Append(content, <<>>)
    BY <1>7 DEF Temp
  <2> QED
    BY <1>2, <1>4, <2>1
<1>8. CASE WriteTemp
  <2>1. content' = [content EXCEPT ![tmp] = new] \/ content' = [content EXCEPT ![tmp] = Partial]
    BY <1>8 DEF WriteTemp
  <2>2. pc = "fill"
    BY <1>8 DEF WriteTemp
  <2>3. Exists(entries, Name) /\ new # <<>> /\ new = ReplaceSection(DocOf(Name), Output.section, run)
    BY <2>2 DEF Composed
  <2>4. Name \in Names
    BY <2>2, NamedOutput DEF Busy
  <2>5. Same1 \/ content'[i] = new \/ content'[i] = Partial
    BY <1>3, <2>1
  <2> QED
    BY <2>3, <2>4, <2>5
<1>9. CASE Check \/ RenderSaved \/ ReadSection \/ CloseTemp \/ Rename \/ Finish \/ Killed \/ Again
           \/ UNCHANGED reportsVars
  BY <1>2, <1>9 DEF Check, RenderSaved, ReadSection, CloseTemp, Rename, Finish, Killed, Again, reportsVars
<1> QED
  BY <1>5, <1>6, <1>7, <1>8, <1>9 DEF ReportsNext

(* Every step writes documents.                                            *)
LEMMA DocumentsStep ==
  ASSUME PlainDescription, Numbered, Asked, Documents, Composed, [ReportsNext]_reportsVars
  PROVE  Documents'
<1> SUFFICES ASSUME NEW i \in 1..Len(content') PROVE IsDocument(content'[i])
  BY DEF Documents
<1>1. CASE i \in 1..Len(content)
  <2>1. IsDocument(content[i])
    BY <1>1 DEF Documents
  <2>2. \A part \in {Report(run, at), Partial} : IsDocument(content[i] \o part)
    BY <2>1, PartsAreDocuments, JoinedIsDocument
  <2>3. \A n \in Names : \A s : Exists(entries, n) /\ ReplaceSection(DocOf(n), s, run) # <<>> =>
          IsDocument(ReplaceSection(DocOf(n), s, run))
    BY NamedDocument, ReplacedIsDocument
  <2> QED
    BY <2>1, <2>2, <2>3, WhatIsWritten, PartsAreDocuments
<1>2. CASE i \notin 1..Len(content)
  <2>1. \A n \in Names : \A s : Exists(entries, n) /\ ReplaceSection(DocOf(n), s, run) # <<>> =>
          IsDocument(ReplaceSection(DocOf(n), s, run))
    BY NamedDocument, ReplacedIsDocument
  <2> QED
    BY <1>2, <2>1, WhatIsWritten, PartsAreDocuments
<1> QED
  BY <1>1, <1>2

(* The rename is of the section replaced in the document that is there.    *)
LEMMA ComposedStep ==
  ASSUME Numbered, Asked, Documents, Composed, [ReportsNext]_reportsVars
  PROVE  Composed'
<1> USE DEF disk
<1>0. ASSUME pc' \notin {"write", "temp", "fill", "close", "rename"} PROVE Composed'
  BY <1>0 DEF Composed, Temporary
<1>1. ASSUME NEW failed, NextOutput(failed) PROVE Composed'
  BY <1>0, <1>1 DEF NextOutput
<1>2. CASE OpenFile
  <2>1. pc' = "write" => Output.section = "none" /\ outputs' = outputs /\ at' = at
    BY <1>2 DEF OpenFile, NextOutput
  <2>2. pc' = "write" \/ pc' \in {"open", "finish"}
    BY <1>2 DEF OpenFile, NextOutput
  <2> QED
    BY <1>0, <2>1, <2>2 DEF Composed, Temporary, Output
<1>3. CASE ReadSection
  <2>1. CASE pc' = "temp"
    <3> DEFINE doc == IF Exists(entries, Name) THEN DocOf(Name) ELSE <<>>
               out == ReplaceSection(doc, Output.section, run)
    <3>1. Output.section # "none" /\ doc # <<>> /\ out # <<>> /\ new' = out
          /\ UNCHANGED <<run, outputs, at, entries, content>>
      BY <1>3, <2>1 DEF ReadSection, NextOutput
    <3>2. Exists(entries, Name) /\ doc = DocOf(Name)
      BY <3>1
    <3>3. Exists(entries, Name) /\ new' # <<>> /\ new' = ReplaceSection(DocOf(Name), Output.section, run)
      BY <3>1, <3>2
    <3>4. Exists(entries', Name') /\ new' # <<>> /\ new' = ReplaceSection(DocOf(Name)', Output'.section, run')
      BY <3>1, <3>3 DEF Exists, Name, DocOf, Output
    <3> QED
      BY <2>1, <3>1, <3>4 DEF Composed, Temporary, Output
  <2>2. CASE pc' # "temp"
    BY <1>1, <1>3, <2>2 DEF ReadSection
  <2> QED
    BY <2>1, <2>2
<1>4. ASSUME pc \in {"temp", "fill", "close", "rename"},
             UNCHANGED <<run, outputs, at, entries, new>>, content'[entries[Name]] = DocOf(Name)
      PROVE  /\ Output'.section # "none" /\ Exists(entries', Name')
             /\ new' # <<>> /\ new' = ReplaceSection(DocOf(Name)', Output'.section, run')
  BY <1>4 DEF Composed, Exists, Name, DocOf, Output
<1>5. ASSUME pc \in {"temp", "fill", "close", "rename"}
      PROVE  /\ entries[Name] \in 1..Len(content) /\ \A n \in Names : entries[n] # next
             /\ Name \in Names
  <2>1. Name \in Names /\ Exists(entries, Name)
    BY <1>5, NamedOutput DEF Composed, Busy
  <2>2. \A n \in Names : entries[n] # next
    <3>1. NoFile # next /\ next \in Nat \ {0} /\ entries \in [Names -> {NoFile} \cup 1..(next - 1)]
      BY ReportsAssumption DEF Numbered
    <3> QED
      BY <3>1
  <2> QED
    BY <2>1, <2>2, NamedDocument
<1>6. CASE Temp
  <2>1. CASE NextOutput(TRUE)
    BY <1>1, <2>1
  <2>2. CASE ~NextOutput(TRUE)
    <3>1. /\ content' = Append(content, <<>>) /\ tmp' = next /\ pc' = "fill" /\ pc = "temp"
          /\ UNCHANGED <<run, outputs, at, entries, new>>
      BY <1>6, <2>2 DEF Temp
    <3>2. content'[entries[Name]] = content[entries[Name]]
      <4>1. PICK D : content \in Seq(D)
        BY DEF Numbered
      <4> QED
        BY <1>5, <3>1, <4>1, NewFile
    <3>3. \A n \in Names : entries'[n] # tmp'
      BY <1>5, <3>1
    <3> QED
      BY <1>4, <3>1, <3>2, <3>3 DEF Composed, DocOf, Temporary
  <2> QED
    BY <2>1, <2>2
<1>7. CASE WriteTemp
  <2>1. CASE GiveUp
    BY <1>1, <2>1 DEF GiveUp
  <2>2. CASE ~GiveUp
    <3>1. /\ content' = [content EXCEPT ![tmp] = new] /\ tmp' = tmp /\ pc' = "close" /\ pc = "fill"
          /\ UNCHANGED <<run, outputs, at, entries, new>>
      BY <1>7, <2>2 DEF WriteTemp
    <3>2. entries[Name] # tmp /\ entries[Name] \in 1..Len(content) /\ tmp \in 1..Len(content)
      BY <1>5, <3>1 DEF Composed, Numbered, Temporary
    <3>3. PICK D : content \in Seq(D)
      BY DEF Numbered
    <3>4. DOMAIN content = 1..Len(content)
      BY <3>3
    <3>5. content'[entries[Name]] = content[entries[Name]] /\ content'[tmp] = new
      BY <3>1, <3>2, <3>4
    <3> QED
      BY <1>4, <3>1, <3>5 DEF Composed, DocOf, Temporary
  <2> QED
    BY <2>1, <2>2
<1>8. CASE CloseTemp
  <2>1. CASE GiveUp
    BY <1>1, <2>1 DEF GiveUp
  <2>2. CASE ~GiveUp
    <3>1. /\ content' = content /\ tmp' = tmp /\ pc' = "rename" /\ pc = "close"
          /\ UNCHANGED <<run, outputs, at, entries, new>>
      BY <1>8, <2>2 DEF CloseTemp
    <3> QED
      BY <1>4, <3>1 DEF Composed, DocOf, Temporary
  <2> QED
    BY <2>1, <2>2
<1>9. CASE WriteFile
  BY <1>1, <1>9 DEF WriteFile
<1>10. CASE Rename
  BY <1>1, <1>10 DEF Rename, GiveUp
<1>11. CASE Check \/ RenderSaved \/ Finish \/ Killed \/ Again
  BY <1>0, <1>11 DEF Check, RenderSaved, Finish, Killed, Again
<1>12. CASE UNCHANGED reportsVars
  BY <1>12 DEF reportsVars, Composed, Exists, Name, DocOf, Output
<1> QED
  BY <1>2, <1>3, <1>6, <1>7, <1>8, <1>9, <1>10, <1>11, <1>12 DEF ReportsNext

(* An output that is done is one whose section is in place.                *)
LEMMA StableStep ==
  ASSUME PlainDescription, Numbered, Asked, Documents, Composed, SectionsStable, [ReportsNext]_reportsVars
  PROVE  SectionsStable'
<1> USE DEF disk
<1> DEFINE after == content'[entries'[Name]]
<1>0. ASSUME pc' \notin {"open", "finish"} PROVE SectionsStable'
  BY <1>0 DEF SectionsStable
<1>1. ASSUME pc \in Busy, NEW failed \in BOOLEAN, NextOutput(failed), outputs' = outputs, run' = run,
             ~failed /\ Output.section # "none" => ReplaceSection(after, Output.section, run) = after
      PROVE  SectionsStable'
  <2>1. at' - 1 = at /\ errs' = IF failed THEN errs \cup {at} ELSE errs
    BY <1>1, AfterOutput DEF NextOutput
  <2>2. CASE failed
    BY <2>1, <2>2 DEF SectionsStable
  <2>3. CASE ~failed
    <3>1. outputs'[at' - 1] = Output /\ Resolve[Output.to] = Name
      BY <1>1, <2>1 DEF Output, Name
    <3>2. Output.section # "none" => ReplaceSection(after, Output.section, run') = after
      BY <1>1, <2>3
    <3>3. content'[entries'[Resolve[outputs'[at' - 1].to]]] = after
      BY <3>1
    <3> HIDE DEF after
    <3> QED
      BY <3>1, <3>2, <3>3 DEF SectionsStable, DocOf
  <2> QED
    BY <2>2, <2>3
<1>2. CASE Check \/ RenderSaved
  <2>1. pc' = "done" \/ (pc' = "open" /\ at' = 1)
    BY <1>2 DEF Check, RenderSaved
  <2> QED
    BY <2>1 DEF SectionsStable
<1>3. CASE OpenFile
  <2>1. CASE pc' = "write"
    BY <1>0, <2>1
  <2>2. CASE pc' # "write"
    BY <1>1, <1>3, <2>2 DEF OpenFile, Busy
  <2> QED
    BY <2>1, <2>2
<1>4. CASE WriteFile
  <2>1. PICK part : NextOutput(part = Partial)
    BY <1>4 DEF WriteFile
  <2>2. Output.section = "none" /\ pc \in Busy /\ (part = Partial) \in BOOLEAN
    BY <1>4 DEF WriteFile, Composed, Busy
  <2> QED
    BY <1>1, <1>4, <2>1, <2>2 DEF WriteFile
<1>5. CASE ReadSection
  <2> DEFINE doc == IF Exists(entries, Name) THEN DocOf(Name) ELSE <<>>
             out == ReplaceSection(doc, Output.section, run)
  <2>1. CASE pc' = "temp"
    BY <1>0, <2>1
  <2>2. CASE pc' # "temp"
    <3>1. NextOutput(out # doc \/ doc = <<>>) /\ UNCHANGED <<entries, content, outputs, run>> /\ pc \in Busy
      BY <1>5, <2>2 DEF ReadSection, Busy
    <3>2. ~(out # doc \/ doc = <<>>) => doc = after
      BY <3>1 DEF DocOf
    <3> DEFINE failed == out # doc \/ doc = <<>>
    <3>3. failed \in BOOLEAN /\ NextOutput(failed)
      BY <3>1
    <3>4. ~failed => ReplaceSection(after, Output.section, run) = after
      BY <3>2
    <3> HIDE DEF failed, out, doc, after
    <3> QED
      BY <1>1, <3>1, <3>3, <3>4 DEF after
  <2> QED
    BY <2>1, <2>2
<1>6. CASE Temp \/ WriteTemp \/ CloseTemp
  <2>1. pc \in Busy /\ UNCHANGED <<outputs, run>>
    BY <1>6 DEF Temp, WriteTemp, CloseTemp, Busy
  <2>2. NextOutput(TRUE) \/ pc' \in {"fill", "close", "rename"}
    BY <1>6 DEF Temp, WriteTemp, CloseTemp, GiveUp
  <2>3. CASE NextOutput(TRUE)
    BY <1>1, <2>1, <2>3
  <2>4. CASE pc' \in {"fill", "close", "rename"}
    BY <1>0, <2>4
  <2> QED
    BY <2>2, <2>3, <2>4
<1>7. CASE Rename
  <2>1. pc = "rename" /\ pc \in Busy /\ UNCHANGED <<outputs, run, content>>
    BY <1>7 DEF Rename, Busy
  <2>2. CASE GiveUp
    BY <1>1, <2>1, <2>2 DEF GiveUp
  <2>3. CASE ~GiveUp
    <3>1. entries' = [entries EXCEPT ![Name] = tmp] /\ NextOutput(FALSE)
      BY <1>7, <2>3 DEF Rename
    <3>2. Name \in Names /\ Exists(entries, Name)
      BY <2>1, NamedOutput DEF Composed
    <3>3. DOMAIN entries = Names
      BY DEF Numbered
    <3>4. after = new
      BY <2>1, <3>1, <3>2, <3>3 DEF Composed
    <3>5. IsDocument(DocOf(Name))
      BY <3>2, NamedDocument
    <3>6. new # <<>> /\ new = ReplaceSection(DocOf(Name), Output.section, run)
      BY <2>1 DEF Composed
    <3>7. ReplaceSection(new, Output.section, run) = new
      BY <3>5, <3>6, ReplacedIsDocument
    <3> HIDE DEF after
    <3> QED
      BY <1>1, <2>1, <3>1, <3>4, <3>7 DEF after
  <2> QED
    BY <2>2, <2>3
<1>8. CASE Finish \/ Killed \/ Again
  BY <1>0, <1>8 DEF Finish, Killed, Again
<1>9. CASE UNCHANGED reportsVars
  BY <1>9 DEF reportsVars, SectionsStable, DocOf
<1> QED
  BY <1>2, <1>3, <1>4, <1>5, <1>6, <1>7, <1>8, <1>9 DEF ReportsNext

(* Once a section holds the report of a run, to replace it by that report  *)
(* again changes nothing, in whatever document and among whatever else a   *)
(* run writes, fails to write or is killed at (ReplaceSection).            *)
THEOREM SectionsHold == PlainDescription => (ReportsSpec => []SectionsStable)
<1> SUFFICES ASSUME PlainDescription PROVE ReportsSpec => []SectionsStable
  OBVIOUS
<1> DEFINE RInv == Numbered /\ Asked /\ Documents /\ Composed /\ SectionsStable
<1>1. ReportsInit => RInv
  <2>1. ReportsInit => pc = "start"
    BY DEF ReportsInit
  <2> QED
    BY <2>1, FilesInit, DocumentsInit DEF SectionsStable
<1>2. RInv /\ [ReportsNext]_reportsVars => RInv'
  BY NumberedStep, AskedStep, DocumentsStep, ComposedStep, StableStep
<1> QED
  BY <1>1, <1>2, PTL DEF ReportsSpec

-----------------------------------------------------------------------------
(* Documents that are whole.                                               *)

Clears == \A i \in 1..Len(content) : Clear(content[i])

(* The files the user has are clear.                                       *)
LEMMA ClearInit == LegibleFiles /\ ReportsInit => Clears
<1> SUFFICES ASSUME LegibleFiles, ReportsInit PROVE Clears
  OBVIOUS
<1>1. PICK f \in Files : content = f.content
  BY DEF ReportsInit
<1>2. \A i \in DOMAIN f.content : /\ f.content[i] \in Seq(Range(f.content[i]))
                                  /\ HeadingLevels(f.content[i]) /\ Legible(f.content[i])
  BY ReportsAssumption DEF LegibleFiles
<1>3. f.content \in Seq(Range(f.content))
  BY ReportsAssumption
<1>4. DOMAIN content = 1..Len(content)
  BY <1>1, <1>3
<1> QED
  BY <1>1, <1>2, <1>4 DEF Clears, Clear, IsDocument

(* A name leads to a document that is clear.                               *)
LEMMA NamedClear == ASSUME Numbered, Clears, NEW n \in Names, Exists(entries, n) PROVE Clear(DocOf(n))
  BY NamedDocument DEF Clears, DocOf

(* A step leaves every file clear.                                         *)
LEMMA ClearStep ==
  ASSUME PlainDescription, Numbered, Asked, Composed, Clears, [ReportsNext]_reportsVars
  PROVE  Clears'
<1> SUFFICES ASSUME NEW i \in 1..Len(content') PROVE Clear(content'[i])
  BY DEF Clears
<1>1. Clear(<<>>) /\ Clear(Partial)
  BY ClearWritten
<1>2. \A n \in Names : \A s : Exists(entries, n) /\ ReplaceSection(DocOf(n), s, run) # <<>> =>
        Clear(ReplaceSection(DocOf(n), s, run))
  BY NamedClear, ClearReplaced
<1>3. ASSUME i \in 1..Len(content), NEW part \in {Report(run, at), Partial} PROVE Clear(content[i] \o part)
  <2>1. PICK l : Written(l) /\ part = <<l>>
    BY ClearWritten
  <2> QED
    BY <1>3, <2>1, ClearAppended DEF Clears
<1>4. i \in 1..Len(content) => Clear(content[i])
  BY DEF Clears
<1> QED
  BY <1>1, <1>2, <1>3, <1>4, WhatIsWritten

(* The runs are counted, and writeFile writes to a file that it opened.    *)
Opened ==
  /\ run \in Nat \ {0}
  /\ pc = "write" => Exists(entries, Name) /\ entries[Name] \in over

(* A step leaves what was opened as it says.                               *)
LEMMA OpenedStep ==
  ASSUME Numbered, Asked, Opened, [ReportsNext]_reportsVars
  PROVE  Opened'
<1> USE DEF disk
<1>1. run' \in Nat \ {0}
  <2>1. run' = run \/ run' = run + 1
    BY DEF ReportsNext, Check, RenderSaved, OpenFile, WriteFile, ReadSection, Temp, WriteTemp, CloseTemp,
           Rename, Finish, Killed, Again, reportsVars
  <2> QED
    BY <2>1 DEF Opened
<1>2. CASE UNCHANGED reportsVars
  BY <1>1, <1>2 DEF reportsVars, Opened, Exists, Name
<1>3. CASE ~(UNCHANGED reportsVars) /\ ~OpenFile
  <2>1. pc' # "write"
    BY <1>3 DEF ReportsNext, Check, RenderSaved, WriteFile, ReadSection, Temp, WriteTemp, CloseTemp,
                Rename, Finish, Killed, Again, NextOutput, GiveUp
  <2> QED
    BY <1>1, <2>1 DEF Opened
<1>4. CASE OpenFile
  <2>1. CASE pc' # "write"
    BY <1>1, <2>1 DEF Opened
  <2>2. CASE pc' = "write"
    <3>1. UNCHANGED <<at, outputs>> /\ over' = over \cup {entries'[Name]} /\ pc = "open"
          /\ (Exists(entries, Name) => entries' = entries)
          /\ (~Exists(entries, Name) => entries' = [entries EXCEPT ![Name] = next])
      BY <1>4, <2>2 DEF OpenFile, NextOutput
    <3>2. Name \in Names
      BY <3>1, NamedOutput DEF Busy
    <3>3. NoFile # next /\ DOMAIN entries = Names
      BY ReportsAssumption DEF Numbered
    <3>4. entries'[Name] # NoFile /\ entries'[Name] \in over'
      BY <3>1, <3>2, <3>3 DEF Exists
    <3>5. Name' = Name
      BY <3>1 DEF Name
    <3> QED
      BY <1>1, <3>4, <3>5 DEF Opened, Exists
  <2> QED
    BY <2>1, <2>2
<1> QED
  BY <1>2, <1>3, <1>4

(* A document that has only had sections replaced, in runs up to a number. *)
WholeSince(was, doc, last) ==
  /\ SectionsIn(doc) = SectionsIn(was) /\ Outside(doc) = Outside(was)
  /\ \A s \in SectionsIn(was) :
       SectionOf(doc, s) \in {SectionOf(was, s)} \cup {WholeSection(level, r) : level \in 2..6, r \in 1..last}

Was(name) == original.content[original.entries[name]]

Wholes ==
  \A name \in Names :
    Exists(original.entries, name) /\ entries[name] \notin over =>
      Exists(entries, name) /\ WholeSince(Was(name), DocOf(name), run)

(* Another section replaced.                                               *)
LEMMA WholeReplaced ==
  ASSUME NEW last \in Nat \ {0}, NEW was, NEW doc, WholeSince(was, doc, last), NEW out, NEW name,
         Replaced(doc, out, name, last)
  PROVE  WholeSince(was, out, last)
<1>1. SectionsIn(out) = SectionsIn(was) /\ Outside(out) = Outside(was)
  BY DEF WholeSince, Replaced
<1>2. ASSUME NEW s \in SectionsIn(was)
      PROVE  SectionOf(out, s) \in {SectionOf(was, s)} \cup {WholeSection(level, r) : level \in 2..6, r \in 1..last}
  <2>1. CASE s = name
    <3>1. last \in 1..last
      OBVIOUS
    <3> QED
      BY <2>1, <3>1 DEF Replaced
  <2>2. CASE s # name
    BY <2>2 DEF WholeSince, Replaced
  <2> QED
    BY <2>1, <2>2
<1> QED
  BY <1>1, <1>2 DEF WholeSince

(* At the start every file is the user's.                                  *)
LEMMA WholeInit == ReportsInit => Wholes /\ Opened
<1> SUFFICES ASSUME ReportsInit PROVE Wholes /\ Opened
  OBVIOUS
<1>1. entries = original.entries /\ content = original.content /\ run = 1 /\ pc = "start"
  BY DEF ReportsInit
<1> QED
  BY <1>1 DEF Wholes, Opened, WholeSince, Was, DocOf, Exists

(* A step that leaves the file of a name as it is, or writes over it.      *)
LEMMA WholeStep ==
  ASSUME PlainDescription, Numbered, Asked, Composed, Clears, Opened, Wholes, [ReportsNext]_reportsVars
  PROVE  Wholes'
<1> USE DEF disk
<1>0. run \in Nat \ {0} /\ original' = original /\ run' \in Nat /\ run <= run'
  <2>1. original' = original /\ (run' = run \/ run' = run + 1)
    BY DEF ReportsNext, Check, RenderSaved, OpenFile, WriteFile, ReadSection, Temp, WriteTemp, CloseTemp,
           Rename, Finish, Killed, Again, reportsVars
  <2> QED
    BY <2>1 DEF Opened
<1> SUFFICES ASSUME NEW name \in Names, Exists(original.entries, name), entries'[name] \notin over'
             PROVE  Exists(entries', name) /\ WholeSince(Was(name), content'[entries'[name]], run')
  BY <1>0 DEF Wholes, Was, DocOf
<1>1. ASSUME NEW was, NEW doc, WholeSince(was, doc, run) PROVE WholeSince(was, doc, run')
  <2>1. 1..run \subseteq 1..run'
    BY <1>0
  <2> QED
    BY <1>1, <2>1 DEF WholeSince
<1>2. ASSUME entries[name] \notin over PROVE Exists(entries, name) /\ WholeSince(Was(name), DocOf(name), run)
  BY <1>2 DEF Wholes
<1>3. ASSUME entries'[name] = entries[name], over \subseteq over',
             entries[name] \in 1..Len(content) /\ entries[name] \notin over =>
               content'[entries[name]] = content[entries[name]]
      PROVE  Exists(entries', name) /\ WholeSince(Was(name), content'[entries'[name]], run')
  <2>1. entries[name] \notin over
    BY <1>3
  <2>2. Exists(entries, name) /\ WholeSince(Was(name), DocOf(name), run)
    BY <1>2, <2>1
  <2>3. entries[name] \in 1..Len(content)
    BY <2>2, NamedDocument
  <2>4. content'[entries'[name]] = DocOf(name)
    BY <1>3, <2>1, <2>3 DEF DocOf
  <2> QED
    BY <1>1, <1>3, <2>2, <2>4 DEF Exists
<1>4. PICK D : content \in Seq(D)
  BY DEF Numbered
<1>5. ASSUME NEW n, NEW doc, content' = [content EXCEPT ![n] = doc], n # entries[name]
      PROVE  entries[name] \in 1..Len(content) => content'[entries[name]] = content[entries[name]]
  BY <1>4, <1>5
<1>6. ASSUME content' = Append(content, <<>>)
      PROVE  entries[name] \in 1..Len(content) => content'[entries[name]] = content[entries[name]]
  BY <1>4, <1>6, NewFile
<1>7. CASE OpenFile
  <2>1. over \subseteq over'
    BY <1>7 DEF OpenFile
  <2>2. CASE UNCHANGED <<disk, over>>
    BY <1>3, <2>2
  <2>3. CASE Exists(entries, Name) /\ ~(UNCHANGED <<disk, over>>)
    <3>1. entries' = entries /\ over' = over \cup {entries'[Name]}
          /\ content' = IF Output.append THEN content ELSE [content EXCEPT ![entries[Name]] = <<>>]
      BY <1>7, <2>3 DEF OpenFile
    <3>2. entries[Name] # entries[name]
      BY <3>1
    <3> QED
      BY <1>3, <1>5, <2>1, <3>1, <3>2
  <2>4. CASE ~Exists(entries, Name) /\ ~(UNCHANGED <<disk, over>>)
    <3>1. entries' = [entries EXCEPT ![Name] = next] /\ over' = over \cup {entries'[Name]}
          /\ content' = Append(content, <<>>)
      BY <1>7, <2>4 DEF OpenFile
    <3>2. DOMAIN entries = Names
      BY DEF Numbered
    <3>3. name # Name
      BY <3>1, <3>2
    <3>4. entries'[name] = entries[name]
      BY <3>1, <3>3
    <3> QED
      BY <1>3, <1>6, <2>1, <3>1, <3>4
  <2> QED
    BY <2>2, <2>3, <2>4
<1>8. CASE WriteFile
  <2>1. PICK part : content' = [content EXCEPT ![entries[Name]] = @ \o part]
    BY <1>8 DEF WriteFile
  <2>2. entries' = entries /\ over' = over /\ entries[Name] \in over
    BY <1>8 DEF WriteFile, Opened
  <2>3. entries[Name] # entries[name]
    BY <2>2
  <2> DEFINE doc == content[entries[Name]] \o part
             n == entries[Name]
  <2>4. content' = [content EXCEPT ![n] = doc] /\ n # entries[name]
    BY <2>1, <2>3
  <2> HIDE DEF doc, n
  <2> QED
    BY <1>3, <1>5, <2>2, <2>4
<1>9. CASE Temp
  <2>1. entries' = entries /\ over' = over /\ (content' = content \/ content' = Append(content, <<>>))
    BY <1>9 DEF Temp
  <2> QED
    BY <1>3, <1>6, <2>1
<1>10. CASE WriteTemp
  <2>1. entries' = entries /\ over' = over /\ pc = "fill"
        /\ \E doc : content' = [content EXCEPT ![tmp] = doc]
    BY <1>10 DEF WriteTemp
  <2>2. tmp # entries[name]
    BY <2>1 DEF Composed, Temporary
  <2> QED
    BY <1>3, <1>5, <2>1, <2>2
<1>11. CASE Rename
  <2>1. content' = content /\ pc = "rename" /\ run' = run
    BY <1>11 DEF Rename
  <2>2. CASE GiveUp /\ UNCHANGED <<entries, over>>
    BY <1>3, <2>1, <2>2
  <2>3. CASE ~(GiveUp /\ UNCHANGED <<entries, over>>)
    <3>1. entries' = [entries EXCEPT ![Name] = tmp]
          /\ over' = IF entries[Name] \in over THEN over \cup {tmp} ELSE over
      BY <1>11, <2>3 DEF Rename
    <3>2. over \subseteq over' /\ DOMAIN entries = Names
      BY <3>1 DEF Numbered
    <3>3. CASE name # Name
      <4>1. entries'[name] = entries[name]
        BY <3>1, <3>3
      <4> QED
        BY <1>3, <2>1, <3>2, <4>1
    <3>4. CASE name = Name
      <4>1. entries'[name] = tmp /\ entries[name] \notin over
        BY <3>1, <3>2, <3>4
      <4>2. Exists(entries, name) /\ WholeSince(Was(name), DocOf(name), run)
        BY <1>2, <4>1
      <4>3. new = ReplaceSection(DocOf(name), Output.section, run) /\ new # <<>> /\ content[tmp] = new
        BY <2>1, <3>4 DEF Composed
      <4>4. Clear(DocOf(name))
        BY <4>2, NamedClear
      <4>5. Replaced(DocOf(name), new, Output.section, run)
        BY <4>3, <4>4, ClearReplaced
      <4>6. WholeSince(Was(name), new, run)
        BY <1>0, <4>2, <4>5, WholeReplaced
      <4>7. Exists(entries', name)
        <5>1. tmp \in Nat \ {0}
          BY <2>1 DEF Numbered
        <5> QED
          BY <4>1, <5>1, ReportsAssumption DEF Exists
      <4> QED
        BY <1>1, <2>1, <4>1, <4>3, <4>6, <4>7
    <3> QED
      BY <3>3, <3>4
  <2> QED
    BY <2>2, <2>3
<1>12. CASE Check \/ RenderSaved \/ ReadSection \/ CloseTemp \/ Finish \/ Killed \/ Again
            \/ UNCHANGED reportsVars
  <2>1. entries' = entries /\ content' = content /\ over' = over
    BY <1>12 DEF Check, RenderSaved, ReadSection, CloseTemp, Finish, Killed, Again, reportsVars
  <2> QED
    BY <1>3, <2>1
<1> QED
  BY <1>7, <1>8, <1>9, <1>10, <1>11, <1>12 DEF ReportsNext

(* Whatever fails and whenever himorime is killed, a document that only    *)
(* has sections replaced is whole: outside its sections it is what it was, *)
(* and each section holds what it held or all of one run's report          *)
(* (UpdateMarkdownSection, replaceFile).                                   *)
THEOREM DocumentsStayWhole ==
  LegibleFiles /\ PlainDescription => (ReportsSpec => []DocumentsWhole)
<1> SUFFICES ASSUME LegibleFiles, PlainDescription PROVE ReportsSpec => []DocumentsWhole
  OBVIOUS
<1> DEFINE RInv == Numbered /\ Asked /\ Documents /\ Composed /\ Clears /\ Opened /\ Wholes
<1>1. ReportsInit => RInv
  BY FilesInit, DocumentsInit, ClearInit, WholeInit
<1>2. RInv /\ [ReportsNext]_reportsVars => RInv'
  BY NumberedStep, AskedStep, DocumentsStep, ComposedStep, ClearStep, OpenedStep, WholeStep
<1>3. RInv => DocumentsWhole
  BY DEF Wholes, WholeSince, Was, DocumentsWhole
<1> QED
  BY <1>1, <1>2, <1>3, PTL DEF ReportsSpec

-----------------------------------------------------------------------------
(* What an invocation says it has written.                                 *)

(* The output that is done is in its file, whole.                          *)
HeldIn(doc, o, r, i) ==
  IF o.section # "none"
  THEN \E level \in 2..6 : SectionOf(doc, o.section) = WholeSection(level, r)
  ELSE IF o.append THEN Report(r, i) = <<Last(doc)>> ELSE doc = Report(r, i)

Target(i) == Resolve[outputs[i].to]
Held(i) == Exists(entries, Target(i)) /\ HeldIn(DocOf(Target(i)), outputs[i], run, i)

(* Two outputs go to two files, or to two sections of one.                 *)
Sections(i, j) ==
  outputs[i].section # "none" /\ outputs[j].section # "none" /\ outputs[i].section # outputs[j].section

Apart ==
  \A i, j \in 1..Len(outputs) : i < j => ~Same(outputs[i].to, outputs[j].to) \/ Sections(i, j)

Writing == Busy \cup {"finish"}

Progress ==
  /\ pc \in Writing => Apart /\ \A i \in 1..Len(outputs) : i < at /\ i \notin errs => Held(i)
  /\ pc = "write" /\ ~Output.append => DocOf(Name) = <<>>
  /\ pc \notin Temporary => tmp = 0
  /\ status = "ok" => pc = "done" /\ \A i \in 1..Len(outputs) : Held(i)

(* The file of a name, after one of the files was written over or made.    *)
LEMMA OthersKept ==
  ASSUME Numbered, NEW n \in Names, Exists(entries, n)
  PROVE  /\ \A x, doc : content' = [content EXCEPT ![x] = doc] /\ x # entries[n] =>
              content'[entries[n]] = content[entries[n]]
         /\ \A x, doc : content' = [content EXCEPT ![x] = doc] /\ x = entries[n] =>
              content'[entries[n]] = doc
         /\ content' = Append(content, <<>>) => content'[entries[n]] = content[entries[n]]
<1>1. PICK D : content \in Seq(D)
  BY DEF Numbered
<1>2. entries[n] \in 1..Len(content) /\ DOMAIN content = 1..Len(content)
  BY <1>1, NamedDocument
<1> QED
  BY <1>1, <1>2, NewFile

(* No name has the file that a step makes or gives a name to.              *)
LEMMA FreshFile ==
  ASSUME Numbered, Composed, NEW n \in Names
  PROVE  entries[n] # next /\ (pc \in Temporary => entries[n] # tmp)
<1>1. NoFile # next /\ next \in Nat \ {0} /\ entries \in [Names -> {NoFile} \cup 1..(next - 1)]
  BY ReportsAssumption DEF Numbered
<1> QED
  BY <1>1 DEF Composed

(* The target of an output is a name.                                      *)
LEMMA TargetIs == ASSUME Asked, NEW i \in 1..Len(outputs) PROVE Target(i) \in Names
  BY ReportsAssumption DEF Asked, Target

(* Two outputs that are apart stay so.                                     *)
LEMMA StayApart ==
  ASSUME Numbered, Asked, Composed, Apart, pc \in Busy, [ReportsNext]_reportsVars, outputs' = outputs
  PROVE  Apart'
<1> USE DEF disk
<1>1. entries' = entries => Apart'
  BY DEF Apart, Same, Exists, Sections
<1>2. ASSUME NEW x, \A n \in Names : entries[n] # x, entries' = [entries EXCEPT ![Name] = x] PROVE Apart'
  <2> SUFFICES ASSUME NEW i \in 1..Len(outputs), NEW j \in 1..Len(outputs), i < j, ~Sections(i, j),
                      Same(outputs[i].to, outputs[j].to)'
               PROVE  FALSE
    BY DEF Apart, Sections
  <2>1. ~Same(outputs[i].to, outputs[j].to)
    BY DEF Apart
  <2>2. Target(i) \in Names /\ Target(j) \in Names /\ DOMAIN entries = Names
    BY TargetIs DEF Numbered
  <2>3. Target(i) # Target(j)
    BY <2>1 DEF Same, Target
  <2>4. entries'[Target(i)] = entries'[Target(j)] /\ entries'[Target(i)] # NoFile
    BY <2>3 DEF Same, Target, Exists
  <2>5. \A n \in Names : entries'[n] = IF n = Name THEN x ELSE entries[n]
    BY <1>2, <2>2
  <2>6. entries[Target(i)] = entries[Target(j)] /\ entries[Target(i)] # NoFile
    BY <1>2, <2>2, <2>3, <2>4, <2>5
  <2> QED
    BY <2>1, <2>6 DEF Same, Target, Exists
<1>3. CASE OpenFile
  <2>1. entries' = entries \/ entries' = [entries EXCEPT ![Name] = next]
    BY <1>3 DEF OpenFile
  <2> QED
    BY <1>1, <1>2, <2>1, FreshFile
<1>4. CASE Rename
  <2>1. entries' = entries \/ entries' = [entries EXCEPT ![Name] = tmp]
    BY <1>4 DEF Rename
  <2>2. pc \in Temporary
    BY <1>4 DEF Rename, Temporary
  <2> QED
    BY <1>1, <1>2, <2>1, <2>2, FreshFile
<1>5. CASE ~OpenFile /\ ~Rename
  <2>1. entries' = entries
    BY <1>5 DEF ReportsNext, Check, RenderSaved, WriteFile, ReadSection, Temp, WriteTemp, CloseTemp,
                Finish, Killed, Again, reportsVars
  <2> QED
    BY <1>1, <2>1
<1> QED
  BY <1>3, <1>4, <1>5

(* Once an output is in its file, no later one takes it away.              *)
LEMMA StaysHeld ==
  ASSUME PlainDescription, Numbered, Asked, Composed, Clears, Opened, Apart, pc \in Busy, [ReportsNext]_reportsVars,
         outputs' = outputs, run' = run, NEW i \in 1..Len(outputs), i < at, Held(i)
  PROVE  Held(i)'
<1> USE DEF disk
<1> DEFINE n == Target(i)
<1>0. n \in Names /\ Name \in Names /\ Exists(entries, n) /\ HeldIn(DocOf(n), outputs[i], run, i) /\ n' = n
      /\ at \in 1..Len(outputs) /\ DOMAIN entries = Names
  BY TargetIs, NamedOutput DEF Held, Target, Asked, Numbered
<1>1. ASSUME Exists(entries', n), HeldIn(content'[entries'[n]], outputs[i], run, i) PROVE Held(i)'
  BY <1>0, <1>1 DEF Held, DocOf
<1>2. ASSUME entries'[n] = entries[n], content'[entries[n]] = content[entries[n]] PROVE Held(i)'
  BY <1>0, <1>1, <1>2 DEF DocOf, Exists
<1>3. ~Same(outputs[i].to, outputs[at].to) \/ Sections(i, at)
  BY <1>0 DEF Apart
<1>4. ASSUME Output.section = "none", Exists(entries, Name) PROVE n # Name /\ entries[n] # entries[Name]
  BY <1>0, <1>3, <1>4 DEF Same, Sections, Output, Target, Name
<1>5. CASE OpenFile
  <2>0. Output.section = "none"
    BY <1>5 DEF OpenFile
  <2>1. CASE UNCHANGED <<disk, over>>
    BY <1>2, <2>1
  <2>2. CASE Exists(entries, Name) /\ ~(UNCHANGED <<disk, over>>)
    <3>1. entries' = entries
          /\ content' = IF Output.append THEN content ELSE [content EXCEPT ![entries[Name]] = <<>>]
      BY <1>5, <2>2 DEF OpenFile
    <3>2. content'[entries[n]] = content[entries[n]]
      BY <1>0, <1>4, <2>0, <2>2, <3>1, OthersKept
    <3> QED
      BY <1>2, <3>1, <3>2
  <2>3. CASE ~Exists(entries, Name) /\ ~(UNCHANGED <<disk, over>>)
    <3>1. entries' = [entries EXCEPT ![Name] = next] /\ content' = Append(content, <<>>)
      BY <1>5, <2>3 DEF OpenFile
    <3>2. n # Name
      BY <1>0, <2>3
    <3>3. entries'[n] = entries[n]
      BY <1>0, <3>1, <3>2
    <3>4. content'[entries[n]] = content[entries[n]]
      BY <1>0, <3>1, OthersKept
    <3> QED
      BY <1>2, <3>3, <3>4
  <2> QED
    BY <2>1, <2>2, <2>3
<1>6. CASE WriteFile
  <2>1. PICK part : content' = [content EXCEPT ![entries[Name]] = @ \o part]
    BY <1>6 DEF WriteFile
  <2>2. entries' = entries /\ Output.section = "none" /\ Exists(entries, Name)
    BY <1>6 DEF WriteFile, Opened, Composed
  <2> DEFINE doc == content[entries[Name]] \o part
             x == entries[Name]
  <2>3. content' = [content EXCEPT ![x] = doc] /\ x # entries[n]
    BY <1>4, <2>1, <2>2
  <2> HIDE DEF doc, x
  <2>4. content'[entries[n]] = content[entries[n]]
    BY <1>0, <2>3, OthersKept
  <2> QED
    BY <1>2, <2>2, <2>4
<1>7. CASE Temp
  <2>1. entries' = entries /\ (content' = content \/ content' = Append(content, <<>>))
    BY <1>7 DEF Temp
  <2> QED
    BY <1>0, <1>2, <2>1, OthersKept
<1>8. CASE WriteTemp
  <2>1. entries' = entries /\ pc \in Temporary /\ \E doc : content' = [content EXCEPT ![tmp] = doc]
    BY <1>8 DEF WriteTemp, Temporary
  <2>2. tmp # entries[n]
    BY <1>0, <2>1, FreshFile
  <2> QED
    BY <1>0, <1>2, <2>1, <2>2, OthersKept
<1>9. CASE Rename
  <2>1. content' = content /\ pc = "rename"
    BY <1>9 DEF Rename
  <2>2. CASE entries' = entries
    BY <1>2, <2>1, <2>2
  <2>3. CASE entries' # entries
    <3>1. entries' = [entries EXCEPT ![Name] = tmp]
      BY <1>9, <2>3 DEF Rename
    <3>2. CASE n # Name
      <4>1. entries'[n] = entries[n]
        BY <1>0, <3>1, <3>2
      <4> QED
        BY <1>2, <2>1, <4>1
    <3>3. CASE n = Name
      <4>1. Sections(i, at)
        BY <1>3, <3>3 DEF Same, Target, Name
      <4>2. new = ReplaceSection(DocOf(Name), Output.section, run) /\ new # <<>> /\ content[tmp] = new
        BY <2>1 DEF Composed
      <4>3. Clear(DocOf(Name))
        BY <1>0, <3>3, NamedClear
      <4>4. Replaced(DocOf(Name), new, Output.section, run)
        BY <4>2, <4>3, ClearReplaced
      <4>5. SectionOf(new, outputs[i].section) = SectionOf(DocOf(Name), outputs[i].section)
        BY <4>1, <4>4 DEF Replaced, Sections, Output
      <4>6. HeldIn(new, outputs[i], run, i)
        BY <1>0, <3>3, <4>1, <4>5 DEF HeldIn, Sections
      <4>7. entries'[n] = tmp /\ tmp \in Nat \ {0}
        BY <1>0, <2>1, <3>1, <3>3 DEF Numbered
      <4>8. Exists(entries', n)
        BY <4>7, ReportsAssumption DEF Exists
      <4> QED
        BY <1>1, <2>1, <4>2, <4>6, <4>7, <4>8
    <3> QED
      BY <3>2, <3>3
  <2> QED
    BY <2>2, <2>3
<1>10. CASE Check \/ RenderSaved \/ ReadSection \/ CloseTemp \/ Finish \/ Killed \/ Again
            \/ UNCHANGED reportsVars
  <2>1. entries' = entries /\ content' = content
    BY <1>10 DEF Check, RenderSaved, ReadSection, CloseTemp, Finish, Killed, Again, reportsVars
  <2> QED
    BY <1>2, <2>1
<1> QED
  BY <1>5, <1>6, <1>7, <1>8, <1>9, <1>10 DEF ReportsNext

(* An output that has not failed is in its file.                           *)
LEMMA BecomesHeld ==
  ASSUME PlainDescription, Numbered, Asked, Composed, Clears, Opened, Progress, pc \in Busy, ReportsNext,
         NEW i, i = at, at' = at + 1, at \notin errs'
  PROVE  Held(i)'
<1> USE DEF disk
<1>0. /\ at \in 1..Len(outputs) /\ at' # at /\ Name \in Names /\ Target(i) = Name
      /\ ~NextOutput(TRUE) /\ DOMAIN entries = Names
  BY NamedOutput DEF Asked, Target, Name, NextOutput, Numbered
<1>1. outputs[i] = Output
  BY DEF Output
<1>2. ASSUME UNCHANGED <<outputs, run>>, Exists(entries', Name), HeldIn(content'[entries'[Name]], outputs[i], run, i) PROVE Held(i)'
  <2>1. Target(i)' = Name
    BY <1>0, <1>2 DEF Target
  <2> QED
    BY <1>2, <2>1 DEF Held, DocOf
<1>3. CASE OpenFile
  BY <1>0, <1>3 DEF OpenFile
<1>4. CASE WriteFile
  <2>1. PICK part \in {Report(run, at), Partial} :
               content' = [content EXCEPT ![entries[Name]] = @ \o part] /\ NextOutput(part = Partial)
    BY <1>4 DEF WriteFile
  <2>2. pc = "write" /\ UNCHANGED <<outputs, run, entries>> /\ Output.section = "none" /\ Exists(entries, Name)
    BY <1>4 DEF WriteFile, Opened, Composed
  <2>3. part # Partial
    BY <1>0, <2>1 DEF NextOutput
  <2>4. part = Report(run, i)
    BY <2>1, <2>3
  <2> DEFINE doc == DocOf(Name)
             out == doc \o part
             x == entries[Name]
  <2>5. content' = [content EXCEPT ![x] = out]
    BY <2>1 DEF DocOf
  <2>6. IsDocument(doc)
    BY <1>0, <2>2, NamedClear DEF Clear
  <2> HIDE DEF doc, out
  <2>7. content'[entries'[Name]] = out
    BY <1>0, <2>2, <2>5, OthersKept
  <2>8. PICK l : part = <<l>>
    BY <2>4, ClearWritten
  <2>9. part = <<Last(out)>> /\ (doc = <<>> => out = part)
    <3>1. PICK E : doc \in Seq(E)
      BY <2>6 DEF IsDocument
    <3> DEFINE F == E \cup {l}
               one == <<l>>
               nothing == <<>>
    <3>2. doc \in Seq(F) /\ one \in Seq(F) /\ Len(one) = 1 /\ one[1] = l /\ Len(doc) \in Nat
      BY <3>1
    <3> HIDE DEF F, one
    <3>3. out = doc \o one
      BY <2>8 DEF out, one
    <3>4. /\ out \in Seq(F) /\ Len(out) = Len(doc) + Len(one)
          /\ \A k \in 1..(Len(doc) + Len(one)) : out[k] = IF k <= Len(doc) THEN doc[k] ELSE one[k - Len(doc)]
      BY <3>2, <3>3, ConcatProperties
    <3>5. Len(out) = Len(doc) + 1 /\ out[Len(doc) + 1] = l
      <4>1. Len(doc) + 1 \in 1..(Len(doc) + Len(one)) /\ ~(Len(doc) + 1 <= Len(doc)) /\ (Len(doc) + 1) - Len(doc) = 1
        BY <3>2
      <4> QED
        BY <3>2, <3>4, <4>1
    <3>6. Last(out) = l
      BY <3>5 DEF Last
    <3>7. doc = nothing => out = part
      <4>1. nothing \o one = one
        BY <3>2, ConcatEmptySeq
      <4> QED
        BY <2>8, <3>3, <4>1 DEF one
    <3> QED
      BY <2>8, <3>6, <3>7
  <2>10. ~Output.append => doc = <<>>
    BY <2>2 DEF Progress, doc
  <2>11. HeldIn(out, outputs[i], run, i)
    BY <1>1, <2>2, <2>4, <2>9, <2>10 DEF HeldIn
  <2> QED
    BY <1>2, <2>2, <2>7, <2>11 DEF Exists
<1>5. CASE ReadSection
  <2> DEFINE doc == IF Exists(entries, Name) THEN DocOf(Name) ELSE <<>>
             out == ReplaceSection(doc, Output.section, run)
  <2>1. UNCHANGED <<outputs, run, entries, content>> /\ Output.section # "none" /\ NextOutput(out # doc \/ doc = <<>>)
    BY <1>0, <1>5 DEF ReadSection
  <2>2. out = doc /\ doc # <<>>
    <3> DEFINE failed == out # doc \/ doc = <<>>
    <3>1. failed \in BOOLEAN /\ NextOutput(failed)
      BY <2>1
    <3> HIDE DEF failed
    <3>2. ~failed
      BY <1>0, <3>1
    <3> QED
      BY <3>2 DEF failed
  <2>3. Exists(entries, Name) /\ doc = DocOf(Name)
    BY <2>2
  <2>4. ReplaceSection(DocOf(Name), Output.section, run) = DocOf(Name) /\ DocOf(Name) # <<>>
    BY <2>2, <2>3
  <2>5. Replaced(DocOf(Name), DocOf(Name), Output.section, run)
    BY <1>0, <2>3, <2>4, NamedClear, ClearReplaced
  <2>6. HeldIn(DocOf(Name), outputs[i], run, i)
    BY <1>1, <2>1, <2>5 DEF HeldIn, Replaced
  <2> QED
    BY <1>2, <2>1, <2>3, <2>6 DEF DocOf, Exists
<1>6. CASE Temp
  BY <1>0, <1>6 DEF Temp
<1>7. CASE WriteTemp \/ CloseTemp
  BY <1>0, <1>7 DEF WriteTemp, CloseTemp, GiveUp
<1>8. CASE Rename
  <2>1. pc = "rename" /\ UNCHANGED <<outputs, run, content>> /\ entries' = [entries EXCEPT ![Name] = tmp]
    BY <1>0, <1>8 DEF Rename, GiveUp
  <2>2. /\ Output.section # "none" /\ Exists(entries, Name)
        /\ new = ReplaceSection(DocOf(Name), Output.section, run) /\ new # <<>> /\ content[tmp] = new
    BY <2>1 DEF Composed
  <2>3. Replaced(DocOf(Name), new, Output.section, run)
    BY <1>0, <2>2, NamedClear, ClearReplaced
  <2>4. HeldIn(new, outputs[i], run, i)
    BY <1>1, <2>2, <2>3 DEF HeldIn, Replaced
  <2>5. entries'[Name] = tmp /\ tmp \in Nat \ {0}
    BY <1>0, <2>1 DEF Numbered
  <2>6. Exists(entries', Name)
    BY <2>5, ReportsAssumption DEF Exists
  <2> QED
    BY <1>2, <2>1, <2>2, <2>4, <2>5, <2>6
<1>9. CASE Check \/ RenderSaved \/ Finish \/ Again
  BY <1>9 DEF Check, RenderSaved, Finish, Again, Busy
<1>10. CASE Killed
  BY <1>0, <1>10 DEF Killed
<1> QED
  BY <1>3, <1>4, <1>5, <1>6, <1>7, <1>8, <1>9, <1>10 DEF ReportsNext

(* At the start nothing is being written.                                  *)
LEMMA ProgressInit == ReportsInit => Progress
<1> SUFFICES ASSUME ReportsInit PROVE Progress
  OBVIOUS
<1>1. pc = "start" /\ tmp = 0 /\ status = "none"
  BY DEF ReportsInit
<1> QED
  BY <1>1 DEF Progress, Writing, Busy, Temporary

(* While it writes.                                                        *)
LEMMA WritingStep ==
  ASSUME PlainDescription, Numbered, Asked, Composed, Clears, Opened, Progress,
         OpenFile \/ WriteFile \/ ReadSection \/ Temp \/ WriteTemp \/ CloseTemp \/ Rename
  PROVE  Progress'
<1> USE DEF disk
<1>1. /\ pc \in Busy /\ UNCHANGED <<outputs, run, status>> /\ ReportsNext
      /\ (UNCHANGED <<at, errs>> \/ \E failed \in BOOLEAN : NextOutput(failed))
  BY DEF OpenFile, WriteFile, ReadSection, Temp, WriteTemp, CloseTemp, Rename, GiveUp, Busy, ReportsNext
<1>2. at \in 1..Len(outputs) /\ Len(outputs) \in Nat /\ at' \in {at, at + 1} /\ errs \subseteq errs'
  BY <1>1 DEF Asked, NextOutput
<1>3. Apart /\ status' # "ok"
  BY <1>1 DEF Progress, Writing, Busy
<1>4. Apart'
  BY <1>1, <1>3, StayApart
<1>5. ASSUME NEW i \in 1..Len(outputs), i < at', i \notin errs' PROVE Held(i)'
  <2>1. CASE i < at
    <3>1. i \notin errs
      BY <1>2, <1>5
    <3>2. Held(i)
      BY <1>1, <2>1, <3>1 DEF Progress, Writing
    <3> QED
      BY <1>1, <1>3, <2>1, <3>2, StaysHeld
  <2>2. CASE ~(i < at)
    <3>1. i = at /\ at' = at + 1
      BY <1>2, <1>5, <2>2
    <3>2. at \notin errs'
      BY <1>5, <3>1
    <3> QED
      BY <1>1, <3>1, <3>2, BecomesHeld
  <2> QED
    BY <2>1, <2>2
<1>6. pc' = "write" /\ ~Output'.append => DocOf(Name)' = <<>>
  <2> SUFFICES ASSUME pc' = "write", ~Output'.append PROVE DocOf(Name)' = <<>>
    OBVIOUS
  <2>1. OpenFile
    BY DEF WriteFile, ReadSection, Temp, WriteTemp, CloseTemp, Rename, NextOutput, GiveUp
  <2>2. /\ UNCHANGED <<outputs, at>>
        /\ (Exists(entries, Name) => entries' = entries /\ content' =
              IF Output.append THEN content ELSE [content EXCEPT ![entries[Name]] = <<>>])
        /\ (~Exists(entries, Name) => entries' = [entries EXCEPT ![Name] = next] /\ content' = Append(content, <<>>))
    BY <2>1 DEF OpenFile, NextOutput
  <2>3. Name \in Names /\ DOMAIN entries = Names /\ Name' = Name /\ ~Output.append
    BY <1>1, <2>2, NamedOutput DEF Numbered, Name, Output
  <2>4. CASE Exists(entries, Name)
    <3>1. content'[entries[Name]] = <<>>
      <4> DEFINE x == entries[Name]
                 nothing == <<>>
      <4>1. content' = [content EXCEPT ![x] = nothing]
        BY <2>2, <2>3, <2>4
      <4> HIDE DEF nothing
      <4>2. content'[x] = nothing
        BY <2>3, <2>4, <4>1, OthersKept
      <4> QED
        BY <4>2 DEF nothing
    <3> QED
      BY <2>2, <2>3, <2>4, <3>1 DEF DocOf
  <2>5. CASE ~Exists(entries, Name)
    <3>1. entries'[Name] = next /\ next = Len(content) + 1
      BY <2>2, <2>3, <2>5 DEF Numbered
    <3>2. PICK D : content \in Seq(D)
      BY DEF Numbered
    <3> DEFINE nothing == <<>>
    <3>3. Append(content, nothing)[Len(content) + 1] = nothing
      <4> HIDE DEF nothing
      <4> QED
        BY <3>2, AppendProperties
    <3>4. content'[next] = nothing
      BY <2>2, <2>5, <3>1, <3>3
    <3> QED
      BY <2>3, <3>1, <3>4 DEF DocOf
  <2> QED
    BY <2>4, <2>5
<1>7. pc' \notin Temporary => tmp' = 0
  BY DEF Progress, OpenFile, WriteFile, ReadSection, Temp, WriteTemp, CloseTemp, Rename, GiveUp, Temporary
<1> QED
  BY <1>1, <1>3, <1>4, <1>5, <1>6, <1>7 DEF Progress

(* A step of an invocation keeps what its progress says.                   *)
LEMMA ProgressStep ==
  ASSUME PlainDescription, Numbered, Asked, Composed, Clears, Opened, Progress, [ReportsNext]_reportsVars
  PROVE  Progress'
<1> USE DEF disk
<1>1. CASE Check
  <2>1. tmp' = tmp /\ tmp = 0 /\ status # "ok" /\ pc = "start" /\ UNCHANGED <<entries, content>>
    BY <1>1 DEF Check, Progress, Temporary
  <2>2. CASE pc' = "done"
    BY <1>1, <2>1, <2>2 DEF Check, Progress, Writing, Busy
  <2>3. CASE pc' # "done"
    <3>1. pc' = "open" /\ at' = 1 /\ status' = status /\ ~Conflict(outputs') /\ outputs' \in Requests
      BY <1>1, <2>3 DEF Check
    <3>2. outputs' \in Seq(Range(outputs'))
      BY <3>1, ReportsAssumption
    <3>3. DOMAIN outputs' = 1..Len(outputs')
      BY <3>2
    <3>4. Apart'
      BY <2>1, <3>1, <3>3 DEF Conflict, Apart, Sections, Same, Exists
    <3>5. \A i \in 1..Len(outputs') : ~(i < at')
      BY <3>1
    <3> QED
      BY <2>1, <3>1, <3>4, <3>5 DEF Progress, Temporary
  <2> QED
    BY <2>2, <2>3
<1>2. CASE RenderSaved
  <2>1. tmp' = tmp /\ tmp = 0 /\ status # "ok" /\ pc = "start"
    BY <1>2 DEF RenderSaved, Progress, Temporary
  <2>2. CASE pc' = "done"
    BY <1>2, <2>1, <2>2 DEF RenderSaved, Progress, Writing, Busy
  <2>3. CASE pc' # "done"
    <3>1. PICK to : pc' = "open" /\ at' = 1 /\ status' = status
                    /\ outputs' = <<[to |-> to, section |-> "none", append |-> FALSE]>>
      BY <1>2, <2>3 DEF RenderSaved
    <3>2. Len(outputs') = 1
      BY <3>1
    <3>3. \A i, j \in 1..Len(outputs') : ~(i < j)
      BY <3>2
    <3>4. Apart'
      BY <3>3 DEF Apart
    <3>5. \A i \in 1..Len(outputs') : ~(i < at')
      BY <3>1
    <3> QED
      BY <2>1, <3>1, <3>4, <3>5 DEF Progress, Temporary
  <2> QED
    BY <2>2, <2>3
<1>3. CASE OpenFile \/ WriteFile \/ ReadSection \/ Temp \/ WriteTemp \/ CloseTemp \/ Rename
  BY <1>3, WritingStep
<1>4. ASSUME NEW i, UNCHANGED <<outputs, run, entries, content>>, Held(i) PROVE Held(i)'
  BY <1>4 DEF Held, HeldIn, Target, DocOf, Exists
<1>5. CASE Finish
  <2>1. pc = "finish" /\ pc' = "done" /\ UNCHANGED <<outputs, run, entries, content, tmp>>
        /\ (status' = "ok" => errs = {})
    BY <1>5 DEF Finish
  <2>2. tmp' = 0
    BY <2>1 DEF Progress, Temporary
  <2>3. ASSUME status' = "ok", NEW i \in 1..Len(outputs) PROVE Held(i)'
    <3>1. i < at /\ i \notin errs
      BY <2>1, <2>3 DEF Asked
    <3>2. Held(i)
      BY <2>1, <3>1 DEF Progress, Writing
    <3> QED
      BY <1>4, <2>1, <3>2
  <2> QED
    BY <2>1, <2>2, <2>3 DEF Progress, Writing, Busy
<1>6. CASE Killed
  <2>1. tmp' = 0 /\ pc' = "killed" /\ status' = status /\ pc # "done"
    BY <1>6 DEF Killed
  <2> QED
    BY <2>1 DEF Progress, Writing, Busy
<1>7. CASE Again
  <2>1. tmp' = tmp /\ tmp = 0 /\ pc' = "start" /\ status' = "none"
    BY <1>7 DEF Again, Progress, Temporary
  <2> QED
    BY <2>1 DEF Progress, Writing, Busy
<1>8. CASE UNCHANGED reportsVars
  <2>1. UNCHANGED <<pc, run, outputs, at, entries, content, tmp, errs, status>>
    BY <1>8 DEF reportsVars
  <2>2. Apart => Apart'
    BY <2>1 DEF Apart, Sections, Same, Exists
  <2>3. DocOf(Name)' = DocOf(Name) /\ Output' = Output
    BY <2>1 DEF DocOf, Name, Output
  <2> QED
    BY <1>4, <2>1, <2>2, <2>3 DEF Progress
<1> QED
  BY <1>1, <1>2, <1>3, <1>5, <1>6, <1>7, <1>8 DEF ReportsNext

(* When an invocation says that its reports are written, each destination  *)
(* holds the whole report of this run, however the destinations are        *)
(* spelled, linked and shared, and no temporary file is left               *)
(* (checkReportDestinations, writeReports, replaceFile).                   *)
THEOREM OutcomeHolds ==
  LegibleFiles /\ PlainDescription => (ReportsSpec => []ReportsHeld)
<1> SUFFICES ASSUME LegibleFiles, PlainDescription PROVE ReportsSpec => []ReportsHeld
  OBVIOUS
<1> DEFINE RInv == Numbered /\ Asked /\ Documents /\ Composed /\ Clears /\ Opened /\ Progress
<1>1. ReportsInit => RInv
  BY FilesInit, DocumentsInit, ClearInit, WholeInit, ProgressInit
<1>2. RInv /\ [ReportsNext]_reportsVars => RInv'
  BY NumberedStep, AskedStep, DocumentsStep, ComposedStep, ClearStep, OpenedStep, ProgressStep
<1>3. RInv => ReportsHeld
  <2> SUFFICES ASSUME RInv, pc = "done"
               PROVE  tmp = 0 /\ (status = "ok" => \A i \in DOMAIN outputs : Held(i))
    BY DEF ReportsHeld, Held, HeldIn, Target
  <2>1. DOMAIN outputs = 1..Len(outputs)
    BY DEF Asked
  <2> QED
    BY <2>1 DEF Progress, Temporary
<1> QED
  BY <1>1, <1>2, <1>3, PTL DEF ReportsSpec
=============================================================================
