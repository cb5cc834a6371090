-------------------------- MODULE LearnStoreProofs --------------------------
(***************************************************************************)
(* Proofs about the learner: the peak search and the derivation of bands,   *)
(* for every histogram (Histogram), and the histogram in RAM and in flash,  *)
(* for any readings, any limits of the bins and any number of boots, wipes  *)
(* and failing reads and writes (LearnStore).                               *)
(***************************************************************************)
EXTENDS LearnStore, HistogramSweep, FiniteSetTheorems, WellFoundedInduction, NaturalsInduction, TLAPS

(* Least counterexamples, and functions that count up.                      *)

\* Every non-empty set of naturals has a least member: what stands for
\* induction below, as a set of counterexamples without a least member is empty.
LEMMA LeastNat ==
    ASSUME NEW T \in SUBSET Nat, T # {}
    PROVE  \E x \in T : \A y \in T : x <= y
<1>1. IsWellFoundedOn(OpToRel(<,Nat), Nat)
  BY NatLessThanWellFounded
<1>2. PICK x \in T : \A y \in T : ~ (<<y, x>> \in OpToRel(<,Nat))
  BY <1>1, WFMin, Zenon
<1>3. ASSUME NEW y \in T PROVE x <= y
  <2>1. ~(<<y, x>> \in OpToRel(<,Nat))
    BY <1>2
  <2>2. ~(y < x)
    BY <2>1, Zenon DEF OpToRel
  <2> QED BY <2>2
<1> QED BY <1>3

\* The values that steps of op, one for each of 1..N, lead to from a.
IsRun(f, S, a, N, op) ==
    f \in [0..N -> S] /\ f[0] = a /\ \A k \in 1..N : f[k] = op[<<f[k - 1], k>>]

\* A set of values, steps that stay in it, and where they start.
AreSteps(S, a, N, op) == a \in S /\ N \in Nat /\ op \in [S \X (1..N) -> S]

\* Such values exist, and so does what a LET function that counts up defines.
LEMMA StepsExist ==
    ASSUME NEW S, NEW a, NEW N, NEW op, AreSteps(S, a, N, op)
    PROVE  \E f : IsRun(f, S, a, N, op)
<1> USE DEF AreSteps
<1> SUFFICES \E f \in [0..N -> S] : f[0] = a /\ \A k \in 1..N : f[k] = op[<<f[k - 1], k>>]
  BY Zenon DEF IsRun
<1> DEFINE Run(f, n) == f[0] = a /\ \A k \in 1..n : f[k] = op[<<f[k - 1], k>>]
           Bad == {n \in 0..N : ~ \E f \in [0..n -> S] : Run(f, n)}
<1> SUFFICES Bad = {}
  <2>1. N \in 0..N /\ N \notin Bad
    BY SMTT(30)
  <2>2. \E f \in [0..N -> S] : Run(f, N)
    <3> HIDE DEF Run
    <3> QED BY <2>1
  <2> QED BY <2>2
<1> SUFFICES ASSUME Bad # {} PROVE FALSE
  OBVIOUS
<1>0. Bad \in SUBSET Nat
  OBVIOUS
<1>1. PICK n \in Bad : \A m \in Bad : n <= m
  <2> HIDE DEF Bad
  <2> QED BY <1>0, LeastNat
<1>2. n \in 0..N /\ ~ \E f \in [0..n -> S] : Run(f, n)
  OBVIOUS
<1>3. CASE n = 0
  <2> DEFINE f == [k \in 0..0 |-> a]
  <2>1. f \in [0..0 -> S] /\ Run(f, 0)
    OBVIOUS
  <2> HIDE DEF f, Run
  <2> QED BY <2>1, <1>2, <1>3
<1>4. CASE n # 0
  <2>1. n - 1 \in 0..N /\ n - 1 \notin Bad
    BY <1>1, <1>2, <1>4
  <2>2. PICK g \in [0..(n - 1) -> S] : Run(g, n - 1)
    <3> HIDE DEF Run
    <3> QED BY <2>1
  <2> DEFINE f == [k \in 0..n |-> IF k = n THEN op[<<g[n - 1], n>>] ELSE g[k]]
  <2>3. n - 1 \in 0..(n - 1) /\ n \in 1..N
    BY <1>2, <1>4
  <2>4. <<g[n - 1], n>> \in S \X (1..N)
    BY <2>3
  <2>5. op[<<g[n - 1], n>>] \in S
    BY <2>4
  <2>6. f \in [0..n -> S]
    BY <2>5, <1>2, <1>4
  <2>7. f[0] = a
    BY <2>2, <1>2, <1>4
  <2>8. ASSUME NEW k \in 1..n PROVE f[k] = op[<<f[k - 1], k>>]
    <3>1. k - 1 \in 0..n /\ k - 1 # n
      BY <1>2
    <3>2. f[k - 1] = g[k - 1]
      BY <3>1
    <3>3. CASE k = n
      <4>1. f[k] = op[<<g[k - 1], k>>]
        BY <3>3
      <4> QED BY <4>1, <3>2, Zenon
    <3>4. CASE k # n
      <4>1. k \in 1..(n - 1)
        BY <3>4, <1>2
      <4>2. f[k] = g[k]
        BY <3>4, <1>2
      <4> QED BY <4>1, <4>2, <3>2, <2>2
    <3> QED BY <3>3, <3>4
  <2>9. Run(f, n)
    BY <2>7, <2>8
  <2> HIDE DEF f, Run
  <2> QED BY <2>6, <2>9, <1>2
<1> QED BY <1>3, <1>4

-----------------------------------------------------------------------------
(* Enumerations.                                                            *)

\* Peaks as candidates yields them: no two of the same bin.
IsPeaks(C) ==
    /\ IsFiniteSet(C)
    /\ \A p \in C : p.mass \in Nat /\ p.bin \in 0..(BINS - 1)
    /\ \A p, q \in C : p.bin = q.bin => p = q

Sorted(s) == \A i, j \in DOMAIN s : i < j => Stronger(s[i], s[j])

\* Some candidate comes after all the others.
LEMMA WeakestExists ==
    ASSUME NEW C, IsPeaks(C), C # {}
    PROVE  \E w \in C : \A p \in C \ {w} : Stronger(p, w)
<1> DEFINE M == {m \in Nat : \E p \in C : p.mass = m}
<1>1. M \in SUBSET Nat /\ M # {}
  BY DEF IsPeaks
<1>2. PICK m \in M : \A y \in M : m <= y
  <2> HIDE DEF M
  <2> QED BY <1>1, LeastNat
<1> DEFINE B == {b \in Nat : \E p \in C : p.mass = m /\ b = BINS - p.bin}
<1>3. B \in SUBSET Nat /\ B # {}
  <2>1. PICK p \in C : p.mass = m
    OBVIOUS
  <2>2. p.bin \in 0..(BINS - 1)
    BY DEF IsPeaks
  <2>3. BINS - p.bin \in Nat
    BY <2>2, HistogramAssumption
  <2> QED BY <2>1, <2>3
<1>4. PICK b \in B : \A y \in B : b <= y
  <2> HIDE DEF B
  <2> QED BY <1>3, LeastNat
<1>5. PICK w \in C : w.mass = m /\ b = BINS - w.bin
  OBVIOUS
<1>6. ASSUME NEW p \in C \ {w} PROVE Stronger(p, w)
  <2>1. p.mass \in Nat /\ p.bin \in 0..(BINS - 1) /\ w.bin \in 0..(BINS - 1) /\ m \in Nat
    BY DEF IsPeaks
  <2>2. p.mass \in M
    BY <2>1
  <2>3. p.mass >= m
    BY <2>2, <1>2
  <2>4. p.bin # w.bin
    BY DEF IsPeaks
  <2>5. CASE p.mass = m
    <3>1. BINS - p.bin \in B
      BY <2>1, <2>5, HistogramAssumption
    <3>2. b <= BINS - p.bin
      BY <3>1, <1>4
    <3>3. p.bin < w.bin
      BY <3>2, <1>5, <2>1, <2>4, HistogramAssumption
    <3> QED BY <3>3, <2>5, <1>5 DEF Stronger
  <2>6. CASE p.mass # m
    BY <2>6, <2>3, <2>1, <1>5 DEF Stronger
  <2> QED BY <2>5, <2>6
<1> QED BY <1>6

\* So they can be sorted.
LEMMA SortedExists ==
    ASSUME NEW C, IsPeaks(C)
    PROVE  \E s \in SetToSeqs(C) : Sorted(s)
<1> DEFINE Sortable(D) == \E s \in SetToSeqs(D) : Sorted(s)
           Bad == {n \in Nat : \E D \in SUBSET C : Cardinality(D) = n /\ ~Sortable(D)}
<1>1. IsFiniteSet(C) /\ Cardinality(C) \in Nat /\ C \in SUBSET C
  BY FS_CardinalityType DEF IsPeaks
<1> SUFFICES Bad = {}
  <2> HIDE DEF Sortable
  <2>1. Sortable(C)
    BY <1>1
  <2> QED BY <2>1 DEF Sortable
<1> SUFFICES ASSUME Bad # {} PROVE FALSE
  OBVIOUS
<1>2. Bad \in SUBSET Nat
  OBVIOUS
<1>3. PICK n \in Bad : \A m \in Bad : n <= m
  <2> HIDE DEF Bad
  <2> QED BY <1>2, LeastNat
<1> HIDE DEF Sortable
<1>4. PICK D \in SUBSET C : Cardinality(D) = n /\ ~Sortable(D)
  OBVIOUS
<1>5. IsFiniteSet(D) /\ n \in Nat
  BY <1>1, FS_Subset
<1>6. CASE D = {}
  <2> DEFINE s == [i \in 1..0 |-> D]
  <2>1. n = 0
    BY <1>6, <1>4, FS_EmptySet
  <2>2. s \in [1..n -> D] /\ DOMAIN s = {}
    BY <2>1
  <2>3. s \in SetToSeqs(D)
    BY <2>1, <2>2, <1>4 DEF SetToSeqs
  <2>4. Sorted(s)
    BY <2>2 DEF Sorted
  <2> HIDE DEF s
  <2> QED BY <2>3, <2>4, <1>4 DEF Sortable
<1>7. CASE D # {}
  <2>1. IsPeaks(D)
    BY <1>5 DEF IsPeaks
  <2>2. PICK w \in D : \A p \in D \ {w} : Stronger(p, w)
    BY <2>1, <1>7, WeakestExists
  <2> DEFINE E == D \ {w}
  <2>3. Cardinality(E) = n - 1 /\ n - 1 \in Nat
    <3>1. IsFiniteSet(E) /\ Cardinality(E) = n - 1
      BY <1>4, <1>5, FS_RemoveElement
    <3>2. Cardinality(E) \in Nat
      BY <3>1, FS_CardinalityType
    <3> QED BY <3>1, <3>2
  <2>4. E \in SUBSET C
    OBVIOUS
  <2>5. n - 1 \notin Bad
    <3> HIDE DEF Bad, E
    <3> QED BY <1>3, <1>5
  <2>6. Sortable(E)
    <3> HIDE DEF E
    <3> QED BY <2>3, <2>4, <2>5
  <2>7. PICK t \in SetToSeqs(E) : Sorted(t)
    BY <2>6 DEF Sortable
  <2>8. /\ t \in [1..(n - 1) -> E]
        /\ \A i, j \in 1..(n - 1) : i # j => t[i] # t[j]
        /\ \A i, j \in 1..(n - 1) : i < j => Stronger(t[i], t[j])
    <3> HIDE DEF E
    <3>1. t \in [1..(n - 1) -> E] /\ \A i, j \in 1..(n - 1) : i # j => t[i] # t[j]
      BY <2>3 DEF SetToSeqs
    <3> QED BY <3>1, <2>7 DEF Sorted
  <2> DEFINE s == [i \in 1..n |-> IF i = n THEN w ELSE t[i]]
  <2>9. \A i \in 1..n : (i = n /\ s[i] = w) \/ (i \in 1..(n - 1) /\ s[i] = t[i] /\ t[i] \in E)
    BY <2>8, <1>5
  <2>10. s \in [1..n -> D]
    BY <2>9
  <2>11. \A i, j \in 1..n : i # j => s[i] # s[j]
    <3> SUFFICES ASSUME NEW i \in 1..n, NEW j \in 1..n, i # j PROVE s[i] # s[j]
      OBVIOUS
    <3> HIDE DEF s
    <3> QED BY <2>8, <2>9
  <2>12. \A i, j \in 1..n : i < j => Stronger(s[i], s[j])
    <3> SUFFICES ASSUME NEW i \in 1..n, NEW j \in 1..n, i < j PROVE Stronger(s[i], s[j])
      OBVIOUS
    <3> HIDE DEF s
    <3>1. i \in 1..(n - 1) /\ s[i] = t[i] /\ t[i] \in E
      BY <2>9, <1>5
    <3>2. CASE j = n BY <3>1, <3>2, <2>9, <2>2
    <3>3. CASE j # n BY <3>1, <3>3, <2>9, <2>8
    <3> QED BY <3>2, <3>3
  <2>13. DOMAIN s = 1..n
    OBVIOUS
  <2> HIDE DEF s
  <2>14. s \in SetToSeqs(D)
    BY <2>10, <2>11, <1>4 DEF SetToSeqs
  <2>15. Sorted(s)
    BY <2>12, <2>13 DEF Sorted
  <2> QED BY <2>14, <2>15, <1>4 DEF Sortable
<1> QED BY <1>6, <1>7

\* An enumeration without repetitions, as long as there are members, has them all.
LEMMA EnumerationIsWhole ==
    ASSUME NEW C, IsFiniteSet(C), NEW s \in SetToSeqs(C)
    PROVE  s \in Seq(C) /\ Len(s) \in Nat /\ ToSet(s) = C
<1> DEFINE n == Cardinality(C)
<1>1. n \in Nat
  BY FS_CardinalityType
<1>2. s \in [1..n -> C] /\ \A i, j \in 1..n : i # j => s[i] # s[j]
  BY DEF SetToSeqs
<1>3. IsFiniteSet(1..n) /\ Cardinality(1..n) = n
  <2> HIDE DEF n
  <2>1. /\ IsFiniteSet(1..n)
        /\ Cardinality(1..n) = IF 1 > n THEN 0 ELSE n - 1 + 1
    BY <1>1, FS_Interval
  <2> QED BY <2>1, <1>1
<1> HIDE DEF n
<1>4. s \in Injection(1..n, C)
  BY <1>2 DEF Injection, IsInjective
<1>5. s \in Surjection(1..n, C)
  BY <1>3, <1>4, FS_Injection DEF n
<1>6. \A c \in C : \E i \in 1..n : s[i] = c
  BY <1>5 DEF Surjection
<1>7. s \in Seq(C) /\ Len(s) = n
  BY <1>1, <1>2
<1> QED BY <1>1, <1>2, <1>6, <1>7 DEF ToSet

-----------------------------------------------------------------------------
(* Candidates.                                                              *)

\* Counts in bins of the histogram.
IsHist(h) == DOMAIN h \subseteq 0..(BINS - 1) /\ \A b \in DOMAIN h : h[b] \in Nat

\* A ratio n / d, and samples that stand for it.
IsPeak(p) == p.n \in Nat \ {0} /\ p.d \in Nat \ {0} /\ p.mass \in Nat \ {0}

\* The bins that are local maxima with the mass of a peak.
Maxima(h) ==
    {j \in Touched(h) : smooth(h, j) > 0 /\ IsMaximum(h, j) /\ mass(h, j) >= MIN_PEAK_MASS}

\* A bin has a count, and none outside the histogram.
LEMMA CountType ==
    ASSUME NEW h, IsHist(h), NEW j \in Int
    PROVE  count(h, j) \in Nat /\ (j \notin 0..(BINS - 1) => count(h, j) = 0)
BY DEF count, IsHist

\* The centroid of three bins is a ratio, and keeps their mass and place.
LEMMA PeakAtType ==
    ASSUME NEW h, IsHist(h), NEW i \in 0..(BINS - 1), mass(h, i) >= MIN_PEAK_MASS
    PROVE  IsPeak(PeakAt(h, i)) /\ PeakAt(h, i).bin = i /\ PeakAt(h, i).mass = mass(h, i)
<1> DEFINE a == count(h, i - 1)
           b == count(h, i)
           c == count(h, i + 1)
<1>1. i \in Nat /\ i - 1 \in Int /\ i + 1 \in Int
  BY HistogramAssumption
<1>2. a \in Nat /\ b \in Nat /\ c \in Nat /\ (i = 0 => a = 0)
  <2>1. -1 \notin 0..(BINS - 1)
    BY HistogramAssumption
  <2> QED BY <1>1, <2>1, CountType
<1>3. mass(h, i) = a + b + c
  BY DEF mass
<1>4. PeakAt(h, i) = [n |-> 2 * ((i - 1) * a + i * b + (i + 1) * c) + 41 * (a + b + c),
                      d |-> 2 * (a + b + c), mass |-> a + b + c, bin |-> i]
  BY DEF PeakAt, mass, RATIO_MIN
<1> HIDE DEF a, b, c
<1>5. i * b \in Nat /\ (i + 1) * c \in Nat /\ (i - 1) * a \in Nat
  <2>1. \A x, y \in Nat : x * y \in Nat
    OBVIOUS
  <2>2. i * b \in Nat /\ (i + 1) * c \in Nat
    BY <2>1, <1>1, <1>2
  <2>3. CASE i = 0 BY <2>3, <1>2
  <2>4. CASE i # 0
    <3>1. i - 1 \in Nat
      BY <2>4, <1>1
    <3> QED BY <2>1, <2>2, <3>1, <1>2
  <2> QED BY <2>2, <2>3, <2>4
<1>6. a + b + c \in Nat \ {0}
  BY <1>2, <1>3, HistogramAssumption
<1>7. 2 * ((i - 1) * a + i * b + (i + 1) * c) + 41 * (a + b + c) \in Nat \ {0}
  <2> DEFINE x == (i - 1) * a
             y == i * b
             z == (i + 1) * c
             m == a + b + c
  <2>1. x \in Nat /\ y \in Nat /\ z \in Nat /\ m \in Nat \ {0}
    BY <1>5, <1>6
  <2> HIDE DEF x, y, z, m
  <2>2. 2 * (x + y + z) + 41 * m \in Nat \ {0}
    BY <2>1
  <2> QED BY <2>2 DEF x, y, z, m
<1>8. 2 * (a + b + c) \in Nat \ {0}
  BY <1>6
<1> QED BY <1>3, <1>4, <1>6, <1>7, <1>8 DEF IsPeak

\* Candidates are the peaks at the maxima.
LEMMA CandidatesAreMaxima ==
    ASSUME NEW h, IsHist(h)
    PROVE  /\ candidates(h) = {PeakAt(h, i) : i \in Maxima(h)}
           /\ Maxima(h) \in SUBSET (0..(BINS - 1))
           /\ \A i \in Maxima(h) : mass(h, i) >= MIN_PEAK_MASS
<1>1. candidates(h) = {PeakAt(h, i) : i \in Maxima(h)}
  BY Zenon DEF candidates, Maxima
<1>2. Touched(h) \subseteq 0..(BINS - 1)
  BY Zenon DEF Touched
<1>3. Maxima(h) \subseteq Touched(h) /\ \A i \in Maxima(h) : mass(h, i) >= MIN_PEAK_MASS
  BY DEF Maxima
<1> QED BY <1>1, <1>2, <1>3

\* They are finitely many, one to a bin.
LEMMA CandidatesType ==
    ASSUME NEW h, IsHist(h)
    PROVE  IsPeaks(candidates(h)) /\ \A p \in candidates(h) : IsPeak(p)
<1> DEFINE X == Maxima(h)
           C == candidates(h)
           f == [i \in X |-> PeakAt(h, i)]
<1>1. C = {PeakAt(h, i) : i \in X} /\ X \in SUBSET (0..(BINS - 1))
  BY CandidatesAreMaxima
<1>2. \A i \in X : IsPeak(PeakAt(h, i)) /\ PeakAt(h, i).bin = i
  BY CandidatesAreMaxima, PeakAtType
<1> HIDE DEF X, C
<1>3. IsFiniteSet(X)
  <2>1. IsFiniteSet(0..(BINS - 1))
    BY FS_Interval, HistogramAssumption
  <2> QED BY <2>1, <1>1, FS_Subset
<1>4. f \in Surjection(X, C)
  BY <1>1 DEF Surjection
<1>5. IsFiniteSet(C)
  <2> HIDE DEF f
  <2> QED BY <1>3, <1>4, FS_Surjection
<1>6. ASSUME NEW p \in C PROVE IsPeak(p) /\ p.bin \in 0..(BINS - 1) /\ p = PeakAt(h, p.bin)
  <2>1. PICK i \in X : p = PeakAt(h, i)
    BY <1>1
  <2> QED BY <2>1, <1>1, <1>2
<1>7. \A p, q \in C : p.bin = q.bin => p = q
  BY <1>6
<1>8. \A p \in C : p.mass \in Nat
  BY <1>6 DEF IsPeak
<1> QED BY <1>5, <1>6, <1>7, <1>8 DEF IsPeaks, C

\* Whether two peaks are separated does not depend on their order.
LEMMA SeparatedSymmetric ==
    ASSUME NEW p, NEW q, IsPeak(p), IsPeak(q)
    PROVE  Separated(p, q) <=> Separated(q, p)
<1> DEFINE a == p.n * q.d
           b == q.n * p.d
<1>1. a \in Int /\ b \in Int
  <2>1. \A x, y \in Nat : x * y \in Int
    OBVIOUS
  <2> QED BY <2>1 DEF IsPeak
<1>2. Separated(p, q) <=> 100 * Abs(a - b) > 6 * (IF a > b THEN a ELSE b)
  BY DEF Separated
<1>3. Separated(q, p) <=> 100 * Abs(b - a) > 6 * (IF b > a THEN b ELSE a)
  BY DEF Separated
<1> HIDE DEF a, b
<1>4. Abs(a - b) = Abs(b - a)
  BY <1>1 DEF Abs
<1>5. (IF a > b THEN a ELSE b) = (IF b > a THEN b ELSE a)
  BY <1>1
<1> QED BY <1>2, <1>3, <1>4, <1>5

\* The sorted enumeration is one of all candidates.
LEMMA ByMassSorts ==
    ASSUME NEW h, IsHist(h)
    PROVE  /\ byMass(h) \in Seq(candidates(h)) /\ ToSet(byMass(h)) = candidates(h)
           /\ Sorted(byMass(h))
<1> DEFINE C == candidates(h)
<1>1. IsPeaks(C) /\ IsFiniteSet(C)
  BY CandidatesType DEF IsPeaks
<1>2. \E s \in SetToSeqs(C) : Sorted(s)
  BY <1>1, SortedExists
<1>3. byMass(h) = CHOOSE s \in SetToSeqs(C) : Sorted(s)
  BY DEF byMass, Sorted
<1> HIDE DEF C
<1>4. byMass(h) \in SetToSeqs(C) /\ Sorted(byMass(h))
  BY <1>2, <1>3, Zenon
<1> QED BY <1>1, <1>4, EnumerationIsWhole DEF C

-----------------------------------------------------------------------------
(* Peaks.                                                                   *)

\* Whether a peak is taken, and then it is the last.
LEMMA AcceptStep ==
    ASSUME NEW C, NEW a \in Seq(C), NEW p \in C
    PROVE  /\ accept(a, p) \in Seq(C)
           /\ \/ /\ \A q \in ToSet(a) : Separated(p, q)
                 /\ accept(a, p) = Append(a, p)
              \/ /\ \E q \in ToSet(a) : ~Separated(p, q)
                 /\ accept(a, p) = a
<1>1. CASE \A q \in ToSet(a) : Separated(p, q) BY <1>1 DEF accept
<1>2. CASE ~ \A q \in ToSet(a) : Separated(p, q) BY <1>2 DEF accept
<1> QED BY <1>1, <1>2

\* The members of a sequence with one more at the end.
LEMMA AppendMembers ==
    ASSUME NEW C, NEW a \in Seq(C), NEW p \in C
    PROVE  ToSet(Append(a, p)) = ToSet(a) \cup {p}
<1> DEFINE n == Len(a)
           s == Append(a, p)
<1>1. n \in Nat /\ DOMAIN a = 1..n /\ DOMAIN s = 1..(n + 1) /\ s[n + 1] = p
  OBVIOUS
<1>2. \A i \in 1..n : s[i] = a[i] /\ i \in 1..(n + 1)
  OBVIOUS
<1>3. \A i \in 1..(n + 1) : i \in 1..n \/ i = n + 1
  BY <1>1
<1>4. n + 1 \in 1..(n + 1)
  BY <1>1
<1> HIDE DEF n, s
<1> QED BY <1>1, <1>2, <1>3, <1>4 DEF ToSet, s

\* The peaks are the last of a run that starts with none and accepts, or drops,
\* one candidate after the other.
IsGreedy(f, cs) ==
    f[0] = <<>> /\ \A k \in 1..Len(cs) : f[k] = accept(f[k - 1], cs[k])

LEMMA PeaksAreGreedy ==
    ASSUME NEW h, IsHist(h)
    PROVE  \E f : IsGreedy(f, byMass(h)) /\ peaks(h) = f[Len(byMass(h))]
<1> DEFINE C == candidates(h)
           cs == byMass(h)
           N == Len(cs)
           F(f) == [k \in 0..N |-> IF k = 0 THEN <<>> ELSE accept(f[k - 1], cs[k])]
           u == CHOOSE f : f = F(f)
           op == [x \in Seq(C) \X (1..N) |-> accept(x[1], cs[x[2]])]
<1>1. peaks(h) = u[N]
  BY DEF peaks
<1>2. cs \in Seq(C)
  BY ByMassSorts
<1> HIDE DEF C, cs
<1>3. N \in Nat /\ \A k \in 1..N : cs[k] \in C
  BY <1>2
<1> HIDE DEF N
<1>4. op \in [Seq(C) \X (1..N) -> Seq(C)]
  <2> SUFFICES ASSUME NEW x \in Seq(C) \X (1..N) PROVE accept(x[1], cs[x[2]]) \in Seq(C)
    OBVIOUS
  <2>1. x[1] \in Seq(C) /\ cs[x[2]] \in C
    BY <1>3
  <2> QED BY <2>1, AcceptStep
<1>5. <<>> \in Seq(C)
  OBVIOUS
<1>6. PICK g \in [0..N -> Seq(C)] :
        g[0] = <<>> /\ \A k \in 1..N : g[k] = op[<<g[k - 1], k>>]
  <2> DEFINE nil == <<>>
             T == Seq(C)
  <2>1. AreSteps(T, nil, N, op)
    BY <1>3, <1>4, <1>5 DEF AreSteps
  <2> HIDE DEF op, nil, T, u, F
  <2>2. \E g : IsRun(g, T, nil, N, op)
    BY <2>1, StepsExist
  <2> QED BY <2>2, Zenon DEF nil, T, IsRun
<1>7. \A k \in 1..N : g[k] = accept(g[k - 1], cs[k])
  <2> SUFFICES ASSUME NEW k \in 1..N PROVE g[k] = accept(g[k - 1], cs[k])
    OBVIOUS
  <2>1. k - 1 \in 0..N
    BY <1>3
  <2>2. <<g[k - 1], k>> \in Seq(C) \X (1..N)
    BY <2>1
  <2> QED BY <2>2, <1>6
<1>8. g = F(g)
  <2>1. \A k \in 0..N : k = 0 \/ k \in 1..N
    BY <1>3
  <2>2. \A k \in 0..N : g[k] = F(g)[k]
    BY <2>1, <1>6, <1>7
  <2> QED BY <2>2
<1>9. u = F(u)
  BY <1>8, Zenon
<1> HIDE DEF u
<1>10. u[0] = <<>> /\ \A k \in 1..N : u[k] = accept(u[k - 1], cs[k])
  <2>1. \A k \in 1..N : k \in 0..N /\ k # 0
    BY <1>3
  <2>2. 0 \in 0..N
    BY <1>3
  <2> QED BY <1>9, <2>1, <2>2
<1> QED BY <1>1, <1>10 DEF IsGreedy, cs, N

\* What has been accepted of the first k candidates: some of them, pairwise
\* separated, and what was dropped lies by an accepted one of at least its mass.
Chosen(a, cs, k) ==
    /\ \A i, j \in DOMAIN a : i # j => Separated(a[i], a[j])
    /\ \A p \in ToSet(a) : \E i \in 1..k : p = cs[i]
    /\ \A i \in 1..k : cs[i] \in ToSet(a)
          \/ \E q \in ToSet(a) : q.mass >= cs[i].mass /\ ~Separated(cs[i], q)

LEMMA ChosenStep ==
    ASSUME NEW C, \A p \in C : IsPeak(p), NEW cs \in Seq(C), Sorted(cs),
           NEW k \in 1..Len(cs), NEW a \in Seq(C), Chosen(a, cs, k - 1)
    PROVE  Chosen(accept(a, cs[k]), cs, k)
<1> DEFINE p == cs[k]
           s == accept(a, p)
           N == Len(cs)
<1>1. p \in C /\ N \in Nat /\ DOMAIN cs = 1..N /\ k \in Nat /\ k >= 1 /\ k <= N
  OBVIOUS
<1>2. \A i \in 1..k : i = k \/ i \in 1..(k - 1)
  BY <1>1
<1>3. \A i \in 1..(k - 1) : i \in 1..k /\ i \in 1..N /\ i < k
  BY <1>1
<1>3a. k \in 1..k
  BY <1>1
<1>4. \A i \in 1..(k - 1) : cs[i].mass >= p.mass
  <2> SUFFICES ASSUME NEW i \in 1..(k - 1) PROVE cs[i].mass >= p.mass
    OBVIOUS
  <2>1. Stronger(cs[i], p)
    BY <1>1, <1>3 DEF Sorted
  <2>2. cs[i].mass \in Nat /\ p.mass \in Nat
    BY <1>1, <1>3 DEF IsPeak
  <2> QED BY <2>1, <2>2 DEF Stronger
<1>5. \A q \in ToSet(a) : q.mass >= p.mass
  BY <1>4 DEF Chosen
<1> HIDE DEF p, N
<1>6. CASE (\A q \in ToSet(a) : Separated(p, q)) /\ s = Append(a, p)
  <2> DEFINE n == Len(a)
  <2>1. n \in Nat /\ DOMAIN a = 1..n /\ DOMAIN s = 1..(n + 1) /\ s[n + 1] = p
    BY <1>6
  <2>2. \A i \in 1..n : s[i] = a[i] /\ a[i] \in ToSet(a) /\ a[i] \in C
    BY <1>6, <2>1 DEF ToSet
  <2>3. ToSet(s) = ToSet(a) \cup {p}
    BY <1>1, <1>6, AppendMembers
  <2> HIDE DEF n, s
  <2>4. ASSUME NEW i \in DOMAIN s, NEW j \in DOMAIN s, i # j PROVE Separated(s[i], s[j])
    <3>1. (i \in 1..n \/ i = n + 1) /\ (j \in 1..n \/ j = n + 1)
      BY <2>1
    <3>2. CASE i \in 1..n /\ j \in 1..n
      BY <3>2, <2>1, <2>2, <2>4 DEF Chosen
    <3>3. CASE i = n + 1 /\ j \in 1..n
      BY <3>3, <2>1, <2>2, <1>6
    <3>4. CASE i \in 1..n /\ j = n + 1
      <4>1. Separated(p, a[i])
        BY <3>4, <2>2, <1>6
      <4>2. IsPeak(p) /\ IsPeak(a[i])
        BY <3>4, <2>2, <1>1
      <4>3. Separated(a[i], p)
        BY <4>1, <4>2, SeparatedSymmetric
      <4> QED BY <4>3, <3>4, <2>1, <2>2
    <3> QED BY <3>1, <3>2, <3>3, <3>4, <2>4
  <2>5. ASSUME NEW q \in ToSet(s) PROVE \E i \in 1..k : q = cs[i]
    <3>1. CASE q = p BY <3>1, <1>3a DEF p
    <3>2. CASE q \in ToSet(a) BY <3>2, <1>3 DEF Chosen
    <3> QED BY <3>1, <3>2, <2>3
  <2>6. ASSUME NEW i \in 1..k
        PROVE  cs[i] \in ToSet(s)
                 \/ \E q \in ToSet(s) : q.mass >= cs[i].mass /\ ~Separated(cs[i], q)
    <3>1. CASE i = k BY <3>1, <2>3 DEF p
    <3>2. CASE i \in 1..(k - 1) BY <3>2, <2>3 DEF Chosen
    <3> QED BY <3>1, <3>2, <1>2
  <2> QED BY <2>4, <2>5, <2>6, Zenon DEF Chosen, s, p
<1>7. CASE (\E q \in ToSet(a) : ~Separated(p, q)) /\ s = a
  <2> HIDE DEF s
  <2>1. PICK q \in ToSet(a) : ~Separated(p, q)
    BY <1>7
  <2>2. q.mass >= p.mass
    BY <1>5
  <2>3. ASSUME NEW x \in ToSet(a) PROVE \E i \in 1..k : x = cs[i]
    BY <1>3 DEF Chosen
  <2>4. ASSUME NEW i \in 1..k
        PROVE  cs[i] \in ToSet(a)
                 \/ \E x \in ToSet(a) : x.mass >= cs[i].mass /\ ~Separated(cs[i], x)
    <3>1. CASE i = k BY <3>1, <2>1, <2>2 DEF p
    <3>2. CASE i \in 1..(k - 1) BY <3>2 DEF Chosen
    <3> QED BY <3>1, <3>2, <1>2
  <2>5. \A i, j \in DOMAIN a : i # j => Separated(a[i], a[j])
    BY DEF Chosen
  <2>6. Chosen(a, cs, k)
    BY <2>3, <2>4, <2>5, Zenon DEF Chosen
  <2> QED BY <2>6, <1>7 DEF s, p
<1> QED BY <1>1, <1>6, <1>7, AcceptStep

\* So it is with all of them.
LEMMA PeaksAreChosen ==
    ASSUME NEW h, IsHist(h)
    PROVE  /\ peaks(h) \in Seq(candidates(h))
           /\ Chosen(peaks(h), byMass(h), Len(byMass(h)))
<1> DEFINE C == candidates(h)
           cs == byMass(h)
           N == Len(cs)
<1>1. cs \in Seq(C) /\ Sorted(cs) /\ \A p \in C : IsPeak(p)
  BY ByMassSorts, CandidatesType
<1>2. PICK f : IsGreedy(f, cs) /\ peaks(h) = f[N]
  BY PeaksAreGreedy
<1> HIDE DEF C, cs
<1>3. N \in Nat /\ \A k \in 1..N : cs[k] \in C
  BY <1>1
<1> DEFINE Good(k) == f[k] \in Seq(C) /\ Chosen(f[k], cs, k)
           Bad == {k \in 0..N : ~Good(k)}
<1>4. Good(0)
  <2>1. f[0] = <<>>
    BY <1>2 DEF IsGreedy
  <2>2. f[0] \in Seq(C) /\ DOMAIN f[0] = {} /\ 1..0 = {}
    BY <2>1
  <2> QED BY <2>2 DEF Chosen, ToSet
<1>5. ASSUME NEW k \in 1..N, Good(k - 1) PROVE Good(k)
  <2>1. f[k] = accept(f[k - 1], cs[k])
    BY <1>2 DEF IsGreedy
  <2>2. f[k] \in Seq(C)
    BY <2>1, <1>3, <1>5, AcceptStep
  <2>3. Chosen(f[k], cs, k)
    BY <2>1, <1>1, <1>5, ChosenStep
  <2> QED BY <2>2, <2>3
<1> HIDE DEF Good, N
<1>6. Bad = {}
  <2> SUFFICES ASSUME Bad # {} PROVE FALSE
    OBVIOUS
  <2>0. Bad \in SUBSET Nat
    BY <1>3
  <2>1. PICK k \in Bad : \A m \in Bad : k <= m
    <3> HIDE DEF Bad
    <3> QED BY <2>0, LeastNat
  <2>2. k \in 0..N /\ ~Good(k) /\ k # 0
    BY <1>4
  <2>3. k \in 1..N /\ k - 1 \in 0..N /\ k - 1 \notin Bad
    BY <1>3, <2>1, <2>2
  <2>4. Good(k - 1)
    BY <2>3
  <2> QED BY <1>5, <2>2, <2>3, <2>4
<1>7. Good(N)
  BY <1>3, <1>6
<1> QED BY <1>2, <1>7 DEF Good, C, cs, N

\* Of peaks that are one gear the bigger is kept, in every histogram.
LEMMA BiggerIsKept ==
    ASSUME NEW h, IsHist(h)
    PROVE  /\ \A i, j \in DOMAIN peaks(h) : i # j => Separated(peaks(h)[i], peaks(h)[j])
           /\ \A c \in candidates(h) \ ToSet(peaks(h)) :
                 \E a \in ToSet(peaks(h)) : a.mass >= c.mass /\ ~Separated(c, a)
<1> DEFINE cs == byMass(h)
<1>1. Chosen(peaks(h), cs, Len(cs))
  BY PeaksAreChosen
<1>2. \A c \in candidates(h) : \E i \in 1..Len(cs) : c = cs[i]
  <2>1. cs \in Seq(candidates(h)) /\ ToSet(cs) = candidates(h)
    BY ByMassSorts
  <2> HIDE DEF cs
  <2>2. DOMAIN cs = 1..Len(cs)
    BY <2>1
  <2> QED BY <2>1, <2>2 DEF ToSet
<1> QED BY <1>1, <1>2 DEF Chosen

-----------------------------------------------------------------------------
(* Heavy bins.                                                              *)

\* The last place of the greatest of n values.
LEMMA LastGreatest ==
    ASSUME NEW N \in Nat \ {0}, NEW f \in [0..(N - 1) -> Nat]
    PROVE  \E i \in 0..(N - 1) : \A j \in 0..(N - 1) : f[j] <= f[i] /\ (j > i => f[j] < f[i])
<1> DEFINE Top(i, n) == \A j \in 0..(n - 1) : f[j] <= f[i] /\ (j > i => f[j] < f[i])
           Bad == {n \in 1..N : ~ \E i \in 0..(n - 1) : Top(i, n)}
<1> SUFFICES Bad = {}
  <2>1. N \in 1..N /\ N \notin Bad
    <3> HIDE DEF Bad
    <3> QED OBVIOUS
  <2>2. \E i \in 0..(N - 1) : Top(i, N)
    <3> HIDE DEF Top
    <3> QED BY <2>1
  <2> QED BY <2>2
<1> SUFFICES ASSUME Bad # {} PROVE FALSE
  OBVIOUS
<1>0. Bad \in SUBSET Nat
  OBVIOUS
<1>1. PICK n \in Bad : \A m \in Bad : n <= m
  <2> HIDE DEF Bad
  <2> QED BY <1>0, LeastNat
<1>2. n \in 1..N /\ ~ \E i \in 0..(n - 1) : Top(i, n)
  OBVIOUS
<1>3. CASE n = 1
  <2>1. 0 \in 0..(n - 1) /\ 0 \in 0..(N - 1) /\ \A j \in 0..(n - 1) : j = 0
    BY <1>3
  <2>2. Top(0, n)
    <3> SUFFICES ASSUME NEW j \in 0..(n - 1) PROVE f[j] <= f[0] /\ (j > 0 => f[j] < f[0])
      OBVIOUS
    <3>1. j = 0 /\ f[0] \in Nat
      BY <2>1
    <3> QED BY <3>1
  <2> HIDE DEF Top
  <2> QED BY <2>1, <2>2, <1>2
<1>4. CASE n # 1
  <2>1. n - 1 \in 1..N /\ n - 1 \notin Bad
    <3>1. n \in 1..N
      BY <1>2
    <3> HIDE DEF Bad
    <3> QED BY <1>1, <3>1, <1>4
  <2>2. PICK i \in 0..((n - 1) - 1) : Top(i, n - 1)
    <3> HIDE DEF Top
    <3> QED BY <2>1
  <2>3. \A j \in 0..(n - 1) : j \in 0..(N - 1) /\ f[j] \in Nat /\ (j \in 0..((n - 1) - 1) \/ j = n - 1)
    BY <1>2
  <2>4. i \in 0..(n - 1) /\ n - 1 \in 0..(n - 1)
    BY <1>2, <1>4
  <2>5. CASE f[n - 1] >= f[i]
    <3>1. Top(n - 1, n)
      <4> SUFFICES ASSUME NEW j \in 0..(n - 1)
                   PROVE  f[j] <= f[n - 1] /\ (j > n - 1 => f[j] < f[n - 1])
        OBVIOUS
      <4>1. f[j] \in Nat /\ f[i] \in Nat /\ f[n - 1] \in Nat /\ ~(j > n - 1)
        BY <2>3, <2>4, <1>2
      <4>2. CASE j = n - 1 BY <4>1, <4>2
      <4>3. CASE j \in 0..((n - 1) - 1) BY <4>1, <4>3, <2>2, <2>5
      <4> QED BY <4>2, <4>3, <2>3
    <3> HIDE DEF Top
    <3> QED BY <3>1, <2>4, <1>2
  <2>6. CASE ~(f[n - 1] >= f[i])
    <3>1. Top(i, n)
      <4> SUFFICES ASSUME NEW j \in 0..(n - 1) PROVE f[j] <= f[i] /\ (j > i => f[j] < f[i])
        OBVIOUS
      <4>1. f[j] \in Nat /\ f[i] \in Nat /\ f[n - 1] \in Nat
        BY <2>3, <2>4
      <4>2. CASE j = n - 1 BY <4>1, <4>2, <2>6
      <4>3. CASE j \in 0..((n - 1) - 1) BY <4>3, <2>2
      <4> QED BY <4>2, <4>3, <2>3
    <3> HIDE DEF Top
    <3> QED BY <3>1, <2>4, <1>2
  <2> QED BY <2>5, <2>6
<1> QED BY <1>3, <1>4

\* A bin heavy enough for a peak makes some bin a maximum: the last one of the
\* greatest smoothed count, on a plateau and at the edges of the range too.
LEMMA HeavyBinMakesCandidate ==
    ASSUME NEW h, IsHist(h), NEW b \in DOMAIN h, h[b] >= MIN_PEAK_MASS
    PROVE  candidates(h) # {}
<1> DEFINE f == [j \in 0..(BINS - 1) |-> smooth(h, j)]
           c(j) == count(h, j)
<1>1. \A j \in Int : c(j) \in Nat /\ (j \notin 0..(BINS - 1) => c(j) = 0)
  BY CountType
<1>2. \A j \in Int : smooth(h, j) = c(j - 1) + 2 * c(j) + c(j + 1) /\ smooth(h, j) \in Nat
  BY <1>1 DEF smooth
<1>3. \A j \in Int : mass(h, j) = c(j - 1) + c(j) + c(j + 1)
  BY DEF mass
<1>4. f \in [0..(BINS - 1) -> Nat]
  BY <1>2
<1>5. PICK i \in 0..(BINS - 1) : \A j \in 0..(BINS - 1) : f[j] <= f[i] /\ (j > i => f[j] < f[i])
  <2> HIDE DEF f
  <2> QED BY <1>4, HistogramAssumption, LastGreatest
<1>6. \A j \in 0..(BINS - 1) : smooth(h, j) <= smooth(h, i) /\ (j > i => smooth(h, j) < smooth(h, i))
  BY <1>5
<1>7. b \in 0..(BINS - 1) /\ c(b) = h[b] /\ h[b] \in Nat
  BY DEF IsHist, count
<1> HIDE DEF f, c
<1> DEFINE M == MIN_PEAK_MASS
<1>8. M \in Nat /\ M > 0 /\ BINS \in Nat /\ BINS > 0 /\ i \in Int /\ i >= 0 /\ i < BINS
  BY HistogramAssumption
<1>9. smooth(h, b) >= 2 * M
  <2>1. b - 1 \in Int /\ b + 1 \in Int /\ b \in Int
    BY <1>7, <1>8
  <2> QED BY <2>1, <1>1, <1>2, <1>7, <1>8
<1>10. smooth(h, i) >= 2 * M
  <2>1. smooth(h, b) <= smooth(h, i) /\ b \in Int
    BY <1>6, <1>7, <1>8
  <2> QED BY <2>1, <1>2, <1>8, <1>9
<1>11. i - 1 \in Int /\ i + 1 \in Int /\ c(i - 1) \in Nat /\ c(i) \in Nat /\ c(i + 1) \in Nat
  BY <1>1, <1>8
<1>12. mass(h, i) >= M
  BY <1>2, <1>3, <1>8, <1>10, <1>11
<1>13. smooth(h, i) >= smooth(h, i - 1)
  <2>1. CASE i = 0
    <3>1. smooth(h, -1) = c(-2) + 2 * c(-1) + c(0)
      BY <1>2
    <3>2. c(-2) = 0 /\ c(-1) = 0
      BY <1>1, <1>8
    <3>3. smooth(h, 0) = c(-1) + 2 * c(0) + c(1)
      BY <1>2
    <3>4. c(0) \in Nat /\ c(1) \in Nat
      BY <1>1
    <3>5. smooth(h, 0) >= smooth(h, -1)
      BY <3>1, <3>2, <3>3, <3>4
    <3>6. i - 1 = -1
      BY <2>1
    <3> QED BY <3>5, <3>6, <2>1
  <2>2. CASE i # 0
    <3>1. i - 1 \in 0..(BINS - 1)
      BY <1>8, <2>2
    <3> QED BY <3>1, <1>6, <1>2, <1>11, <1>8
  <2> QED BY <2>1, <2>2
<1>14. smooth(h, i) > smooth(h, i + 1)
  <2>1. CASE i + 1 = BINS
    <3>1. smooth(h, i + 1) = c(i) + 2 * c(i + 1) + c(i + 2)
      <4>1. (i + 1) - 1 = i /\ (i + 1) + 1 = i + 2
        BY <1>8
      <4> QED BY <4>1, <1>2, <1>11
    <3>2. c(i + 1) = 0 /\ c(i + 2) = 0
      <4>1. i + 2 \in Int /\ i + 1 \notin 0..(BINS - 1) /\ i + 2 \notin 0..(BINS - 1)
        BY <1>8, <2>1
      <4> QED BY <4>1, <1>1, <1>11
    <3>3. smooth(h, i) = c(i - 1) + 2 * c(i) + c(i + 1)
      BY <1>2, <1>8
    <3> QED BY <3>1, <3>2, <3>3, <1>8, <1>10, <1>11
  <2>2. CASE i + 1 # BINS
    <3>1. i + 1 \in 0..(BINS - 1) /\ i + 1 > i
      BY <1>8, <2>2
    <3> QED BY <3>1, <1>6, <1>2, <1>11, <1>8
  <2> QED BY <2>1, <2>2
<1>15. i \in Touched(h)
  <2>1. PICK j \in {i - 1, i, i + 1} : c(j) # 0
    BY <1>3, <1>8, <1>11, <1>12
  <2>2. j \in DOMAIN h /\ i \in {j - 1, j, j + 1}
    BY <2>1, <1>8 DEF count, c
  <2>3. i \in UNION {{x - 1, x, x + 1} : x \in DOMAIN h}
    BY <2>2
  <2> QED BY <2>3 DEF Touched
<1>16. smooth(h, i) > 0
  BY <1>2, <1>8, <1>10
<1>17. i \in Maxima(h)
  BY <1>12, <1>13, <1>14, <1>15, <1>16 DEF Maxima, IsMaximum
<1> QED BY <1>17, CandidatesAreMaxima

\* Candidates yield a peak.
LEMMA CandidateYieldsPeak ==
    ASSUME NEW h, IsHist(h), candidates(h) # {}
    PROVE  peaks(h) # <<>>
<1>1. PICK c \in candidates(h) : TRUE
  OBVIOUS
<1>2. ToSet(peaks(h)) # {}
  BY <1>1, BiggerIsKept
<1> QED BY <1>2 DEF ToSet

-----------------------------------------------------------------------------
(* Bands.                                                                   *)

LEMMA BandValues ==
    /\ Digits = 1..6 /\ Digits = {1, 2, 3, 4, 5, 6}
    /\ FACTORY_BANDS[1] = 1969 /\ FACTORY_BANDS[2] = 1357 /\ FACTORY_BANDS[3] = 1021
    /\ FACTORY_BANDS[4] = 828 /\ FACTORY_BANDS[5] = 683 /\ FACTORY_BANDS[6] = 559
BY DEF Digits, NUM_GEARS, FACTORY_BANDS

\* Of six relative distances one is the first of the least.
LEMMA FirstLeastOfSix ==
    ASSUME NEW x1 \in Nat, NEW x2 \in Nat, NEW x3 \in Nat, NEW x4 \in Nat, NEW x5 \in Nat, NEW x6 \in Nat
    PROVE  \/ /\ x1 * 1357 <= x2 * 1969 /\ x1 * 1021 <= x3 * 1969 /\ x1 * 828 <= x4 * 1969
              /\ x1 * 683 <= x5 * 1969 /\ x1 * 559 <= x6 * 1969
           \/ /\ x2 * 1969 < x1 * 1357 /\ x2 * 1021 <= x3 * 1357 /\ x2 * 828 <= x4 * 1357
              /\ x2 * 683 <= x5 * 1357 /\ x2 * 559 <= x6 * 1357
           \/ /\ x3 * 1969 < x1 * 1021 /\ x3 * 1357 < x2 * 1021 /\ x3 * 828 <= x4 * 1021
              /\ x3 * 683 <= x5 * 1021 /\ x3 * 559 <= x6 * 1021
           \/ /\ x4 * 1969 < x1 * 828 /\ x4 * 1357 < x2 * 828 /\ x4 * 1021 < x3 * 828
              /\ x4 * 683 <= x5 * 828 /\ x4 * 559 <= x6 * 828
           \/ /\ x5 * 1969 < x1 * 683 /\ x5 * 1357 < x2 * 683 /\ x5 * 1021 < x3 * 683
              /\ x5 * 828 < x4 * 683 /\ x5 * 559 <= x6 * 683
           \/ /\ x6 * 1969 < x1 * 559 /\ x6 * 1357 < x2 * 559 /\ x6 * 1021 < x3 * 559
              /\ x6 * 828 < x4 * 559 /\ x6 * 683 < x5 * 559
OBVIOUS

\* g is nearer to the peak than h, or as near and lower.
Nearer(p, g, h) ==
    LET dg == dist(p, g) * FACTORY_BANDS[h]
        dh == dist(p, h) * FACTORY_BANDS[g]
    IN  dg < dh \/ (dg = dh /\ g <= h)

\* Every peak has a nearest band.
LEMMA NearestIsLeast ==
    ASSUME NEW p, IsPeak(p)
    PROVE  nearest(p) \in Digits /\ \A h \in Digits : Nearer(p, nearest(p), h)
<1> DEFINE x1 == dist(p, 1)
           x2 == dist(p, 2)
           x3 == dist(p, 3)
           x4 == dist(p, 4)
           x5 == dist(p, 5)
           x6 == dist(p, 6)
<1>1. x1 \in Nat /\ x2 \in Nat /\ x3 \in Nat /\ x4 \in Nat /\ x5 \in Nat /\ x6 \in Nat
  <2>1. p.n \in Nat /\ p.d \in Nat
    BY DEF IsPeak
  <2> QED BY <2>1, BandValues DEF dist, Abs
<1> DEFINE Best(g) == \A h \in Digits : Nearer(p, g, h)
<1>2. \E g \in Digits : Best(g)
  <2>1. \A g \in Digits : (\A h \in {1, 2, 3, 4, 5, 6} : Nearer(p, g, h)) => Best(g)
    BY BandValues
  <2> HIDE DEF x1, x2, x3, x4, x5, x6, Best
  <2>2. \A g, h \in Digits : Nearer(p, g, h) <=>
          \/ dist(p, g) * FACTORY_BANDS[h] < dist(p, h) * FACTORY_BANDS[g]
          \/ dist(p, g) * FACTORY_BANDS[h] = dist(p, h) * FACTORY_BANDS[g] /\ g <= h
    BY DEF Nearer
  <2>3. CASE /\ x1 * 1357 <= x2 * 1969 /\ x1 * 1021 <= x3 * 1969 /\ x1 * 828 <= x4 * 1969
             /\ x1 * 683 <= x5 * 1969 /\ x1 * 559 <= x6 * 1969
    <3>1. \A h \in {1, 2, 3, 4, 5, 6} : Nearer(p, 1, h)
      BY <2>3, <1>1, BandValues DEF Nearer, x1, x2, x3, x4, x5, x6
    <3> QED BY <3>1, <2>1, BandValues
  <2>4. CASE /\ x2 * 1969 < x1 * 1357 /\ x2 * 1021 <= x3 * 1357 /\ x2 * 828 <= x4 * 1357
             /\ x2 * 683 <= x5 * 1357 /\ x2 * 559 <= x6 * 1357
    <3>1. \A h \in {1, 2, 3, 4, 5, 6} : Nearer(p, 2, h)
      BY <2>4, <1>1, BandValues DEF Nearer, x1, x2, x3, x4, x5, x6
    <3> QED BY <3>1, <2>1, BandValues
  <2>5. CASE /\ x3 * 1969 < x1 * 1021 /\ x3 * 1357 < x2 * 1021 /\ x3 * 828 <= x4 * 1021
             /\ x3 * 683 <= x5 * 1021 /\ x3 * 559 <= x6 * 1021
    <3>1. \A h \in {1, 2, 3, 4, 5, 6} : Nearer(p, 3, h)
      BY <2>5, <1>1, BandValues DEF Nearer, x1, x2, x3, x4, x5, x6
    <3> QED BY <3>1, <2>1, BandValues
  <2>6. CASE /\ x4 * 1969 < x1 * 828 /\ x4 * 1357 < x2 * 828 /\ x4 * 1021 < x3 * 828
             /\ x4 * 683 <= x5 * 828 /\ x4 * 559 <= x6 * 828
    <3>1. \A h \in {1, 2, 3, 4, 5, 6} : Nearer(p, 4, h)
      BY <2>6, <1>1, BandValues DEF Nearer, x1, x2, x3, x4, x5, x6
    <3> QED BY <3>1, <2>1, BandValues
  <2>7. CASE /\ x5 * 1969 < x1 * 683 /\ x5 * 1357 < x2 * 683 /\ x5 * 1021 < x3 * 683
             /\ x5 * 828 < x4 * 683 /\ x5 * 559 <= x6 * 683
    <3>1. \A h \in {1, 2, 3, 4, 5, 6} : Nearer(p, 5, h)
      BY <2>7, <1>1, BandValues DEF Nearer, x1, x2, x3, x4, x5, x6
    <3> QED BY <3>1, <2>1, BandValues
  <2>8. CASE /\ x6 * 1969 < x1 * 559 /\ x6 * 1357 < x2 * 559 /\ x6 * 1021 < x3 * 559
             /\ x6 * 828 < x4 * 559 /\ x6 * 683 < x5 * 559
    <3>1. \A h \in {1, 2, 3, 4, 5, 6} : Nearer(p, 6, h)
      BY <2>8, <1>1, BandValues DEF Nearer, x1, x2, x3, x4, x5, x6
    <3> QED BY <3>1, <2>1, BandValues
  <2> QED BY <1>1, <2>3, <2>4, <2>5, <2>6, <2>7, <2>8, FirstLeastOfSix
<1>3. nearest(p) = CHOOSE g \in Digits : Best(g)
  BY Zenon DEF nearest, Nearer
<1> HIDE DEF Best
<1>4. nearest(p) \in Digits /\ Best(nearest(p))
  BY <1>2, <1>3, Zenon
<1> QED BY <1>4 DEF Best

\* The ratio between two gears that is as far from the one as from the other,
\* and on which side of it a ratio lies.
Above(p, g) ==
    10 * p.n * (FACTORY_BANDS[g] + FACTORY_BANDS[g + 1])
        >= 2 * FACTORY_BANDS[g] * FACTORY_BANDS[g + 1] * p.d
Below(p, g) ==
    10 * p.n * (FACTORY_BANDS[g] + FACTORY_BANDS[g + 1])
        < 2 * FACTORY_BANDS[g] * FACTORY_BANDS[g + 1] * p.d

\* A peak lies on its gear's side of the middle.
LEMMA NearestSide ==
    ASSUME NEW p, IsPeak(p), NEW g \in 1..5
    PROVE  (nearest(p) = g => Above(p, g)) /\ (nearest(p) = g + 1 => Below(p, g))
<1> DEFINE n == p.n
           d == p.d
<1>1. n \in Nat /\ d \in Nat /\ n > 0 /\ d > 0
  BY DEF IsPeak
<1>2. g \in {1, 2, 3, 4, 5} /\ g \in Digits /\ g + 1 \in Digits
  BY BandValues
<1>3. nearest(p) = g => Nearer(p, g, g + 1)
  BY <1>2, NearestIsLeast
<1>4. nearest(p) = g + 1 => Nearer(p, g + 1, g)
  BY <1>2, NearestIsLeast
<1> DEFINE D(f) == Abs(10 * n - f * d)
<1>5. Nearer(p, g, g + 1) => D(FACTORY_BANDS[g]) * FACTORY_BANDS[g + 1] <= D(FACTORY_BANDS[g + 1]) * FACTORY_BANDS[g]
  BY <1>1, <1>2, BandValues DEF Nearer, dist, Abs
<1>6. Nearer(p, g + 1, g) => D(FACTORY_BANDS[g + 1]) * FACTORY_BANDS[g] < D(FACTORY_BANDS[g]) * FACTORY_BANDS[g + 1]
  BY <1>1, <1>2, BandValues DEF Nearer, dist, Abs
<1>7. /\ D(FACTORY_BANDS[g]) * FACTORY_BANDS[g + 1] <= D(FACTORY_BANDS[g + 1]) * FACTORY_BANDS[g] => Above(p, g)
      /\ D(FACTORY_BANDS[g + 1]) * FACTORY_BANDS[g] < D(FACTORY_BANDS[g]) * FACTORY_BANDS[g + 1] => Below(p, g)
  <2>1. CASE g = 1
    <3>1. /\ FACTORY_BANDS[g] = 1969 /\ FACTORY_BANDS[g + 1] = 1357
      BY <2>1, BandValues
    <3>2. /\ D(1969) * 1357 <= D(1357) * 1969 => 10 * n * 3326 >= 2 * 1969 * 1357 * d
          /\ D(1357) * 1969 < D(1969) * 1357 => 10 * n * 3326 < 2 * 1969 * 1357 * d
      <4> HIDE DEF n, d
      <4> QED BY <1>1, SMT DEF Abs
    <3> QED BY <1>1, <3>1, <3>2, SMT DEF Above, Below
  <2>2. CASE g = 2
    <3>1. /\ FACTORY_BANDS[g] = 1357 /\ FACTORY_BANDS[g + 1] = 1021
      BY <2>2, BandValues
    <3>2. /\ D(1357) * 1021 <= D(1021) * 1357 => 10 * n * 2378 >= 2 * 1357 * 1021 * d
          /\ D(1021) * 1357 < D(1357) * 1021 => 10 * n * 2378 < 2 * 1357 * 1021 * d
      <4> HIDE DEF n, d
      <4> QED BY <1>1, SMT DEF Abs
    <3> QED BY <1>1, <3>1, <3>2, SMT DEF Above, Below
  <2>3. CASE g = 3
    <3>1. /\ FACTORY_BANDS[g] = 1021 /\ FACTORY_BANDS[g + 1] = 828
      BY <2>3, BandValues
    <3>2. /\ D(1021) * 828 <= D(828) * 1021 => 10 * n * 1849 >= 2 * 1021 * 828 * d
          /\ D(828) * 1021 < D(1021) * 828 => 10 * n * 1849 < 2 * 1021 * 828 * d
      <4> HIDE DEF n, d
      <4> QED BY <1>1, SMT DEF Abs
    <3> QED BY <1>1, <3>1, <3>2, SMT DEF Above, Below
  <2>4. CASE g = 4
    <3>1. /\ FACTORY_BANDS[g] = 828 /\ FACTORY_BANDS[g + 1] = 683
      BY <2>4, BandValues
    <3>2. /\ D(828) * 683 <= D(683) * 828 => 10 * n * 1511 >= 2 * 828 * 683 * d
          /\ D(683) * 828 < D(828) * 683 => 10 * n * 1511 < 2 * 828 * 683 * d
      <4> HIDE DEF n, d
      <4> QED BY <1>1, SMT DEF Abs
    <3> QED BY <1>1, <3>1, <3>2, SMT DEF Above, Below
  <2>5. CASE g = 5
    <3>1. /\ FACTORY_BANDS[g] = 683 /\ FACTORY_BANDS[g + 1] = 559
      BY <2>5, BandValues
    <3>2. /\ D(683) * 559 <= D(559) * 683 => 10 * n * 1242 >= 2 * 683 * 559 * d
          /\ D(559) * 683 < D(683) * 559 => 10 * n * 1242 < 2 * 683 * 559 * d
      <4> HIDE DEF n, d
      <4> QED BY <1>1, SMT DEF Abs
    <3> QED BY <1>1, <3>1, <3>2, SMT DEF Above, Below
  <2> QED BY <1>2, <2>1, <2>2, <2>3, <2>4, <2>5
<1> QED BY <1>3, <1>4, <1>5, <1>6, <1>7

\* The factory's values do too.
LEMMA FactorySide ==
    ASSUME NEW g \in 1..5
    PROVE  Above(Factory[g], g) /\ Below(Factory[g + 1], g)
<1>1. g \in {1, 2, 3, 4, 5} /\ g \in Digits /\ g + 1 \in Digits
  BY BandValues
<1>2. /\ Factory[g].n = FACTORY_BANDS[g] /\ Factory[g].d = 10
      /\ Factory[g + 1].n = FACTORY_BANDS[g + 1] /\ Factory[g + 1].d = 10
  BY <1>1 DEF Factory
<1>3. CASE g = 1 BY <1>2, <1>3, BandValues DEF Above, Below
<1>4. CASE g = 2 BY <1>2, <1>4, BandValues DEF Above, Below
<1>5. CASE g = 3 BY <1>2, <1>5, BandValues DEF Above, Below
<1>6. CASE g = 4 BY <1>2, <1>6, BandValues DEF Above, Below
<1>7. CASE g = 5 BY <1>2, <1>7, BandValues DEF Above, Below
<1> QED BY <1>1, <1>3, <1>4, <1>5, <1>6, <1>7

\* Ratios on the two sides of a middle are in order.
LEMMA SidesOrder ==
    ASSUME NEW p, NEW q, NEW g \in 1..5,
           p.n \in Nat, p.d \in Nat \ {0}, q.n \in Nat, q.d \in Nat \ {0}, Above(p, g), Below(q, g)
    PROVE  p.n * q.d > q.n * p.d
<1> DEFINE A == 10 * (FACTORY_BANDS[g] + FACTORY_BANDS[g + 1])
           B == 2 * FACTORY_BANDS[g] * FACTORY_BANDS[g + 1]
<1>1. g \in {1, 2, 3, 4, 5}
  OBVIOUS
<1>2. A \in Nat /\ B \in Nat /\ A > 0
  BY <1>1, BandValues
<1>3. A * p.n >= B * p.d /\ A * q.n < B * q.d
  <2>1. FACTORY_BANDS[g] \in Nat /\ FACTORY_BANDS[g + 1] \in Nat
    BY <1>1, BandValues
  <2> QED BY <2>1 DEF Above, Below
<1> HIDE DEF A, B
<1>4. \A a, b, x, y, z, w \in Nat :
        a > 0 /\ y > 0 /\ w > 0 /\ a * x >= b * y /\ a * z < b * w => x * w > z * y
  <2> SUFFICES ASSUME NEW a \in Nat, NEW b \in Nat, NEW x \in Nat, NEW y \in Nat, NEW z \in Nat, NEW w \in Nat,
                      a > 0, y > 0, w > 0, a * x >= b * y, a * z < b * w
               PROVE  x * w > z * y
    OBVIOUS
  <2>1. (a * x) * w >= (b * y) * w
    OBVIOUS
  <2>2. (a * z) * y < (b * w) * y
    OBVIOUS
  <2>3. a * (x * w) > a * (z * y)
    BY <2>1, <2>2
  <2> QED BY <2>3
<1> QED BY <1>2, <1>3, <1>4

\* A peak counts for the gear it is nearest to, if it is near enough.
Owns(p, g) == Anchors(p) /\ nearest(p) = g

\* The bands are the last of a run from the factory's that refines with one peak
\* after the other.
IsRefining(f, ps) ==
    f[0] = Factory /\ \A k \in 1..Len(ps) : f[k] = refine(f[k - 1], ps[k])

LEMMA BandsAreRefining ==
    ASSUME NEW h, IsHist(h)
    PROVE  \E f : IsRefining(f, peaks(h)) /\ refined(h) = f[Len(peaks(h))]
<1> DEFINE C == candidates(h)
           ps == peaks(h)
           N == Len(ps)
           F(f) == [k \in 0..N |-> IF k = 0 THEN Factory ELSE refine(f[k - 1], ps[k])]
           u == CHOOSE f : f = F(f)
           V == C \cup {Factory[g] : g \in Digits}
           S == [Digits -> V]
           op == [x \in S \X (1..N) |-> refine(x[1], ps[x[2]])]
<1>1. refined(h) = u[N]
  BY DEF refined
<1>2. ps \in Seq(C) /\ \A p \in C : IsPeak(p)
  BY PeaksAreChosen, CandidatesType
<1> HIDE DEF C, ps
<1>3. N \in Nat /\ \A k \in 1..N : ps[k] \in C
  BY <1>2
<1> HIDE DEF N
<1>4. op \in [S \X (1..N) -> S]
  <2> SUFFICES ASSUME NEW x \in S \X (1..N) PROVE refine(x[1], ps[x[2]]) \in S
    OBVIOUS
  <2>1. x[1] \in S /\ ps[x[2]] \in C
    BY <1>3
  <2>2. ps[x[2]] \in V /\ nearest(ps[x[2]]) \in Digits
    BY <2>1, <1>2, NearestIsLeast
  <2> HIDE DEF V
  <2> QED BY <2>1, <2>2 DEF refine
<1>5. Factory \in S
  <2>1. Factory = [g \in Digits |-> Factory[g]]
    BY DEF Factory
  <2>2. \A g \in Digits : Factory[g] \in V
    OBVIOUS
  <2> HIDE DEF V
  <2> QED BY <2>1, <2>2
<1>6. PICK g : IsRun(g, S, Factory, N, op)
  <2>1. AreSteps(S, Factory, N, op)
    BY <1>3, <1>4, <1>5 DEF AreSteps
  <2> HIDE DEF op, S, u, F
  <2> QED BY <2>1, StepsExist
<1>7. g \in [0..N -> S] /\ g[0] = Factory /\ \A k \in 1..N : g[k] = op[<<g[k - 1], k>>]
  BY <1>6, Zenon DEF IsRun
<1>8. \A k \in 1..N : g[k] = refine(g[k - 1], ps[k])
  <2> SUFFICES ASSUME NEW k \in 1..N PROVE g[k] = refine(g[k - 1], ps[k])
    OBVIOUS
  <2> HIDE DEF S
  <2>1. k - 1 \in 0..N
    BY <1>3
  <2>2. <<g[k - 1], k>> \in S \X (1..N)
    BY <2>1, <1>7
  <2> QED BY <2>2, <1>7
<1>9. g = F(g)
  <2> HIDE DEF S, op
  <2>1. \A k \in 0..N : k = 0 \/ k \in 1..N
    BY <1>3
  <2>2. \A k \in 0..N : g[k] = F(g)[k]
    BY <2>1, <1>7, <1>8
  <2> QED BY <2>2, <1>7
<1>10. u = F(u)
  BY <1>9, Zenon
<1> HIDE DEF u, S, op
<1>11. u[0] = Factory /\ \A k \in 1..N : u[k] = refine(u[k - 1], ps[k])
  <2>1. \A k \in 1..N : k \in 0..N /\ k # 0
    BY <1>3
  <2>2. 0 \in 0..N
    BY <1>3
  <2> QED BY <1>10, <2>1, <2>2
<1> QED BY <1>1, <1>11 DEF IsRefining, ps, N

\* The band of a gear after the first k peaks: the factory's, when none of them
\* is its own, and otherwise the strongest of its own.
BandFits(b, ps, k, g) ==
    \/ b = Factory[g] /\ \A i \in 1..k : ~Owns(ps[i], g)
    \/ \E i \in 1..k : /\ b = ps[i] /\ Owns(ps[i], g)
                       /\ \A j \in 1..k : Owns(ps[j], g) => ps[j].mass <= ps[i].mass

Fits(b, ps, k) == DOMAIN b = Digits /\ \A g \in Digits : BandFits(b[g], ps, k, g)

LEMMA FitsStep ==
    ASSUME NEW C, \A p \in C : IsPeak(p), NEW ps \in Seq(C), NEW k \in 1..Len(ps),
           NEW b, Fits(b, ps, k - 1)
    PROVE  Fits(refine(b, ps[k]), ps, k)
<1> DEFINE p == ps[k]
           c == refine(b, p)
           N == Len(ps)
<1>1. p \in C /\ N \in Nat /\ k \in Nat /\ k >= 1 /\ k <= N /\ \A i \in 1..N : ps[i] \in C
  OBVIOUS
<1>2. \A i \in 1..k : i = k \/ i \in 1..(k - 1)
  BY <1>1
<1>3. k \in 1..k /\ \A i \in 1..(k - 1) : i \in 1..k
  BY <1>1
<1>4. \A i \in 1..k : ps[i].mass \in Nat \ {0}
  BY <1>1 DEF IsPeak
<1>5. IsPeak(p) /\ nearest(p) \in Digits
  BY <1>1, NearestIsLeast
<1>6. DOMAIN b = Digits /\ \A g \in Digits : BandFits(b[g], ps, k - 1, g)
  BY DEF Fits
<1>7. DOMAIN c = Digits
  BY <1>6 DEF refine
<1>8. ASSUME NEW g \in Digits, ~Owns(p, g) PROVE BandFits(c[g], ps, k, g)
  <2>1. c[g] = b[g]
    BY <1>6, <1>8 DEF refine, Owns
  <2>2. BandFits(b[g], ps, k - 1, g)
    BY <1>6
  <2> HIDE DEF c
  <2>3. CASE b[g] = Factory[g] /\ \A i \in 1..(k - 1) : ~Owns(ps[i], g)
    BY <2>1, <2>3, <1>2, <1>8 DEF BandFits
  <2>4. CASE \E i \in 1..(k - 1) : /\ b[g] = ps[i] /\ Owns(ps[i], g)
               /\ \A j \in 1..(k - 1) : Owns(ps[j], g) => ps[j].mass <= ps[i].mass
    BY <2>1, <2>4, <1>2, <1>3, <1>8 DEF BandFits
  <2> QED BY <2>2, <2>3, <2>4 DEF BandFits
<1>9. ASSUME NEW g \in Digits, Owns(p, g) PROVE BandFits(c[g], ps, k, g)
  <2>1. c[g] = IF p.mass > b[g].mass THEN p ELSE b[g]
    BY <1>6, <1>9 DEF refine, Owns
  <2>2. BandFits(b[g], ps, k - 1, g)
    BY <1>6
  <2> HIDE DEF c
  <2>3. CASE b[g] = Factory[g] /\ \A i \in 1..(k - 1) : ~Owns(ps[i], g)
    <3>1. b[g].mass = 0
      BY <2>3 DEF Factory
    <3>2. c[g] = p
      BY <2>1, <3>1, <1>5 DEF IsPeak
    <3>3. \A j \in 1..k : Owns(ps[j], g) => ps[j].mass <= p.mass
      BY <2>3, <1>2, <1>3, <1>4
    <3> QED BY <3>2, <3>3, <1>3, <1>9 DEF BandFits
  <2>4. ASSUME NEW i \in 1..(k - 1), b[g] = ps[i], Owns(ps[i], g),
               \A j \in 1..(k - 1) : Owns(ps[j], g) => ps[j].mass <= ps[i].mass
        PROVE  BandFits(c[g], ps, k, g)
    <3>1. ps[i].mass \in Nat /\ p.mass \in Nat /\ \A j \in 1..k : ps[j].mass \in Nat
      BY <1>3, <1>4
    <3>2. CASE p.mass > ps[i].mass
      <4>1. c[g] = p
        BY <2>1, <2>4, <3>2
      <4>2. \A j \in 1..k : Owns(ps[j], g) => ps[j].mass <= p.mass
        <5> SUFFICES ASSUME NEW j \in 1..k, Owns(ps[j], g) PROVE ps[j].mass <= p.mass
          OBVIOUS
        <5>1. CASE j = k BY <5>1, <3>1
        <5>2. CASE j \in 1..(k - 1)
          <6>1. ps[j].mass <= ps[i].mass
            BY <5>2, <2>4
          <6>2. ps[j].mass \in Nat
            BY <3>1
          <6> QED BY <6>1, <6>2, <3>1, <3>2
        <5> QED BY <5>1, <5>2, <1>2
      <4> QED BY <4>1, <4>2, <1>3, <1>9 DEF BandFits
    <3>3. CASE ~(p.mass > ps[i].mass)
      <4>1. c[g] = ps[i]
        BY <2>1, <2>4, <3>3
      <4>2. \A j \in 1..k : Owns(ps[j], g) => ps[j].mass <= ps[i].mass
        <5> SUFFICES ASSUME NEW j \in 1..k, Owns(ps[j], g) PROVE ps[j].mass <= ps[i].mass
          OBVIOUS
        <5>1. CASE j = k BY <5>1, <3>1, <3>3
        <5>2. CASE j \in 1..(k - 1) BY <5>2, <2>4
        <5> QED BY <5>1, <5>2, <1>2
      <4> QED BY <4>1, <4>2, <1>3, <2>4 DEF BandFits
    <3> QED BY <3>2, <3>3
  <2> QED BY <2>2, <2>3, <2>4 DEF BandFits
<1> HIDE DEF c
<1>10. Fits(c, ps, k)
  BY <1>7, <1>8, <1>9 DEF Fits
<1> QED BY <1>10 DEF c

\* So it is with all peaks.
LEMMA RefinedFits ==
    ASSUME NEW h, IsHist(h)
    PROVE  Fits(refined(h), peaks(h), Len(peaks(h)))
<1> DEFINE C == candidates(h)
           ps == peaks(h)
           N == Len(ps)
<1>1. ps \in Seq(C) /\ \A p \in C : IsPeak(p)
  BY PeaksAreChosen, CandidatesType
<1>2. PICK f : IsRefining(f, ps) /\ refined(h) = f[N]
  BY BandsAreRefining
<1> HIDE DEF C, ps
<1>3. N \in Nat
  BY <1>1
<1> DEFINE Good(k) == Fits(f[k], ps, k)
           Bad == {k \in 0..N : ~Good(k)}
<1>4. Good(0)
  <2>1. f[0] = Factory /\ DOMAIN Factory = Digits /\ 1..0 = {}
    BY <1>2 DEF IsRefining, Factory
  <2> QED BY <2>1 DEF Fits, BandFits
<1>5. ASSUME NEW k \in 1..N, Good(k - 1) PROVE Good(k)
  <2>1. f[k] = refine(f[k - 1], ps[k])
    BY <1>2 DEF IsRefining
  <2> QED BY <2>1, <1>1, <1>5, FitsStep
<1> HIDE DEF Good, N
<1>6. Bad = {}
  <2> SUFFICES ASSUME Bad # {} PROVE FALSE
    OBVIOUS
  <2>0. Bad \in SUBSET Nat
    BY <1>3
  <2>1. PICK k \in Bad : \A m \in Bad : k <= m
    <3> HIDE DEF Bad
    <3> QED BY <2>0, LeastNat
  <2>2. k \in 0..N /\ ~Good(k) /\ k # 0
    BY <1>4
  <2>3. k \in 1..N /\ k - 1 \in 0..N /\ k - 1 \notin Bad
    BY <1>3, <2>1, <2>2
  <2>4. Good(k - 1)
    BY <2>3
  <2> QED BY <1>5, <2>2, <2>3, <2>4
<1>7. Good(N)
  BY <1>3, <1>6
<1> QED BY <1>2, <1>7 DEF Good, ps, N

\* Which band a gear has, and that the gears keep their order.
LEMMA BandsFit ==
    ASSUME NEW h, IsHist(h)
    PROVE  /\ \A g \in Digits :
                 LET own == {p \in ToSet(peaks(h)) : Anchors(p) /\ nearest(p) = g}
                 IN  IF own = {} THEN refined(h)[g] = Factory[g]
                     ELSE refined(h)[g] \in own /\ \A p \in own : p.mass <= refined(h)[g].mass
           /\ \A g \in Digits : g + 1 \in Digits =>
                 refined(h)[g].n * refined(h)[g + 1].d > refined(h)[g + 1].n * refined(h)[g].d
<1> DEFINE C == candidates(h)
           ps == peaks(h)
           N == Len(ps)
           b == refined(h)
<1>1. ps \in Seq(C) /\ \A p \in C : IsPeak(p)
  BY PeaksAreChosen, CandidatesType
<1>2. \A g \in Digits : BandFits(b[g], ps, N, g)
  BY RefinedFits DEF Fits
<1> HIDE DEF C, ps, b
<1>3. ToSet(ps) = {ps[i] : i \in 1..N} /\ \A i \in 1..N : ps[i] \in C
  BY <1>1 DEF ToSet
<1> HIDE DEF N
<1>4. ASSUME NEW g \in Digits
      PROVE  LET own == {p \in ToSet(ps) : Anchors(p) /\ nearest(p) = g}
             IN  IF own = {} THEN b[g] = Factory[g]
                 ELSE b[g] \in own /\ \A p \in own : p.mass <= b[g].mass
  <2> DEFINE own == {p \in ToSet(ps) : Anchors(p) /\ nearest(p) = g}
  <2>1. \A p : p \in own <=> \E i \in 1..N : p = ps[i] /\ Owns(ps[i], g)
    BY <1>3 DEF Owns
  <2>2. BandFits(b[g], ps, N, g)
    BY <1>2
  <2> HIDE DEF own
  <2>3. CASE b[g] = Factory[g] /\ \A i \in 1..N : ~Owns(ps[i], g)
    <3>1. own = {}
      BY <2>1, <2>3
    <3> QED BY <2>3, <3>1, Zenon DEF own
  <2>4. ASSUME NEW i \in 1..N, b[g] = ps[i], Owns(ps[i], g),
               \A j \in 1..N : Owns(ps[j], g) => ps[j].mass <= ps[i].mass
        PROVE  b[g] \in own /\ \A p \in own : p.mass <= b[g].mass
    BY <2>1, <2>4
  <2>5. IF own = {} THEN b[g] = Factory[g]
        ELSE b[g] \in own /\ \A p \in own : p.mass <= b[g].mass
    <3>1. CASE b[g] = Factory[g] /\ \A i \in 1..N : ~Owns(ps[i], g)
      BY <2>1, <3>1
    <3>2. CASE ~(b[g] = Factory[g] /\ \A i \in 1..N : ~Owns(ps[i], g))
      <4>1. b[g] \in own /\ \A p \in own : p.mass <= b[g].mass
        BY <2>2, <2>4, <3>2 DEF BandFits
      <4> QED BY <4>1
    <3> QED BY <3>1, <3>2
  <2> QED BY <2>5, Zenon DEF own
<1>5. ASSUME NEW g \in Digits
      PROVE  b[g] = Factory[g] \/ (IsPeak(b[g]) /\ nearest(b[g]) = g)
  BY <1>1, <1>2, <1>3 DEF BandFits, Owns
<1>6. ASSUME NEW g \in Digits PROVE b[g].n \in Nat /\ b[g].d \in Nat \ {0}
  <2>1. CASE b[g] = Factory[g]
    <3>1. FACTORY_BANDS[g] \in Nat
      BY BandValues
    <3>2. Factory[g].n = FACTORY_BANDS[g] /\ Factory[g].d = 10
      BY DEF Factory
    <3> QED BY <2>1, <3>1, <3>2
  <2>2. CASE IsPeak(b[g]) BY <2>2 DEF IsPeak
  <2> QED BY <1>5, <2>1, <2>2
<1>7. ASSUME NEW g \in Digits, g + 1 \in Digits
      PROVE  b[g].n * b[g + 1].d > b[g + 1].n * b[g].d
  <2>1. g \in 1..5
    BY <1>7, BandValues
  <2>2. Above(b[g], g)
    BY <2>1, <1>5, NearestSide, FactorySide
  <2>3. Below(b[g + 1], g)
    BY <2>1, <1>5, <1>7, NearestSide, FactorySide
  <2> QED BY <2>1, <2>2, <2>3, <1>6, <1>7, SidesOrder
<1> QED BY <1>4, <1>7, Zenon DEF ps, b

-----------------------------------------------------------------------------
\* The sweep fills bins of the histogram.
LEMMA SweepIsHist == HistogramSpec => []IsHist(hist)
<1>1. HistogramInit => IsHist(hist)
  BY DEF HistogramInit, IsHist
<1>2. IsHist(hist) /\ [Fill]_hist => IsHist(hist)'
  <2> SUFFICES ASSUME IsHist(hist), [Fill]_hist PROVE IsHist(hist)'
    OBVIOUS
  <2>1. CASE Fill
    <3>1. PICK b \in Window \ DOMAIN hist, c \in Counts :
            hist' = [x \in DOMAIN hist \cup {b} |-> IF x = b THEN c ELSE hist[x]]
      BY <2>1 DEF Fill
    <3>2. b \in 0..(BINS - 1) /\ c \in Nat
      BY HistogramSweepAssumption
    <3> QED BY <3>1, <3>2 DEF IsHist
  <2>2. CASE UNCHANGED hist BY <2>2 DEF IsHist
  <2> QED BY <2>1, <2>2
<1> QED BY <1>1, <1>2, PTL DEF HistogramSpec

\* Whatever the bins hold, the peak search keeps the bigger of two peaks that
\* are one gear, loses no other, and sees a gear whose bins form a plateau.
THEOREM PeaksAlwaysFound == HistogramSpec => []PeaksFound
<1>1. IsHist(hist) => PeaksFound
  <2> SUFFICES ASSUME IsHist(hist) PROVE PeaksFound
    OBVIOUS
  <2>1. KeepsTheBigger
    BY BiggerIsKept DEF KeepsTheBigger
  <2>2. HeavyBinIsSeen
    BY HeavyBinMakesCandidate, CandidateYieldsPeak DEF HeavyBinIsSeen
  <2> QED BY <2>1, <2>2 DEF PeaksFound
<1> QED BY <1>1, SweepIsHist, PTL

\* Whatever the bins hold, each derived band is the strongest peak anchored to
\* its gear or the factory's value, and the bands keep the gears' order.
THEOREM BandsAlwaysFollowPeaks == HistogramSpec => []BandsFollowPeaks
<1>1. IsHist(hist) => BandsFollowPeaks
  <2> SUFFICES ASSUME IsHist(hist) PROVE BandsFollowPeaks
    OBVIOUS
  <2>1. CASE derive_bands(hist) = NoBands BY <2>1 DEF BandsFollowPeaks
  <2>2. CASE derive_bands(hist) # NoBands
    <3>1. derive_bands(hist) = refined(hist)
      BY <2>2 DEF derive_bands
    <3> QED BY <3>1, BandsFit, Zenon DEF BandsFollowPeaks
  <2> QED BY <2>1, <2>2
<1> QED BY <1>1, SweepIsHist, PTL

-----------------------------------------------------------------------------
(* The histogram in RAM and its copy in flash.                              *)

\* Every bin of r has a count, and the bins that s has are no fuller there.
Counted(r) == \A b \in DOMAIN r.hist : r.hist[b] \in Nat
Dominates(r, s) == \A b \in DOMAIN s.hist : count(r.hist, b) >= s.hist[b]

\* The inductive invariant: besides what is to be shown, a histogram is being
\* written only while it is dirty, and the one in RAM has at least what is in
\* flash, unless this boot wiped it or could not read it.
LInv ==
    /\ dirty \in BOOLEAN /\ CleanMeansSaved
    /\ pc = "saveHist" => dirty
    /\ Counted(ram) /\ Counted(flashHist)
    /\ flashHist # NoBlob /\ ~forgot => Dominates(ram, flashHist)

-----------------------------------------------------------------------------
\* One more in a bin leaves the others alone.
LEMMA BumpGrows ==
    ASSUME NEW r, Counted(r), NEW bin \in Int
    PROVE  Counted(Bump(r, bin)) /\ Dominates(Bump(r, bin), r)
<1> DEFINE c == count(r.hist, bin) + 1
           h == Bump(r, bin).hist
<1>1. h = [b \in DOMAIN r.hist \cup {bin} |-> IF b = bin THEN c ELSE r.hist[b]]
  BY DEF Bump, OneMore
<1>2. count(r.hist, bin) \in Nat BY DEF count, Counted
<1>3. \A b \in DOMAIN h : h[b] \in Nat BY <1>1, <1>2 DEF Counted
<1>4. ASSUME NEW b \in DOMAIN r.hist PROVE count(h, b) >= r.hist[b]
  BY <1>1, <1>2 DEF count, Counted
<1> QED BY <1>3, <1>4 DEF Counted, Dominates

\* So do a sample and the boot marker.
LEMMA SampleGrows ==
    ASSUME NEW r, Counted(r), NEW s \in Samples
    PROVE  Counted(add_sample(r, s)) /\ Dominates(add_sample(r, s), r)
<1>1. CASE outcome(r, s) = "accepted"
  <2>1. Bin(s.rpm, s.speed) \in 0..(BINS - 1) BY <1>1 DEF outcome
  <2>2. Bin(s.rpm, s.speed) \in Int BY <2>1, HistogramAssumption
  <2> QED BY <1>1, <2>2, BumpGrows DEF add_sample
<1>2. CASE outcome(r, s) # "accepted" BY <1>2 DEF add_sample, Dominates, Counted, count
<1> QED BY <1>1, <1>2

LEMMA MarkGrows ==
    ASSUME NEW r, Counted(r)
    PROVE  Counted(debug_mark(r)) /\ Dominates(debug_mark(r), r)
<1>1. CASE MarkerFits(r) BY <1>1, BumpGrows DEF debug_mark
<1>2. CASE ~MarkerFits(r) BY <1>2 DEF debug_mark, Dominates, Counted, count
<1> QED BY <1>1, <1>2

\* A histogram without samples takes the marker.
LEMMA EmptyFacts == Counted(Empty) /\ Counted(NoBlob) /\ MarkerFits(Empty)
BY HistogramAssumption DEF Counted, Empty, NoBlob, MarkerFits, count

-----------------------------------------------------------------------------
\* Before the first save the flash is empty and RAM is dirty.
LEMMA InitLInv == Init => LInv
<1> SUFFICES ASSUME Init PROVE LInv OBVIOUS
<1>1. dirty = TRUE BY EmptyFacts DEF Init
<1>2. Counted(ram) /\ Counted(flashHist) BY EmptyFacts, MarkGrows DEF Init
<1> QED BY <1>1, <1>2 DEF Init, LInv, CleanMeansSaved

\* A boot: what it does not mark dirty it has just read.
LEMMA BootLInv ==
    ASSUME LInv, Boot
    PROVE  LInv'
<1>1. PICK readable \in BOOLEAN : Load(readable) /\ forgot' = ~readable BY DEF Boot
<1> DEFINE stored == IF readable /\ flashHist # NoBlob THEN flashHist ELSE Empty
<1>2. flashHist' = flashHist /\ ram' = debug_mark(stored) /\ dirty' = MarkerFits(stored) /\ pc' = "run"
  BY <1>1 DEF Boot, Load, flashVars
<1>3. Counted(stored) /\ Counted(ram') BY <1>2, EmptyFacts, MarkGrows DEF LInv
<1>4. dirty' \in BOOLEAN BY <1>2 DEF MarkerFits
<1>5. CleanMeansSaved'
  <2>1. SUFFICES ASSUME ~MarkerFits(stored) PROVE ram' = flashHist BY <1>2 DEF CleanMeansSaved
  <2>2. stored = flashHist BY <2>1, EmptyFacts
  <2> QED BY <1>2, <2>1, <2>2 DEF debug_mark
<1>6. flashHist' # NoBlob /\ ~forgot' => Dominates(ram', flashHist')
  BY <1>1, <1>2, <1>3, MarkGrows
<1> QED BY <1>2, <1>3, <1>4, <1>5, <1>6 DEF LInv, Counted

\* A sample: what is not accepted leaves the histogram as it is.
LEMMA SampleLInv ==
    ASSUME LInv, AddSample
    PROVE  LInv'
<1>1. PICK s \in Samples : ram' = add_sample(ram, s) /\ dirty' = (dirty \/ outcome(ram, s) = "accepted")
  BY DEF AddSample
<1>2. UNCHANGED <<flashHist, forgot, pc>> /\ pc = "run" BY DEF AddSample, flashVars, obsVars
<1>3. Counted(ram') /\ Dominates(ram', ram) BY <1>1, SampleGrows DEF LInv
<1>4. dirty' \in BOOLEAN BY <1>1 DEF LInv
<1>5. CleanMeansSaved'
  <2>1. SUFFICES ASSUME ~dirty, outcome(ram, s) # "accepted" PROVE flashHist = ram'
    BY <1>1, <1>2 DEF CleanMeansSaved
  <2> QED BY <1>1, <2>1 DEF add_sample, LInv, CleanMeansSaved
<1>6. flashHist' # NoBlob /\ ~forgot' => Dominates(ram', flashHist')
  <2>1. SUFFICES ASSUME Dominates(ram, flashHist), NEW b \in DOMAIN flashHist.hist
                 PROVE  count(ram'.hist, b) >= flashHist.hist[b]
    BY <1>2 DEF LInv, Dominates
  <2>2. flashHist.hist[b] \in Nat BY DEF LInv, Counted
  <2>3. count(ram.hist, b) >= flashHist.hist[b] BY <2>1 DEF Dominates
  <2>4. CASE b \in DOMAIN ram.hist
    <3>1. count(ram.hist, b) = ram.hist[b] /\ ram.hist[b] \in Nat BY <2>4 DEF count, LInv, Counted
    <3>2. count(ram'.hist, b) >= ram.hist[b] BY <1>3, <2>4 DEF Dominates
    <3>3. count(ram'.hist, b) \in Nat BY <1>3 DEF Counted, count
    <3> QED BY <2>2, <2>3, <3>1, <3>2, <3>3
  <2>5. CASE b \notin DOMAIN ram.hist
    <3>1. flashHist.hist[b] = 0 BY <2>2, <2>3, <2>5 DEF count
    <3>2. count(ram'.hist, b) \in Nat BY <1>3 DEF Counted, count
    <3> QED BY <3>1, <3>2
  <2> QED BY <2>4, <2>5
<1> QED BY <1>2, <1>3, <1>4, <1>5, <1>6 DEF LInv, Counted

\* The two writes of a save.
LEMMA SaveLInv ==
    ASSUME LInv, SaveDebug \/ SaveHist
    PROVE  LInv'
<1>1. UNCHANGED <<ram, forgot>> BY DEF SaveDebug, SaveHist, learnerVars, obsVars
<1>2. CASE SaveDebug
  <2>1. UNCHANGED <<flashHist, dirty>> BY <1>2 DEF SaveDebug, learnerVars
  <2>2. pc' = "saveHist" => dirty BY <1>2 DEF SaveDebug, Saved
  <2> QED BY <1>1, <2>1, <2>2 DEF LInv, CleanMeansSaved, Counted
<1>3. CASE SaveHist
  <2>1. pc' # "saveHist" BY <1>3 DEF SaveHist, Saved
  <2>2. CASE flashHist' = ram /\ dirty' = FALSE
    <3>1. Dominates(ram, ram) BY DEF LInv, Dominates, Counted, count
    <3> QED BY <1>1, <2>1, <2>2, <3>1 DEF LInv, CleanMeansSaved, Counted
  <2>3. CASE UNCHANGED <<flashHist, dirty>> BY <1>1, <2>1, <2>3 DEF LInv, CleanMeansSaved, Counted
  <2> QED BY <1>3, <2>2, <2>3 DEF SaveHist
<1> QED BY <1>2, <1>3

\* The other steps leave the histograms alone, or wipe the one in RAM.
LEMMA LoopLInv ==
    ASSUME LInv, TimerSave \/ OtaSave \/ RebootSave \/ LinkDrop \/ ClearBlackBox \/ Wipe
    PROVE  LInv'
<1>1. flashHist' = flashHist /\ pc' # "saveHist"
  BY DEF TimerSave, OtaSave, RebootSave, LinkDrop, ClearBlackBox, Wipe, StartSave, flashVars
<1>2. CASE Wipe
  <2>1. ram' = Empty /\ dirty' = TRUE /\ forgot' = TRUE BY <1>2 DEF Wipe
  <2> QED BY <1>1, <2>1, EmptyFacts DEF LInv, CleanMeansSaved, Counted
<1>3. CASE ~Wipe
  <2>1. UNCHANGED <<ram, dirty, forgot>>
    BY <1>3 DEF TimerSave, OtaSave, RebootSave, LinkDrop, ClearBlackBox, learnerVars, obsVars
  <2> QED BY <1>1, <2>1 DEF LInv, CleanMeansSaved, Counted
<1> QED BY <1>2, <1>3

\* Every step preserves the invariant.
LEMMA NextLInv == LInv /\ [Next]_vars => LInv'
<1> SUFFICES ASSUME LInv, [Next]_vars PROVE LInv' OBVIOUS
<1>1. CASE UNCHANGED vars
  BY <1>1 DEF vars, flashVars, learnerVars, obsVars, LInv, CleanMeansSaved, Counted
<1> QED BY <1>1, BootLInv, SampleLInv, SaveLInv, LoopLInv DEF Next, PowerCut, Restart

-----------------------------------------------------------------------------
\* The inductive invariant holds of every reachable state.
THEOREM LearnStoreInvariant == Spec => []LInv
BY InitLInv, NextLInv, PTL DEF Spec

\* What is not marked dirty is in flash.
THEOREM CleanIsSaved == Spec => []CleanMeansSaved
<1>1. LInv => CleanMeansSaved BY DEF LInv
<1> QED BY <1>1, LearnStoreInvariant, PTL

\* No step takes a sample from the flash in a boot that neither wiped the
\* histogram nor failed to read it.
THEOREM SamplesStay == Spec => OnlyWipeForgets
<1> DEFINE Keeps == flashHist # NoBlob /\ ~forgot =>
                      \A b \in DOMAIN flashHist.hist : count(flashHist'.hist, b) >= flashHist.hist[b]
<1>1. ASSUME LInv, [Next]_vars PROVE [Keeps]_vars
  <2>1. flashHist' = flashHist \/ flashHist' = ram
    BY <1>1 DEF Next, PowerCut, Restart, Boot, AddSample, SaveDebug, SaveHist, TimerSave, OtaSave,
                RebootSave, LinkDrop, Wipe, ClearBlackBox, flashVars, vars
  <2>2. CASE flashHist' = flashHist BY <1>1, <2>2 DEF LInv, Counted, count
  <2>3. CASE flashHist' = ram BY <1>1, <2>3 DEF LInv, Dominates
  <2> QED BY <2>1, <2>2, <2>3
<1> QED BY <1>1, LearnStoreInvariant, PTL DEF Spec, OnlyWipeForgets

-----------------------------------------------------------------------------
(* The total agrees with the bins, and the bins with their width.           *)

\* f[k] is the sum of the first k bins.
IsTally(f, h) ==
    f \in [0..BINS -> Nat] /\ f[0] = 0 /\ \A k \in 1..BINS : f[k] = f[k - 1] + count(h, k - 1)

\* The total is the last of such sums.
LEMMA TotalIsTally ==
    ASSUME NEW h, IsHist(h)
    PROVE  \E f : IsTally(f, h) /\ Total(h) = f[BINS]
<1> DEFINE F(f) == [k \in 0..BINS |-> IF k = 0 THEN 0 ELSE f[k - 1] + count(h, k - 1)]
           u == CHOOSE f : f = F(f)
           op == [x \in Nat \X (1..BINS) |-> x[1] + count(h, x[2] - 1)]
<1>1. Total(h) = u[BINS]
  BY DEF Total
<1>2. BINS \in Nat /\ \A k \in 1..BINS : k - 1 \in 0..BINS /\ k \in 0..BINS /\ k # 0 /\ count(h, k - 1) \in Nat
  BY CountType, HistogramAssumption
<1>3. op \in [Nat \X (1..BINS) -> Nat]
  <2> SUFFICES ASSUME NEW x \in Nat \X (1..BINS) PROVE x[1] + count(h, x[2] - 1) \in Nat
    OBVIOUS
  <2>1. x[1] \in Nat /\ x[2] \in 1..BINS
    OBVIOUS
  <2>2. count(h, x[2] - 1) \in Nat
    BY <2>1, <1>2
  <2> QED BY <2>1, <2>2
<1>4. PICK g : IsRun(g, Nat, 0, BINS, op)
  <2>1. AreSteps(Nat, 0, BINS, op)
    BY <1>2, <1>3 DEF AreSteps
  <2> HIDE DEF op, u, F
  <2> QED BY <2>1, StepsExist
<1>5. g \in [0..BINS -> Nat] /\ g[0] = 0 /\ \A k \in 1..BINS : g[k] = op[<<g[k - 1], k>>]
  BY <1>4, Zenon DEF IsRun
<1>6. \A k \in 1..BINS : g[k] = g[k - 1] + count(h, k - 1)
  <2> SUFFICES ASSUME NEW k \in 1..BINS PROVE g[k] = g[k - 1] + count(h, k - 1)
    OBVIOUS
  <2>1. <<g[k - 1], k>> \in Nat \X (1..BINS)
    BY <1>2, <1>5
  <2> QED BY <2>1, <1>5
<1>7. g = F(g)
  <2> HIDE DEF op
  <2>1. \A k \in 0..BINS : k = 0 \/ k \in 1..BINS
    BY <1>2
  <2>2. \A k \in 0..BINS : g[k] = F(g)[k]
    BY <2>1, <1>5, <1>6
  <2> QED BY <2>2, <1>5
<1>8. u = F(u)
  BY <1>7, Zenon
<1> HIDE DEF u, op
<1>9. u[0] = 0 /\ \A k \in 1..BINS : u[k] = u[k - 1] + count(h, k - 1)
  <2>1. 0 \in 0..BINS
    BY <1>2
  <2> QED BY <1>2, <1>8, <2>1
<1>10. u = [k \in 0..BINS |-> u[k]]
  BY <1>8
<1> DEFINE Bad == {k \in 0..BINS : u[k] \notin Nat}
<1>11. Bad = {}
  <2> SUFFICES ASSUME Bad # {} PROVE FALSE
    OBVIOUS
  <2>0. Bad \in SUBSET Nat
    BY <1>2
  <2>1. PICK k \in Bad : \A m \in Bad : k <= m
    <3> HIDE DEF Bad
    <3> QED BY <2>0, LeastNat
  <2>2. k \in 1..BINS /\ u[k] \notin Nat
    BY <1>2, <1>9
  <2>3. k - 1 \in 0..BINS /\ k - 1 \notin Bad
    BY <1>2, <2>1, <2>2
  <2>4. u[k - 1] \in Nat
    BY <2>3
  <2> QED BY <1>2, <1>9, <2>2, <2>4
<1>12. u \in [0..BINS -> Nat]
  BY <1>10, <1>11
<1> QED BY <1>1, <1>9, <1>12 DEF IsTally

\* One more in a bin is one more in all.
LEMMA TotalOfOneMore ==
    ASSUME NEW h, IsHist(h), NEW bin \in 0..(BINS - 1)
    PROVE  /\ IsHist(OneMore(h, bin))
           /\ Total(h) \in Nat /\ Total(OneMore(h, bin)) = Total(h) + 1
           /\ DOMAIN OneMore(h, bin) = DOMAIN h \cup {bin}
           /\ OneMore(h, bin)[bin] = count(h, bin) + 1
           /\ \A b \in DOMAIN h : b # bin => OneMore(h, bin)[b] = h[b]
<1> DEFINE o == OneMore(h, bin)
<1>1. o = [b \in DOMAIN h \cup {bin} |-> IF b = bin THEN count(h, b) + 1 ELSE h[b]]
  BY DEF OneMore
<1>2. bin \in Int /\ count(h, bin) \in Nat /\ BINS \in Nat
  BY CountType, HistogramAssumption
<1>3. IsHist(o)
  BY <1>1, <1>2 DEF IsHist
<1>4. \A j \in Int : count(o, j) = IF j = bin THEN count(h, j) + 1 ELSE count(h, j)
  BY <1>1, <1>2 DEF count
<1>5. /\ DOMAIN o = DOMAIN h \cup {bin} /\ o[bin] = count(h, bin) + 1
      /\ \A b \in DOMAIN h : b # bin => o[b] = h[b]
  BY <1>1
<1> HIDE DEF o
<1>6. PICK f : IsTally(f, h) /\ Total(h) = f[BINS]
  BY TotalIsTally
<1>7. PICK g : IsTally(g, o) /\ Total(o) = g[BINS]
  BY <1>3, TotalIsTally
<1>8. /\ f \in [0..BINS -> Nat] /\ f[0] = 0
      /\ \A k \in 1..BINS : f[k] = f[k - 1] + count(h, k - 1)
  BY <1>6 DEF IsTally
<1>9. /\ g \in [0..BINS -> Nat] /\ g[0] = 0
      /\ \A k \in 1..BINS : g[k] = g[k - 1] + count(o, k - 1)
  BY <1>7 DEF IsTally
<1>10. \A k \in 1..BINS : k \in Int /\ k - 1 \in Int /\ k - 1 \in 0..BINS /\ count(h, k - 1) \in Nat
  BY CountType, <1>2
<1> DEFINE Good(k) == g[k] = f[k] + (IF bin < k THEN 1 ELSE 0)
           Bad == {k \in 0..BINS : ~Good(k)}
<1>11. Good(0)
  BY <1>2, <1>8, <1>9
<1>12. ASSUME NEW k \in 1..BINS, Good(k - 1) PROVE Good(k)
  <2>1. f[k] = f[k - 1] + count(h, k - 1) /\ g[k] = g[k - 1] + count(o, k - 1)
    BY <1>8, <1>9
  <2>2. f[k - 1] \in Nat /\ g[k - 1] \in Nat /\ count(h, k - 1) \in Nat
    BY <1>8, <1>9, <1>10
  <2>3. count(o, k - 1) = IF k - 1 = bin THEN count(h, k - 1) + 1 ELSE count(h, k - 1)
    BY <1>4, <1>10
  <2>4. CASE bin < k - 1 BY <2>1, <2>2, <2>3, <2>4, <1>2, <1>12
  <2>5. CASE bin = k - 1 BY <2>1, <2>2, <2>3, <2>5, <1>2, <1>12
  <2>6. CASE bin > k - 1 BY <2>1, <2>2, <2>3, <2>6, <1>2, <1>12
  <2> QED BY <2>4, <2>5, <2>6, <1>2, <1>10
<1>13. Bad = {}
  <2> HIDE DEF Good
  <2> SUFFICES ASSUME Bad # {} PROVE FALSE
    OBVIOUS
  <2>0. Bad \in SUBSET Nat
    BY <1>2
  <2>1. PICK k \in Bad : \A m \in Bad : k <= m
    <3> HIDE DEF Bad
    <3> QED BY <2>0, LeastNat
  <2>2. k \in 0..BINS /\ ~Good(k) /\ k # 0
    BY <1>11
  <2>3. k \in 1..BINS /\ k - 1 \in 0..BINS /\ k - 1 \notin Bad
    BY <1>2, <2>1, <2>2
  <2>4. Good(k - 1)
    BY <2>3
  <2> QED BY <1>12, <2>2, <2>3, <2>4
<1>14. g[BINS] = f[BINS] + 1
  <2>1. BINS \in 0..BINS /\ bin < BINS
    BY <1>2
  <2> QED BY <2>1, <1>13
<1>15. f[BINS] \in Nat
  BY <1>2, <1>8
<1> QED BY <1>3, <1>5, <1>6, <1>7, <1>14, <1>15 DEF o

\* Nothing is counted in an empty histogram.
LEMMA TotalOfNone == IsHistogram(Empty)
<1> DEFINE h == Empty.hist
<1>1. DOMAIN h = {} /\ Empty.samples = 0
  BY DEF Empty
<1> HIDE DEF h
<1>2. IsHist(h)
  BY <1>1 DEF IsHist
<1>3. PICK f : IsTally(f, h) /\ Total(h) = f[BINS]
  BY <1>2, TotalIsTally
<1>4. /\ f \in [0..BINS -> Nat] /\ f[0] = 0
      /\ \A k \in 1..BINS : f[k] = f[k - 1] + 0
  BY <1>1, <1>3 DEF IsTally, count
<1>5. BINS \in Nat
  BY HistogramAssumption
<1> DEFINE Bad == {k \in 0..BINS : f[k] # 0}
<1>6. Bad = {}
  <2> SUFFICES ASSUME Bad # {} PROVE FALSE
    OBVIOUS
  <2>0. Bad \in SUBSET Nat
    BY <1>5
  <2>1. PICK k \in Bad : \A m \in Bad : k <= m
    <3> HIDE DEF Bad
    <3> QED BY <2>0, LeastNat
  <2>2. k \in 1..BINS /\ f[k] # 0
    BY <1>4, <1>5
  <2>3. k - 1 \in 0..BINS /\ k - 1 \notin Bad
    BY <1>5, <2>1, <2>2
  <2> QED BY <1>4, <2>2, <2>3
<1>7. Total(h) = 0
  BY <1>3, <1>5, <1>6
<1> QED BY <1>1, <1>7 DEF IsHistogram, h

\* A bin that has room for one more leaves a histogram a histogram.
LEMMA BumpIsHistogram ==
    ASSUME NEW r, IsHistogram(r), NEW bin \in 0..(BINS - 1), count(r.hist, bin) < COUNT_MAX
    PROVE  IsHistogram(Bump(r, bin))
<1> DEFINE h == r.hist
           o == OneMore(h, bin)
<1>1. IsHist(h)
  BY DEF IsHistogram, IsHist
<1>2. Bump(r, bin).hist = o /\ Bump(r, bin).samples = r.samples + 1
  BY DEF Bump
<1>3. /\ DOMAIN o = DOMAIN h \cup {bin} /\ o[bin] = count(h, bin) + 1 /\ Total(o) = Total(h) + 1
      /\ \A b \in DOMAIN h : b # bin => o[b] = h[b]
  BY <1>1, TotalOfOneMore
<1>4. /\ DOMAIN h \subseteq 0..(BINS - 1) /\ r.samples = Total(h)
      /\ \A b \in DOMAIN h : h[b] \in 1..COUNT_MAX
  BY DEF IsHistogram
<1>5. count(h, bin) \in Nat /\ COUNT_MAX \in Nat
  BY <1>1, CountType, HistogramAssumption
<1> HIDE DEF o
<1>6. \A b \in DOMAIN o : o[b] \in 1..COUNT_MAX
  BY <1>3, <1>4, <1>5
<1> QED BY <1>2, <1>3, <1>4, <1>6 DEF IsHistogram

\* Samples and the boot marker keep it one.
LEMMA FeedingIsHistogram ==
    ASSUME NEW r, IsHistogram(r)
    PROVE  /\ \A s \in Samples : IsHistogram(add_sample(r, s))
           /\ IsHistogram(debug_mark(r))
<1>1. ASSUME NEW s \in Samples PROVE IsHistogram(add_sample(r, s))
  <2>1. CASE outcome(r, s) = "accepted"
    <3>1. /\ Bin(s.rpm, s.speed) \in 0..(BINS - 1)
          /\ count(r.hist, Bin(s.rpm, s.speed)) < COUNT_MAX
      BY <2>1 DEF outcome
    <3> QED BY <2>1, <3>1, BumpIsHistogram DEF add_sample
  <2>2. CASE outcome(r, s) # "accepted" BY <2>2 DEF add_sample
  <2> QED BY <2>1, <2>2
<1>2. IsHistogram(debug_mark(r))
  <2>1. CASE MarkerFits(r)
    <3>1. IsHist(r.hist)
      BY DEF IsHistogram, IsHist
    <3>2. count(r.hist, 0) \in Nat
      BY <3>1, CountType
    <3>3. 0 \in 0..(BINS - 1) /\ count(r.hist, 0) < COUNT_MAX
      BY <2>1, <3>2, HistogramAssumption DEF MarkerFits
    <3> QED BY <2>1, <3>3, BumpIsHistogram DEF debug_mark
  <2>2. CASE ~MarkerFits(r) BY <2>2 DEF debug_mark
  <2> QED BY <2>1, <2>2
<1> QED BY <1>1, <1>2

\* The counters of the black box, in RAM and in flash, after n boots.
IsDebug(d, n) == d \in [boots : 0..n, link_drops : 0..MaxDrops]

\* Besides the types, that the boots counted were boots.
TInv ==
    /\ TypeOK
    /\ boots \in 1..MaxBoots
    /\ IsDebug(debug, boots) /\ (flashDebug # NoDebug => IsDebug(flashDebug, boots))

\* Bands that are derived are bins.
LEMMA DerivedType ==
    ASSUME NEW r, IsHistogram(r)
    PROVE  DerivedBands(r) # NotDerived => DerivedBands(r) \subseteq 0..(BINS - 1)
BY DEF DerivedBands, IsHistogram

LEMMA InitTInv == Init => TInv
<1> SUFFICES ASSUME Init PROVE TInv
  OBVIOUS
<1>1. IsHistogram(ram)
  BY TotalOfNone, FeedingIsHistogram DEF Init
<1>2. dirty \in BOOLEAN
  BY EmptyFacts DEF Init
<1>3. debug = [boots |-> 1, link_drops |-> 0]
  BY DEF Init, NewDebug
<1>4. boots \in 1..MaxBoots /\ IsDebug(debug, boots) /\ debug \in [boots : 0..MaxBoots, link_drops : 0..MaxDrops]
  <2>1. boots = 1 /\ 1 \in 0..1 /\ 1 \in 0..MaxBoots /\ 1 \in 1..MaxBoots /\ 0 \in 0..MaxDrops
    BY LearnStoreAssumption DEF Init
  <2> QED BY <1>3, <2>1 DEF IsDebug
<1>5. bands \subseteq 0..(BINS - 1)
  BY DEF Init, FactoryBands
<1> QED BY <1>1, <1>2, <1>4, <1>5 DEF Init, TInv, TypeOK

\* A boot reads histograms and counts itself.
LEMMA BootTInv ==
    ASSUME TInv, Boot
    PROVE  TInv'
<1>1. PICK readable \in BOOLEAN : Load(readable) /\ forgot' = ~readable
  BY DEF Boot
<1> DEFINE stored == IF readable /\ flashHist # NoBlob THEN flashHist ELSE Empty
           d == IF flashDebug # NoDebug THEN flashDebug ELSE NewDebug
           derived == DerivedBands(debug_mark(stored))
<1>2. /\ UNCHANGED <<flashHist, flashDebug>> /\ boots' = boots + 1 /\ boots < MaxBoots
      /\ ram' = debug_mark(stored) /\ dirty' = MarkerFits(stored)
      /\ debug' = [d EXCEPT !.boots = @ + 1]
      /\ bands' = (IF derived = NotDerived THEN FactoryBands ELSE derived)
      /\ pc' = "run" /\ saveFor' = "none"
  BY <1>1 DEF Boot, Load, flashVars
<1>3. IsHistogram(stored)
  BY TotalOfNone DEF TInv, TypeOK
<1>4. IsHistogram(ram')
  BY <1>2, <1>3, FeedingIsHistogram
<1>5. bands' \subseteq 0..(BINS - 1)
  <2>1. derived # NotDerived => derived \subseteq 0..(BINS - 1)
    BY <1>3, FeedingIsHistogram, DerivedType
  <2> QED BY <1>2, <2>1 DEF FactoryBands
<1>6. dirty' \in BOOLEAN
  BY <1>2 DEF MarkerFits
<1>7. IsDebug(d, boots) /\ boots \in 1..MaxBoots /\ MaxBoots \in Nat /\ MaxDrops \in Nat
  BY LearnStoreAssumption DEF TInv, IsDebug, NewDebug
<1> HIDE DEF d, derived, stored
<1>8. debug' \in [boots : 0..(boots + 1), link_drops : 0..MaxDrops]
  BY <1>2, <1>7 DEF IsDebug
<1>9. boots' \in 1..MaxBoots /\ IsDebug(debug', boots') /\ debug' \in [boots : 0..MaxBoots, link_drops : 0..MaxDrops]
  BY <1>2, <1>7, <1>8 DEF IsDebug
<1>10. flashDebug' # NoDebug => IsDebug(flashDebug', boots')
  BY <1>2, <1>7 DEF TInv, IsDebug
<1>11. flashHist' # NoBlob => IsHistogram(flashHist')
  BY <1>2 DEF TInv, TypeOK
<1> QED BY <1>1, <1>2, <1>4, <1>5, <1>6, <1>9, <1>10, <1>11 DEF TInv, TypeOK, IsHistogram

\* The other steps: a sample, the two writes, and what the loop does.
LEMMA StepTInv ==
    ASSUME TInv, AddSample \/ SaveDebug \/ SaveHist \/ TimerSave \/ OtaSave \/ RebootSave
                   \/ LinkDrop \/ Wipe \/ ClearBlackBox
    PROVE  TInv'
<1>1. boots' = boots
  BY DEF AddSample, SaveDebug, SaveHist, TimerSave, OtaSave, RebootSave, LinkDrop, Wipe, ClearBlackBox, obsVars
<1>2. IsHistogram(ram')
  <2>1. CASE AddSample BY <2>1, FeedingIsHistogram DEF AddSample, TInv, TypeOK
  <2>2. CASE Wipe BY <2>2, TotalOfNone DEF Wipe
  <2>3. CASE ~AddSample /\ ~Wipe
    <3>1. ram' = ram
      BY <2>3 DEF SaveDebug, SaveHist, TimerSave, OtaSave, RebootSave, LinkDrop, ClearBlackBox, learnerVars
    <3> QED BY <3>1 DEF TInv, TypeOK
  <2> QED BY <2>1, <2>2, <2>3
<1>3. flashHist' # NoBlob => IsHistogram(flashHist')
  <2>1. flashHist' = flashHist \/ flashHist' = ram
    BY DEF AddSample, SaveDebug, SaveHist, TimerSave, OtaSave, RebootSave, LinkDrop, Wipe, ClearBlackBox, flashVars
  <2> QED BY <2>1 DEF TInv, TypeOK
<1>4. dirty' \in BOOLEAN /\ forgot' \in BOOLEAN
  BY DEF AddSample, SaveDebug, SaveHist, TimerSave, OtaSave, RebootSave, LinkDrop, Wipe, ClearBlackBox,
         learnerVars, obsVars, TInv, TypeOK
<1>5. boots \in 1..MaxBoots /\ MaxBoots \in Nat /\ MaxDrops \in Nat /\ IsDebug(debug, boots)
  BY LearnStoreAssumption DEF TInv
<1>6. IsDebug(debug', boots)
  <2>1. CASE LinkDrop BY <2>1, <1>5 DEF LinkDrop, IsDebug
  <2>2. CASE Wipe BY <2>2, <1>5 DEF Wipe, IsDebug, NewDebug
  <2>3. CASE ClearBlackBox BY <2>3, <1>5 DEF ClearBlackBox, IsDebug, NewDebug
  <2>4. CASE ~LinkDrop /\ ~Wipe /\ ~ClearBlackBox
    <3>1. debug' = debug
      BY <2>4 DEF AddSample, SaveDebug, SaveHist, TimerSave, OtaSave, RebootSave, learnerVars
    <3> QED BY <3>1, <1>5
  <2> QED BY <2>1, <2>2, <2>3, <2>4
<1>7. debug' \in [boots : 0..MaxBoots, link_drops : 0..MaxDrops]
  BY <1>5, <1>6 DEF IsDebug
<1>8. flashDebug' # NoDebug => IsDebug(flashDebug', boots)
  <2>1. flashDebug' = flashDebug \/ flashDebug' = debug \/ flashDebug' = debug'
    BY DEF AddSample, SaveDebug, SaveHist, TimerSave, OtaSave, RebootSave, LinkDrop, Wipe, ClearBlackBox, flashVars
  <2> QED BY <2>1, <1>5, <1>6 DEF TInv
<1>9. /\ pc' \in {"run", "saveDebug", "saveHist", "restart"}
      /\ saveFor' \in {"none", "timer", "ota", "reboot", "linkDrop", "wipe"}
  BY DEF AddSample, SaveDebug, SaveHist, TimerSave, OtaSave, RebootSave, LinkDrop, Wipe, ClearBlackBox,
         StartSave, Saved, TInv, TypeOK
<1>10. bands' \subseteq 0..(BINS - 1) \/ bands' = ClearedBands
  <2>1. \/ bands' = bands \/ bands' = ClearedBands
        \/ bands' = DerivedBands(ram) /\ DerivedBands(ram) # NotDerived
    BY DEF AddSample, SaveDebug, SaveHist, TimerSave, OtaSave, RebootSave, LinkDrop, Wipe, ClearBlackBox, Saved
  <2>2. IsHistogram(ram)
    BY DEF TInv, TypeOK
  <2> QED BY <2>1, <2>2, DerivedType DEF TInv, TypeOK
<1> QED BY <1>1, <1>2, <1>3, <1>4, <1>5, <1>6, <1>7, <1>8, <1>9, <1>10 DEF TInv, TypeOK, IsHistogram

LEMMA NextTInv == TInv /\ [Next]_vars => TInv'
<1> SUFFICES ASSUME TInv, [Next]_vars PROVE TInv'
  OBVIOUS
<1>1. CASE UNCHANGED vars
  BY <1>1 DEF vars, flashVars, learnerVars, obsVars, TInv, TypeOK, IsHistogram
<1> QED BY <1>1, BootTInv, StepTInv DEF Next, PowerCut, Restart

\* The total always agrees with the bins, in RAM and in flash, no bin outgrows
\* its width, and the black box counts no boot that did not happen.
THEOREM LearnStoreTypeOK == Spec => []TypeOK
<1>1. TInv => TypeOK
  BY DEF TInv
<1> QED BY <1>1, InitTInv, NextTInv, PTL DEF Spec

\* The lower gear has the higher ratio.
InOrder(b) ==
    \A g \in Digits : g + 1 \in Digits => b[g].n * b[g + 1].d > b[g + 1].n * b[g].d

\* Whatever was fed, saved, lost, wiped and read back before, the bands that the
\* learner's histogram yields keep the gears' order.
THEOREM LearnedBandsInOrder ==
    Spec => [](derive_bands(ram.hist) # NoBands => InOrder(derive_bands(ram.hist)))
<1>1. TypeOK => (derive_bands(ram.hist) # NoBands => InOrder(derive_bands(ram.hist)))
  <2> SUFFICES ASSUME TypeOK, derive_bands(ram.hist) # NoBands PROVE InOrder(derive_bands(ram.hist))
    OBVIOUS
  <2>1. IsHist(ram.hist)
    BY DEF TypeOK, IsHistogram, IsHist
  <2>2. derive_bands(ram.hist) = refined(ram.hist)
    BY DEF derive_bands
  <2> QED BY <2>1, <2>2, BandsFit DEF InOrder
<1> QED BY <1>1, LearnStoreTypeOK, PTL
=============================================================================
