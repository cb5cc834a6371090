----------------------------- MODULE GearProofs -----------------------------
(***************************************************************************)
(* Proofs about the ratio classifier, for every engine and road speed and   *)
(* every calibration whose bands descend, as those of gear.rs and the ones  *)
(* derive_bands makes of them do; and about the estimator, for every        *)
(* debounce length, standstill limit, counter width, set of readings and    *)
(* set of calibrations that the assumptions of GearEstimator allow.         *)
(***************************************************************************)
EXTENDS ClassifierSweep, GearEstimatorSpec, FiniteSetTheorems, TLAPS

Descending(b) == IsBandTable(b) /\ \A i, j \in DOMAIN b : i < j => b[i] > b[j]

\* rpm / speed is below the ratio at which hi and lo are equally far off: their
\* harmonic mean.  (IntervalGear counts the neighbours of which this is true.)
Below(hi, lo, r, s) == 10 * r * (hi + lo) < 2 * hi * lo * s

-----------------------------------------------------------------------------
(* Two bands.                                                               *)

\* Of two bands the lower one has the smaller relative error exactly below
\* their harmonic mean.
LEMMA CloserBand ==
    ASSUME NEW hi \in Nat \ {0}, NEW lo \in Nat \ {0}, hi > lo,
           NEW r \in Nat \ {0}, NEW s \in Nat \ {0}
    PROVE  /\ Miss(lo, r, s) * hi < Miss(hi, r, s) * lo <=> Below(hi, lo, r, s)
           /\ Miss(hi, r, s) * lo <= Miss(lo, r, s) * hi <=> ~Below(hi, lo, r, s)
<1> DEFINE A == 10 * r
           H == hi * s
           L == lo * s
           M == hi * lo * s
<1>1. A \in Nat /\ A > 0 /\ H \in Nat /\ L \in Nat /\ M \in Nat
  OBVIOUS
<1>2. L < H /\ H * lo = M /\ L * hi = M /\ L * lo < M /\ M < H * hi
  OBVIOUS
<1>3. Below(hi, lo, r, s) <=> A * hi + A * lo < 2 * M
  BY DEF Below
<1>4. /\ Miss(hi, r, s) = IF A < H THEN H - A ELSE A - H
      /\ Miss(lo, r, s) = IF A < L THEN L - A ELSE A - L
  BY DEF Miss
<1>5. A * lo < A * hi /\ A * lo \in Nat /\ A * hi \in Nat
  OBVIOUS
<1>6. (H - A) * lo = M - A * lo /\ (A - H) * lo = A * lo - M
  OBVIOUS
<1>7. (L - A) * hi = M - A * hi /\ (A - L) * hi = A * hi - M
  OBVIOUS
<1>8. CASE ~(A < H)
  <2>1. A * lo >= M /\ A * hi > M
    BY <1>8
  <2>2. ~(A < L)
    BY <1>8, <1>1, <1>2
  <2> HIDE DEF A, H, L, M
  <2> QED BY <1>1, <1>3, <1>4, <1>5, <1>6, <1>7, <1>8, <2>1, <2>2
<1>9. CASE A < H /\ ~(A < L)
  <2> HIDE DEF A, H, L, M
  <2> QED BY <1>1, <1>3, <1>4, <1>5, <1>6, <1>7, <1>9
<1>10. CASE A < L
  <2>1. A * hi < M /\ A * lo < M
    BY <1>10
  <2>2. A < H
    BY <1>10, <1>1, <1>2
  <2> HIDE DEF A, H, L, M
  <2> QED BY <1>1, <1>3, <1>4, <1>5, <1>6, <1>7, <1>10, <2>1, <2>2
<1> QED BY <1>8, <1>9, <1>10

\* Raising either band raises the harmonic mean.
LEMMA BelowRises ==
    ASSUME NEW p \in Nat \ {0}, NEW q \in Nat \ {0}, NEW p2 \in Nat \ {0}, NEW q2 \in Nat \ {0},
           p2 >= p, q2 >= q, NEW r \in Nat, NEW s \in Nat, Below(p, q, r, s)
    PROVE  Below(p2, q2, r, s)
<1>1. ASSUME NEW x \in Nat, NEW y \in Nat, NEW x2 \in Nat, x2 >= x, Below(x, y, r, s)
      PROVE  Below(x2, y, r, s)
  <2> DEFINE D == 2 * y * s - 10 * r
             E == 10 * r * y
  <2>1. D \in Int /\ E \in Nat
    OBVIOUS
  <2>2. E < x * D
    BY <1>1 DEF Below
  <2>3. D > 0
    <3> HIDE DEF D, E
    <3> QED BY <2>1, <2>2
  <2>4. x * D <= x2 * D
    <3> HIDE DEF D, E
    <3> QED BY <2>1, <2>3, <1>1
  <2>5. E < x2 * D
    <3>1. x * D \in Int /\ x2 * D \in Int
      BY <2>1
    <3> HIDE DEF D, E
    <3> QED BY <3>1, <2>1, <2>2, <2>4
  <2> QED BY <2>5 DEF Below
<1>2. Below(p2, q, r, s)
  BY <1>1
<1>3. Below(q, p2, r, s)
  BY <1>2 DEF Below
<1>4. Below(q2, p2, r, s)
  BY <1>1, <1>3
<1> QED BY <1>4 DEF Below

\* Within a tolerance, as the two ends of the window.
LEMMA WithinWindow ==
    ASSUME NEW c \in Nat, NEW r \in Nat, NEW s \in Nat, NEW tol \in Nat
    PROVE  Within(c, r, s, tol) <=> /\ (100 - tol) * c * s <= 1000 * r
                                    /\ 1000 * r <= (100 + tol) * c * s
<1> DEFINE X == c * s
<1>1. X \in Nat /\ tol * c * s = tol * X /\ tol * X \in Nat
  OBVIOUS
<1>2. (100 - tol) * c * s = 100 * X - tol * X /\ (100 + tol) * c * s = 100 * X + tol * X
  OBVIOUS
<1> HIDE DEF X
<1> QED BY <1>1, <1>2 DEF Within, Miss, X

-----------------------------------------------------------------------------
(* The whole table.                                                         *)

\* The elements of a table, and that its neighbours descend.
LEMMA TableFacts ==
    ASSUME NEW b, Descending(b)
    PROVE  /\ Len(b) \in 1..6 /\ DOMAIN b = 1..Len(b)
           /\ \A i \in DOMAIN b : b[i] \in Nat \ {0}
           /\ \A i, j \in DOMAIN b : i < j => b[i] > b[j]
           /\ \A i, j \in DOMAIN b : i <= j => b[i] >= b[j]
<1>1. b \in Seq(Nat \ {0}) /\ Len(b) \in 1..6
  BY DEF Descending, IsBandTable, NUM_GEARS
<1>2. DOMAIN b = 1..Len(b) /\ \A i \in DOMAIN b : b[i] \in Nat \ {0}
  BY <1>1
<1>3. \A i, j \in DOMAIN b : i < j => b[i] > b[j]
  BY DEF Descending
<1>4. ASSUME NEW i \in DOMAIN b, NEW j \in DOMAIN b, i <= j
      PROVE  b[i] >= b[j]
  <2>1. CASE i = j
    BY <1>2, <2>1
  <2>2. CASE i < j
    BY <1>2, <1>3, <2>2
  <2> QED BY <1>1, <1>2, <1>4, <2>1, <2>2
<1> QED BY <1>1, <1>2, <1>3, <1>4

\* The fold that keeps the first band of the smallest error stops at i exactly
\* when the ratio lies below every mean with a band before i and below no mean
\* with one after it.
LEMMA NearestMeans ==
    ASSUME NEW b, Descending(b), NEW i \in DOMAIN b,
           NEW r \in Nat \ {0}, NEW s \in Nat \ {0}
    PROVE  IsNearest(b, i, r, s) <=>
             /\ \A j \in DOMAIN b : j < i => Below(b[j], b[i], r, s)
             /\ \A j \in DOMAIN b : i < j => ~Below(b[i], b[j], r, s)
<1> DEFINE Beats(j) == LET ei == Miss(b[i], r, s) * b[j]
                           ej == Miss(b[j], r, s) * b[i]
                       IN  IF j < i THEN ei < ej ELSE ei <= ej
<1>1. ASSUME NEW j \in DOMAIN b, j < i
      PROVE  Beats(j) <=> Below(b[j], b[i], r, s)
  <2>1. b[j] \in Nat \ {0} /\ b[i] \in Nat \ {0} /\ b[j] > b[i]
    BY <1>1, TableFacts
  <2> QED BY <1>1, <2>1, CloserBand
<1>2. ASSUME NEW j \in DOMAIN b, i < j
      PROVE  Beats(j) <=> ~Below(b[i], b[j], r, s)
  <2>1. b[j] \in Nat \ {0} /\ b[i] \in Nat \ {0} /\ b[i] > b[j] /\ ~(j < i)
    BY <1>2, TableFacts
  <2> QED BY <2>1, CloserBand
<1>3. Beats(i)
  <2>1. Miss(b[i], r, s) * b[i] \in Int /\ ~(i < i)
    BY TableFacts DEF Miss
  <2> QED BY <2>1
<1>4. IsNearest(b, i, r, s) <=> \A j \in DOMAIN b : Beats(j)
  BY DEF IsNearest
<1>5. \A j \in DOMAIN b : j < i \/ j = i \/ i < j
  BY TableFacts
<1> HIDE DEF Beats
<1> QED BY <1>1, <1>2, <1>3, <1>4, <1>5

\* Of at most six neighbours in a row, the first that is not in S.
LEMMA FirstNotIn ==
    ASSUME NEW n \in 1..6, NEW S
    PROVE  \E g \in 1..n : (\A i \in 1..(g - 1) : i \in S) /\ (g < n => g \notin S)
<1> DEFINE P(g) == (\A i \in 1..(g - 1) : i \in S) /\ (g < n => g \notin S)
<1>1. CASE n = 1 \/ 1 \notin S
  BY <1>1, 1 \in 1..n
<1>2. CASE n > 1 /\ 1 \in S /\ (n = 2 \/ 2 \notin S)
  BY <1>2, 2 \in 1..n
<1>3. CASE n > 2 /\ 1 \in S /\ 2 \in S /\ (n = 3 \/ 3 \notin S)
  BY <1>3, 3 \in 1..n
<1>4. CASE n > 3 /\ 1 \in S /\ 2 \in S /\ 3 \in S /\ (n = 4 \/ 4 \notin S)
  BY <1>4, 4 \in 1..n
<1>5. CASE n > 4 /\ 1 \in S /\ 2 \in S /\ 3 \in S /\ 4 \in S /\ (n = 5 \/ 5 \notin S)
  BY <1>5, 5 \in 1..n
<1>6. CASE n > 5 /\ 1 \in S /\ 2 \in S /\ 3 \in S /\ 4 \in S /\ 5 \in S
  BY <1>6, 6 \in 1..n
<1> QED BY <1>1, <1>2, <1>3, <1>4, <1>5, <1>6

\* The interval the ratio lies in, counted as IntervalGear counts it.
Interval(b, r, s) == 1 + Cardinality({ i \in 1..(Len(b) - 1) : Below(b[i], b[i + 1], r, s) })

\* The neighbours whose mean is above the ratio are the first ones, so the count
\* is an index, and the band it names is the nearest, and the only nearest.
LEMMA NearestIsInterval ==
    ASSUME NEW b, Descending(b), NEW r \in Nat \ {0}, NEW s \in Nat \ {0}
    PROVE  /\ Interval(b, r, s) \in DOMAIN b
           /\ \A i \in DOMAIN b : IsNearest(b, i, r, s) <=> i = Interval(b, r, s)
<1> DEFINE n == Len(b)
           S == { i \in 1..(n - 1) : Below(b[i], b[i + 1], r, s) }
<1>1. n \in 1..6 /\ DOMAIN b = 1..n
  BY TableFacts
<1>2. PICK g \in 1..n : (\A i \in 1..(g - 1) : i \in S) /\ (g < n => g \notin S)
  <2> HIDE DEF S, n
  <2> QED BY <1>1, FirstNotIn
<1>3. ASSUME NEW i \in 1..n, NEW j \in 1..n, i < j
      PROVE  /\ i + 1 \in 1..n /\ i \in 1..(n - 1)
             /\ i \notin S => ~Below(b[i], b[j], r, s)
  <2>1. i + 1 \in 1..n /\ i \in 1..(n - 1) /\ i + 1 <= j
    BY <1>1, <1>3
  <2>2. /\ b[i] \in Nat \ {0} /\ b[j] \in Nat \ {0} /\ b[i + 1] \in Nat \ {0} /\ b[i + 1] >= b[j]
        /\ b[i] >= b[i]
    BY <2>1, <1>1, TableFacts
  <2>3. Below(b[i], b[j], r, s) => Below(b[i], b[i + 1], r, s)
    BY <2>2, BelowRises
  <2> QED BY <2>1, <2>3
<1>4. ASSUME NEW i \in 1..n, i < g
      PROVE  Below(b[i], b[g], r, s)
  <2>1. g - 1 \in 1..(g - 1) /\ g - 1 \in 1..n /\ i <= g - 1 /\ (g - 1) + 1 = g
    BY <1>1, <1>4
  <2>2. Below(b[g - 1], b[g], r, s)
    BY <1>2, <2>1
  <2>3. /\ b[i] \in Nat \ {0} /\ b[g] \in Nat \ {0} /\ b[g - 1] \in Nat \ {0} /\ b[i] >= b[g - 1]
        /\ b[g] >= b[g]
    BY <2>1, <1>1, TableFacts
  <2> QED BY <2>2, <2>3, BelowRises
<1>5. S = 1..(g - 1)
  <2>1. ASSUME NEW i \in S, ~(i < g)
        PROVE  FALSE
    <3>1. i \in 1..n /\ g < n /\ i + 1 \in 1..n
      BY <1>1, <2>1
    <3>2. ~Below(b[g], b[i + 1], r, s)
      BY <1>1, <1>2, <1>3, <2>1, <3>1
    <3>3. /\ b[g] \in Nat \ {0} /\ b[i] \in Nat \ {0} /\ b[i + 1] \in Nat \ {0} /\ b[g] >= b[i]
          /\ b[i + 1] >= b[i + 1]
      BY <2>1, <3>1, <1>1, TableFacts
    <3>4. Below(b[i], b[i + 1], r, s)
      BY <2>1
    <3> HIDE DEF S, n
    <3>5. Below(b[g], b[i + 1], r, s)
      BY <3>3, <3>4, BelowRises
    <3> QED BY <3>2, <3>5
  <2>2. \A i \in S : i \in 1..(g - 1)
    BY <1>1, <2>1
  <2> HIDE DEF S
  <2> QED BY <1>2, <2>2
<1>6. Interval(b, r, s) = g
  <2>1. Cardinality(1..(g - 1)) = g - 1
    BY <1>1, FS_Interval
  <2>2. Interval(b, r, s) = 1 + Cardinality(S)
    BY DEF Interval
  <2> HIDE DEF S
  <2> QED BY <1>5, <2>1, <2>2, <1>1
<1>7. IsNearest(b, g, r, s)
  <2>1. \A j \in DOMAIN b : g < j => ~Below(b[g], b[j], r, s)
    BY <1>1, <1>2, <1>3
  <2> HIDE DEF S
  <2> QED BY <1>1, <1>4, <2>1, NearestMeans
<1>8. ASSUME NEW i \in DOMAIN b, IsNearest(b, i, r, s)
      PROVE  i = g
  <2>1. CASE i < g
    BY <1>1, <1>4, <1>8, <2>1, NearestMeans
  <2>2. CASE g < i
    BY <1>1, <1>7, <1>8, <2>2, NearestMeans
  <2> QED BY <1>1, <2>1, <2>2
<1> QED BY <1>1, <1>6, <1>7, <1>8

-----------------------------------------------------------------------------
(* classify.                                                                *)

\* What classify answers, in terms of the interval.
LEMMA ClassifyByInterval ==
    ASSUME NEW b, Descending(b), NEW r \in Nat, NEW s \in Nat
    PROVE  LET g == Interval(b, r, s) IN
           classify(b, r, s) =
             IF r < MIN_RPM \/ s < MIN_SPEED THEN NoClass
             ELSE IF Within(b[g], r, s, BAND_TOL)
             THEN [gear |-> g, confident |-> Within(b[g], r, s, CONFIDENT_TOL)]
             ELSE IF IsLaunch(b, r, s) THEN [gear |-> 1, confident |-> FALSE]
             ELSE NoClass
<1> DEFINE g == Interval(b, r, s)
           hits == { i \in DOMAIN b : /\ IsNearest(b, i, r, s)
                                      /\ Within(b[i], r, s, BAND_TOL) }
           best == CHOOSE i \in hits : TRUE
<1>1. b # NoBands
  BY TableFacts DEF NoBands
<1>2. CASE r < MIN_RPM \/ s < MIN_SPEED
  BY <1>2 DEF classify
<1>3. CASE ~(r < MIN_RPM \/ s < MIN_SPEED)
  <2>1. r \in Nat \ {0} /\ s \in Nat \ {0}
    BY <1>3 DEF MIN_RPM, MIN_SPEED
  <2>2. g \in DOMAIN b /\ \A i \in DOMAIN b : IsNearest(b, i, r, s) <=> i = g
    BY <2>1, NearestIsInterval
  <2>3. hits = IF Within(b[g], r, s, BAND_TOL) THEN {g} ELSE {}
    <3> HIDE DEF g
    <3> QED BY <2>2
  <2>4. classify(b, r, s) =
          IF hits # {} THEN [gear |-> best, confident |-> Within(b[best], r, s, CONFIDENT_TOL)]
          ELSE IF IsLaunch(b, r, s) THEN [gear |-> 1, confident |-> FALSE] ELSE NoClass
    BY <1>1, <1>3 DEF classify
  <2>5. CASE Within(b[g], r, s, BAND_TOL)
    <3>1. hits # {} /\ best = g
      <4>1. hits = {g}
        BY <2>3, <2>5
      <4> HIDE DEF g, hits
      <4> QED BY <4>1
    <3> HIDE DEF g, hits, best
    <3> QED BY <1>3, <2>4, <2>5, <3>1 DEF g
  <2>6. CASE ~Within(b[g], r, s, BAND_TOL)
    <3>1. hits = {}
      BY <2>3, <2>6
    <3> HIDE DEF hits, best
    <3> QED BY <1>3, <2>4, <2>6, <3>1
  <2> QED BY <2>5, <2>6
<1> QED BY <1>2, <1>3

\* The launch rule only speaks above the window of 1st: below that, 1st or a
\* nearer band would have been within its window.
LEMMA LaunchIsAboveFirst ==
    ASSUME NEW b, Descending(b), NEW r \in Nat \ {0}, NEW s \in Nat \ {0},
           ~Within(b[Interval(b, r, s)], r, s, BAND_TOL), IsLaunch(b, r, s)
    PROVE  1000 * r > 114 * b[1] * s
<1> DEFINE g == Interval(b, r, s)
<1>1. g \in DOMAIN b /\ IsNearest(b, g, r, s) /\ 1 \in DOMAIN b
  <2>1. g \in DOMAIN b /\ IsNearest(b, g, r, s)
    BY NearestIsInterval
  <2>2. 1 \in DOMAIN b
    BY TableFacts
  <2> QED BY <2>1, <2>2
<1>2. b[1] \in Nat \ {0} /\ b[g] \in Nat \ {0}
  BY <1>1, TableFacts
<1> SUFFICES ASSUME ~(1000 * r > 114 * b[1] * s) PROVE FALSE
  OBVIOUS
<1>3. 100 * Miss(b[1], r, s) <= 14 * b[1] * s
  <2>1. 86 * b[1] * s <= 1000 * r /\ 1000 * r <= 114 * b[1] * s
    <3>1. 1000 * r >= b[1] * 86 * s
      BY DEF IsLaunch, BAND_TOL
    <3> QED BY <3>1, <1>2
  <2> QED BY <2>1, <1>2 DEF Miss
<1>4. Miss(b[g], r, s) * b[1] <= Miss(b[1], r, s) * b[g]
  <2>1. Miss(b[g], r, s) * b[1] \in Int /\ Miss(b[1], r, s) * b[g] \in Int
    BY <1>2 DEF Miss
  <2> HIDE DEF g
  <2> QED BY <1>1, <2>1 DEF IsNearest
<1>5. 100 * Miss(b[g], r, s) <= 14 * b[g] * s
  <2> DEFINE m == Miss(b[g], r, s)
             m1 == Miss(b[1], r, s)
             c == b[g]
             c1 == b[1]
  <2>1. m \in Nat /\ m1 \in Nat /\ c \in Nat \ {0} /\ c1 \in Nat \ {0}
    BY <1>2 DEF Miss
  <2>2. 100 * m1 <= 14 * c1 * s /\ m * c1 <= m1 * c
    BY <1>3, <1>4
  <2> HIDE DEF m, m1, c, c1
  <2>3. (100 * m) * c1 <= (100 * m1) * c
    BY <2>1, <2>2
  <2>4. (100 * m1) * c <= (14 * c1 * s) * c
    BY <2>1, <2>2
  <2>5. (100 * m) * c1 <= (14 * c * s) * c1
    BY <2>1, <2>3, <2>4
  <2>6. 100 * m <= 14 * c * s
    <3> SUFFICES ASSUME 100 * m > 14 * c * s PROVE FALSE
      BY <2>1
    <3> QED BY <2>1, <2>5
  <2> QED BY <2>6 DEF m, c
<1> QED BY <1>5 DEF Within, BAND_TOL

\* A higher ratio is never answered with a higher gear, whichever of the rules
\* answers.
LEMMA HigherRatioLowerGear ==
    ASSUME NEW b, Descending(b),
           NEW r1 \in Nat, NEW s1 \in Nat, NEW r2 \in Nat, NEW s2 \in Nat,
           r1 * s2 <= r2 * s1,
           classify(b, r1, s1).gear \in Digits, classify(b, r2, s2).gear \in Digits
    PROVE  classify(b, r2, s2).gear <= classify(b, r1, s1).gear
<1> DEFINE g1 == Interval(b, r1, s1)
           g2 == Interval(b, r2, s2)
           Window(g, r, s) == Within(b[g], r, s, BAND_TOL)
<1>1. ASSUME NEW r \in Nat, NEW s \in Nat, classify(b, r, s).gear \in Digits
      PROVE  /\ r \in Nat \ {0} /\ s \in Nat \ {0}
             /\ \/ /\ Window(Interval(b, r, s), r, s)
                   /\ classify(b, r, s).gear = Interval(b, r, s)
                \/ /\ ~Window(Interval(b, r, s), r, s) /\ IsLaunch(b, r, s)
                   /\ classify(b, r, s).gear = 1
  <2>1. NoClass.gear \notin Digits
    BY DEF NoClass, Digits, Unknown, NUM_GEARS
  <2>2. ~(r < MIN_RPM \/ s < MIN_SPEED)
    BY <1>1, <2>1, ClassifyByInterval
  <2>3. r \in Nat \ {0} /\ s \in Nat \ {0}
    BY <2>2 DEF MIN_RPM, MIN_SPEED
  <2> QED BY <1>1, <2>1, <2>2, <2>3, ClassifyByInterval
<1>2. /\ r1 \in Nat \ {0} /\ s1 \in Nat \ {0}
      /\ r2 \in Nat \ {0} /\ s2 \in Nat \ {0}
  BY <1>1
<1>3. /\ g1 \in DOMAIN b /\ IsNearest(b, g1, r1, s1)
      /\ g2 \in DOMAIN b /\ IsNearest(b, g2, r2, s2)
      /\ 1 \in DOMAIN b /\ g1 \in Nat /\ g2 \in Nat /\ 1 <= g1 /\ 1 <= g2
  <2>1. g1 \in DOMAIN b /\ IsNearest(b, g1, r1, s1)
    BY <1>2, NearestIsInterval
  <2>2. g2 \in DOMAIN b /\ IsNearest(b, g2, r2, s2)
    BY <1>2, NearestIsInterval
  <2>3. Len(b) \in 1..6 /\ DOMAIN b = 1..Len(b)
    BY TableFacts
  <2> HIDE DEF g1, g2
  <2> QED BY <2>1, <2>2, <2>3
<1>4. b[1] \in Nat \ {0} /\ b[g1] \in Nat \ {0} /\ b[g2] \in Nat \ {0} /\ b[1] >= b[g2]
  BY <1>3, TableFacts
<1>5. ASSUME g1 < g2 PROVE FALSE
  <2> DEFINE p == b[g1]
             q == b[g2]
             u == p + q
             v == 2 * p * q
  <2>1. 10 * r2 * u < v * s2
    BY <1>2, <1>3, <1>5, NearestMeans DEF Below
  <2>2. 10 * r1 * u >= v * s1
    <3>1. ~(10 * r1 * u < v * s1)
      BY <1>2, <1>3, <1>5, NearestMeans DEF Below
    <3> QED BY <3>1, <1>2, <1>4
  <2>3. u \in Nat \ {0} /\ v \in Nat \ {0}
    BY <1>4
  <2> HIDE DEF u, v
  <2>4. (10 * r2 * u) * s1 < (v * s2) * s1
    BY <1>2, <2>1, <2>3
  <2>5. (v * s1) * s2 <= (10 * r1 * u) * s2
    BY <1>2, <2>2, <2>3
  <2>6. (r1 * s2) * (10 * u) <= (r2 * s1) * (10 * u)
    BY <1>2, <2>3
  <2> QED BY <1>2, <2>3, <2>4, <2>5, <2>6
<1>6. CASE Window(g1, r1, s1) /\ Window(g2, r2, s2)
  <2>1. classify(b, r1, s1).gear = g1 /\ classify(b, r2, s2).gear = g2
    BY <1>1, <1>6
  <2> HIDE DEF g1, g2
  <2> QED BY <1>3, <1>5, <2>1
<1>7. CASE ~Window(g1, r1, s1) /\ Window(g2, r2, s2)
  <2>1. 1000 * r1 > 114 * b[1] * s1
    BY <1>1, <1>2, <1>7, LaunchIsAboveFirst
  <2>2. 1000 * r2 <= 114 * b[g2] * s2
    BY <1>2, <1>4, <1>7, WithinWindow DEF BAND_TOL
  <2> DEFINE c == b[1]
             d == b[g2]
  <2>3. c \in Nat /\ d \in Nat /\ c >= d /\ 1000 * r1 > 114 * c * s1 /\ 1000 * r2 <= 114 * d * s2
    BY <1>4, <2>1, <2>2
  <2> HIDE DEF c, d
  <2>4. 1000 * r2 <= 114 * c * s2
    <3>1. d * s2 <= c * s2 /\ d * s2 \in Nat /\ c * s2 \in Nat
      BY <1>2, <2>3
    <3> QED BY <3>1, <2>3, <1>2
  <2>5. (1000 * r1) * s2 > (114 * c * s1) * s2
    BY <1>2, <2>3
  <2>6. (1000 * r2) * s1 <= (114 * c * s2) * s1
    BY <1>2, <2>3, <2>4
  <2>7. 1000 * (r1 * s2) <= 1000 * (r2 * s1)
    BY <1>2
  <2> QED BY <1>2, <2>3, <2>5, <2>6, <2>7
<1>8. CASE ~Window(g2, r2, s2)
  <2>1. classify(b, r2, s2).gear = 1
    BY <1>1, <1>8
  <2>2. classify(b, r1, s1).gear >= 1
    BY DEF Digits, NUM_GEARS
  <2> QED BY <2>1, <2>2
<1> QED BY <1>6, <1>7, <1>8

-----------------------------------------------------------------------------
(* The theorems.  A sweep goes over every reading and a set of calibrations. *)

SweepOK == /\ \A b \in Tables : Descending(b)
           /\ RpmStep \in Nat

InRange == bands \in Tables /\ rpm \in Nat /\ speed \in Nat

\* Readings are natural numbers, the calibration stays.
LEMMA SweepInRange ==
    ASSUME SweepOK
    PROVE  ClassifierSpec => []InRange
<1>1. ClassifierInit => InRange
  BY DEF ClassifierInit, InRange
<1>2. InRange /\ [ClassifierNext]_classifierVars => InRange'
  BY SweepOK DEF InRange, ClassifierNext, Rev, SpeedUp, classifierVars, SweepOK
<1> QED BY <1>1, <1>2, PTL DEF ClassifierSpec

\* classify finds the interval of the ratio axis that the reading lies in.
LEMMA NearestIsIntervalGear ==
    ASSUME SweepOK, InRange
    PROVE  NearestBandIsInterval
<1>1. Descending(bands) /\ rpm \in Nat /\ speed \in Nat
  BY DEF SweepOK, InRange
<1>2. IntervalGear = Interval(bands, rpm, speed)
  BY DEF IntervalGear, Interval, Below
<1>3. NoClass.gear = Unknown
  BY DEF NoClass
<1> QED BY <1>1, <1>2, <1>3, ClassifyByInterval DEF NearestBandIsInterval, Class

\* For every descending calibration and every reading, the search for the
\* smallest relative error answers the gear whose interval holds the ratio,
\* 1st on a launch, and nothing elsewhere.
THEOREM NearestBandIsTheInterval ==
    ASSUME SweepOK
    PROVE  ClassifierSpec => []NearestBandIsInterval
<1>1. InRange => NearestBandIsInterval
  BY SweepOK, NearestIsIntervalGear
<1> QED BY <1>1, SweepInRange, SweepOK, PTL

\* Revving never raises the answer and speeding up never lowers it, whatever
\* the calibration and however far apart the two readings: neither ties between
\* bands nor the hand-over from the window of 1st to the launch rule break it.
THEOREM RatioOrdersGears ==
    ASSUME SweepOK
    PROVE  ClassifierSpec => GearFollowsRatio
<1> DEFINE Follows ==
      Class.gear \in Digits /\ Class'.gear \in Digits =>
          /\ speed' = speed => Class'.gear <= Class.gear
          /\ rpm' = rpm => Class'.gear >= Class.gear
<1>1. InRange /\ InRange' /\ [ClassifierNext]_classifierVars => [Follows]_classifierVars
  <2> SUFFICES ASSUME InRange, InRange', ClassifierNext, Class.gear \in Digits, Class'.gear \in Digits
               PROVE  /\ speed' = speed => Class'.gear <= Class.gear
                      /\ rpm' = rpm => Class'.gear >= Class.gear
    OBVIOUS
  <2>1. /\ Descending(bands) /\ bands' = bands
        /\ rpm \in Nat /\ speed \in Nat /\ rpm' \in Nat /\ speed' \in Nat
        /\ rpm' >= rpm /\ speed' >= speed
    BY SweepOK DEF SweepOK, InRange, ClassifierNext, Rev, SpeedUp
  <2>2. /\ Class = classify(bands, rpm, speed)
        /\ Class' = classify(bands, rpm', speed')
    BY <2>1 DEF Class
  <2>3. Class.gear \in Int /\ Class'.gear \in Int
    BY DEF Digits, NUM_GEARS
  <2>4. ASSUME speed' = speed PROVE Class'.gear <= Class.gear
    <3>1. rpm * speed' <= rpm' * speed
      BY <2>1, <2>4
    <3> QED BY <2>1, <2>2, <3>1, HigherRatioLowerGear
  <2>5. ASSUME rpm' = rpm PROVE Class.gear <= Class'.gear
    <3>1. rpm' * speed <= rpm * speed'
      BY <2>1, <2>5
    <3> QED BY <2>1, <2>2, <3>1, HigherRatioLowerGear
  <2> QED BY <2>3, <2>4, <2>5
<1> QED BY <1>1, SweepInRange, SweepOK, PTL DEF ClassifierSpec, GearFollowsRatio

\* The confident windows of two gears do not meet.
ConfidentApart(b) ==
    \A i, j \in DOMAIN b : i < j => (100 - CONFIDENT_TOL) * b[i] > (100 + CONFIDENT_TOL) * b[j]

\* The calibration the firmware is built with has the shape the theorems ask for.
THEOREM FactoryBandsAreApart == Descending(FACTORY_BANDS) /\ ConfidentApart(FACTORY_BANDS)
<1>1. /\ FACTORY_BANDS \in Seq(Nat \ {0}) /\ Len(FACTORY_BANDS) = 6
      /\ DOMAIN FACTORY_BANDS = 1..6
  BY DEF FACTORY_BANDS
<1>2. /\ FACTORY_BANDS[1] = 1969 /\ FACTORY_BANDS[2] = 1357 /\ FACTORY_BANDS[3] = 1021
      /\ FACTORY_BANDS[4] = 828 /\ FACTORY_BANDS[5] = 683 /\ FACTORY_BANDS[6] = 559
  BY DEF FACTORY_BANDS
<1>3. \A i, j \in 1..6 : i < j => /\ FACTORY_BANDS[i] > FACTORY_BANDS[j]
                                  /\ 95 * FACTORY_BANDS[i] > 105 * FACTORY_BANDS[j]
  BY <1>2
<1>4. Descending(FACTORY_BANDS)
  BY <1>1, <1>3 DEF Descending, IsBandTable, NUM_GEARS
<1>5. ConfidentApart(FACTORY_BANDS)
  BY <1>1, <1>3 DEF ConfidentApart, CONFIDENT_TOL
<1> QED BY <1>4, <1>5

\* A confident answer names the only band within the confident tolerance.
LEMMA ConfidentIsAlone ==
    ASSUME NEW b, Descending(b), ConfidentApart(b), NEW r \in Nat, NEW s \in Nat,
           classify(b, r, s).confident
    PROVE  { i \in DOMAIN b : Within(b[i], r, s, CONFIDENT_TOL) } = {classify(b, r, s).gear}
<1> DEFINE g == Interval(b, r, s)
<1>1. /\ ~(r < MIN_RPM \/ s < MIN_SPEED)
      /\ Within(b[g], r, s, CONFIDENT_TOL) /\ classify(b, r, s).gear = g
  <2>1. NoClass.confident = FALSE
    BY DEF NoClass
  <2>2. ~(r < MIN_RPM \/ s < MIN_SPEED)
    BY <2>1, ClassifyByInterval
  <2>3. CASE Within(b[g], r, s, BAND_TOL)
    <3>1. classify(b, r, s) = [gear |-> g, confident |-> Within(b[g], r, s, CONFIDENT_TOL)]
      BY <2>2, <2>3, ClassifyByInterval
    <3> HIDE DEF g
    <3> QED BY <2>2, <3>1
  <2>4. CASE ~Within(b[g], r, s, BAND_TOL)
    <3>1. classify(b, r, s) \in {[gear |-> 1, confident |-> FALSE], NoClass}
      BY <2>2, <2>4, ClassifyByInterval
    <3> QED BY <2>1, <3>1
  <2> QED BY <2>3, <2>4
<1>2. r \in Nat \ {0} /\ s \in Nat \ {0}
  BY <1>1 DEF MIN_RPM, MIN_SPEED
<1>3. g \in DOMAIN b /\ DOMAIN b \subseteq Nat /\ \A i \in DOMAIN b : b[i] \in Nat \ {0}
  <2>1. g \in DOMAIN b
    BY <1>2, NearestIsInterval
  <2> HIDE DEF g
  <2> QED BY <2>1, TableFacts
<1>4. ASSUME NEW i \in DOMAIN b, NEW j \in DOMAIN b, i < j,
             Within(b[i], r, s, CONFIDENT_TOL), Within(b[j], r, s, CONFIDENT_TOL)
      PROVE  FALSE
  <2> DEFINE p == b[i]
             q == b[j]
  <2>1. p \in Nat /\ q \in Nat /\ 95 * p > 105 * q
    BY <1>3, <1>4 DEF ConfidentApart, CONFIDENT_TOL
  <2>2. 95 * p * s <= 1000 * r /\ 1000 * r <= 105 * q * s
    BY <1>3, <1>4, WithinWindow DEF CONFIDENT_TOL
  <2> HIDE DEF p, q
  <2>3. (95 * p) * s > (105 * q) * s
    BY <1>2, <2>1
  <2> QED BY <1>2, <2>1, <2>2, <2>3
<1> HIDE DEF g
<1>5. \A i \in DOMAIN b : Within(b[i], r, s, CONFIDENT_TOL) => i = g
  BY <1>1, <1>3, <1>4
<1> QED BY <1>1, <1>3, <1>5

\* For a calibration whose confident windows do not meet, as the firmware's own,
\* every reading is classified right: the interval's gear, and confident only
\* where no other band is.
THEOREM ReadingsClassifiedRight ==
    ASSUME SweepOK, \A b \in Tables : ConfidentApart(b)
    PROVE  ClassifierSpec => []ClassifiedRight
<1>1. InRange => ClassifiedRight
  <2> SUFFICES ASSUME InRange PROVE ClassifiedRight
    OBVIOUS
  <2>1. Descending(bands) /\ ConfidentApart(bands) /\ rpm \in Nat /\ speed \in Nat
    BY DEF SweepOK, InRange
  <2>2. ConfidentIsUnambiguous
    BY <2>1, ConfidentIsAlone DEF ConfidentIsUnambiguous, Class
  <2> QED BY <2>2, NearestIsIntervalGear DEF ClassifiedRight
<1> QED BY <1>1, SweepInRange, SweepOK, PTL

-----------------------------------------------------------------------------
(* The alignment of rpm to speed.                                         *)

\* time_align_rpm: the correction goes the way the engine speed is going, is
\* none when that is steady, and never exceeds a tenth of the reading, however
\* far apart the two readings, and however long after them the speed was read.
THEOREM AlignmentIsClamped ==
    ASSUME NEW now \in Nat, NEW prev \in Nat, NEW dt \in Nat, NEW lead \in Nat
    PROVE  LET r == time_align_rpm(now, prev, dt, lead)
           IN  /\ r \in now - now \div 10 .. now + now \div 10
               /\ prev <= now => r >= now
               /\ prev >= now => r <= now
<1> DEFINE r == time_align_rpm(now, prev, dt, lead)
           q == ((now - prev) * lead) \div dt
<1>1. now \div 10 \in Nat
  OBVIOUS
<1>2. CASE dt \notin 1..2000 \/ lead <= 0
  <2>1. r = now
    BY <1>2 DEF time_align_rpm
  <2> HIDE DEF r
  <2> QED BY <1>1, <2>1 DEF r
<1>3. CASE ~(dt \notin 1..2000 \/ lead <= 0)
  <2>1. dt > 0
    BY <1>3
  <2>2. q \in Int /\ (prev <= now => q >= 0) /\ (prev >= now => q <= 0)
    <3> DEFINE n == (now - prev) * lead
    <3>1. n \in Int /\ (prev <= now => n >= 0) /\ (prev >= now => n <= 0)
      OBVIOUS
    <3> HIDE DEF n
    <3>2. n \div dt \in Int /\ (n >= 0 => n \div dt >= 0) /\ (n <= 0 => n \div dt <= 0)
      BY <2>1, <3>1
    <3> QED BY <3>1, <3>2 DEF n
  <2>3. r = IF now + q < now - now \div 10 THEN now - now \div 10
            ELSE IF now + q > now + now \div 10 THEN now + now \div 10
            ELSE now + q
    BY <1>3 DEF time_align_rpm
  <2> HIDE DEF r, q
  <2> QED BY <1>1, <2>2, <2>3 DEF r
<1> QED BY <1>2, <1>3

-----------------------------------------------------------------------------
(* What one sample can say.                                                 *)

\* classify answers a digit or nothing, and a digit only at riding speed.
LEMMA ClassifyResult ==
    ASSUME NEW b, IsBandTable(b) \/ b = NoBands,
           NEW r \in Nat \cup {None}, NEW v \in Nat \cup {None}
    PROVE  /\ classify(b, r, v).gear \in Digits \cup {Unknown}
           /\ classify(b, r, v).confident \in BOOLEAN
           /\ classify(b, r, v).gear \in Digits => v >= MIN_SPEED
<1> DEFINE hits == { i \in DOMAIN b : /\ IsNearest(b, i, r, v)
                                      /\ Within(b[i], r, v, BAND_TOL) }
           best == CHOOSE i \in hits : TRUE
<1>1. CASE b = NoBands \/ r < MIN_RPM \/ v < MIN_SPEED
  <2>1. classify(b, r, v) = NoClass
    BY <1>1 DEF classify
  <2> QED BY <2>1 DEF NoClass, Digits, Unknown, NUM_GEARS
<1>2. CASE ~(b = NoBands \/ r < MIN_RPM \/ v < MIN_SPEED)
  <2>1. v >= MIN_SPEED
    BY <1>2 DEF MIN_SPEED, None
  <2>2. IsBandTable(b)
    BY <1>2
  <2>3. CASE hits # {}
    <3>1. best \in hits
      BY <2>3
    <3>2. best \in Digits
      <4>1. best \in DOMAIN b
        BY <3>1
      <4>2. Len(b) \in 1..NUM_GEARS /\ DOMAIN b = 1..Len(b)
        BY <2>2 DEF IsBandTable
      <4> HIDE DEF best
      <4> QED BY <4>1, <4>2 DEF Digits, NUM_GEARS
    <3>3. classify(b, r, v)
            = [gear |-> best, confident |-> Within(b[best], r, v, CONFIDENT_TOL)]
      BY <1>2, <2>3 DEF classify
    <3>4. Within(b[best], r, v, CONFIDENT_TOL) \in BOOLEAN
      BY DEF Within
    <3> HIDE DEF hits, best
    <3> QED BY <3>2, <3>3, <3>4, <2>1
  <2>4. CASE hits = {}
    <3>1. \/ classify(b, r, v) = [gear |-> 1, confident |-> FALSE]
          \/ classify(b, r, v) = NoClass
      BY <1>2, <2>4 DEF classify
    <3>2. CASE classify(b, r, v) = [gear |-> 1, confident |-> FALSE]
      BY <3>2, <2>1 DEF Digits, NUM_GEARS
    <3>3. CASE classify(b, r, v) = NoClass
      BY <3>3, <2>1 DEF NoClass
    <3> QED BY <3>1, <3>2, <3>3
  <2> QED BY <2>3, <2>4
<1> QED BY <1>1, <1>2

\* The same for the three sources together.
LEMMA RawGearResult ==
    ASSUME NEW b \in BandTables \cup {NoBands}, NEW in \in Inputs
    PROVE  /\ RawGear(b, in).gear \in Gears
           /\ RawGear(b, in).confident \in BOOLEAN
           /\ RawGear(b, in).gear = Neutral => in.gear_reg = 0
           /\ HasNoGearRegister /\ RawGear(b, in).gear \in Digits =>
                 in.speed # None /\ in.speed >= STANDSTILL_SPEED
<1> USE DEF Inputs
<1>1. IsBandTable(b) \/ b = NoBands
  BY InputAssumption
<1>2. in.rpm \in Nat \cup {None} /\ in.speed \in Nat \cup {None}
  BY InputAssumption
<1>3. CASE in.gear_reg \in 0..NUM_GEARS
  <2>1. RawGear(b, in) = [gear |-> in.gear_reg, confident |-> TRUE]
    BY <1>3 DEF RawGear
  <2>2. ~HasNoGearRegister
    BY <1>3 DEF HasNoGearRegister
  <2> QED BY <2>1, <2>2, <1>3 DEF Gears, Digits, Neutral, Unknown, NUM_GEARS
<1>4. CASE in.gear_reg \notin 0..NUM_GEARS /\ in.clutch_pulled
  <2>1. RawGear(b, in) = NoClass
    BY <1>4 DEF RawGear
  <2> QED BY <2>1 DEF NoClass, Gears, Digits, Neutral, Unknown, NUM_GEARS
<1>5. CASE in.gear_reg \notin 0..NUM_GEARS /\ ~in.clutch_pulled
  <2>1. RawGear(b, in) = classify(b, in.rpm, in.speed)
    BY <1>5 DEF RawGear
  <2> QED BY <2>1, <1>1, <1>2, ClassifyResult, SMTT(30)
          DEF Gears, Digits, Neutral, Unknown, NUM_GEARS, MIN_SPEED, STANDSTILL_SPEED, None
<1> QED BY <1>3, <1>4, <1>5

-----------------------------------------------------------------------------
(* The stages of update, field by field.                                    *)

\* The counters grow by one or stay at the top of u8.
LEMMA SaturatingIncResult ==
    ASSUME NEW n \in 0..U8_MAX
    PROVE  /\ SaturatingInc(n) \in 1..U8_MAX
           /\ SaturatingInc(n) = n + 1 \/ (SaturatingInc(n) = U8_MAX /\ n = U8_MAX)
BY DebounceAssumption DEF SaturatingInc

\* The switch path: N is committed and the counters are those of a fresh commit.
LEMMA CommitNeutralResult ==
    ASSUME NEW e \in Estimators
    PROVE  /\ CommitNeutral(e) \in Estimators
           /\ CommitNeutral(e).gear = Neutral
           /\ CommitNeutral(e).candidate = Neutral
           /\ CommitNeutral(e).standstill = 0
<1>1. DEBOUNCE_N \in 0..U8_MAX /\ 0 \in 0..U8_MAX /\ Neutral \in Gears
  BY DebounceAssumption DEF Gears
<1> QED BY <1>1 DEF CommitNeutral, Estimators

\* Either nothing to drop, or everything but the bands and the standstill
\* count is as if no gear were known.
LEMMA DropNeutralResult ==
    ASSUME NEW e \in Estimators
    PROVE  /\ DropNeutral(e) \in Estimators
           /\ DropNeutral(e).bands = e.bands
           /\ DropNeutral(e).standstill = e.standstill
           /\ DropNeutral(e).gear # Neutral
           /\ \/ DropNeutral(e) = e
              \/ /\ e.gear = Neutral
                 /\ DropNeutral(e).gear = Unknown
                 /\ DropNeutral(e).candidate = Unknown
<1>1. 1 \in 0..U8_MAX /\ Unknown \in Gears /\ Unknown # Neutral
  BY DebounceAssumption DEF Gears, Unknown, Neutral
<1>2. CASE e.gear = Neutral
  BY <1>1, <1>2 DEF DropNeutral, Estimators
<1>3. CASE e.gear # Neutral
  BY <1>3 DEF DropNeutral, Estimators
<1> QED BY <1>2, <1>3

\* The decay counts, resets or forgets; only forgetting touches the gear.
LEMMA DecayResult ==
    ASSUME NEW e \in Estimators, e.gear # Neutral,
           NEW v \in Speeds \cup {None}
    PROVE  LET d == DecayAtStandstill(e, v) IN
           /\ d \in Estimators
           /\ d.bands = e.bands
           /\ d.stable = e.stable
           /\ d.gear # Neutral
           /\ \/ d.gear = e.gear /\ d.candidate = e.candidate
              \/ d.gear = Unknown /\ d.candidate = Unknown
           /\ v = None => d = e
           /\ v # None /\ v >= STANDSTILL_SPEED =>
                 d.standstill = 0 /\ d.gear = e.gear /\ d.candidate = e.candidate
           /\ v # None /\ ~(v >= STANDSTILL_SPEED) =>
                 \/ e.gear = Unknown /\ d.gear = Unknown /\ d.standstill = 0
                    /\ d.candidate = e.candidate
                 \/ d.gear = Unknown /\ d.standstill = 0
                    /\ SaturatingInc(e.standstill) >= STANDSTILL_FORGET
                 \/ d.gear = e.gear /\ d.standstill = SaturatingInc(e.standstill)
                    /\ d.standstill < STANDSTILL_FORGET
<1>1. SaturatingInc(e.standstill) \in 0..U8_MAX
  BY SaturatingIncResult, DebounceAssumption DEF Estimators
<1>2. v = None \/ (v # None /\ v \in Nat)
  BY InputAssumption DEF None
<1>3. STANDSTILL_SPEED \in Nat /\ STANDSTILL_FORGET \in Nat
  BY DebounceAssumption DEF STANDSTILL_SPEED
<1>4. 0 \in 0..U8_MAX /\ Unknown \in Gears /\ Unknown # Neutral
  BY DebounceAssumption DEF Gears, Unknown, Neutral
<1> DEFINE d == DecayAtStandstill(e, v)
<1>5. CASE v = None
  BY <1>5 DEF DecayAtStandstill
<1>6. CASE v # None /\ (v >= STANDSTILL_SPEED \/ e.gear = Unknown)
  <2>1. d = [e EXCEPT !.standstill = 0]
    BY <1>6 DEF DecayAtStandstill
  <2> QED BY <2>1, <1>4, <1>6 DEF Estimators
<1>7. CASE /\ v # None
           /\ ~(v >= STANDSTILL_SPEED \/ e.gear = Unknown)
           /\ SaturatingInc(e.standstill) >= STANDSTILL_FORGET
  <2>1. d = [e EXCEPT !.gear = Unknown, !.candidate = Unknown, !.standstill = 0]
    BY <1>7 DEF DecayAtStandstill
  <2> QED BY <2>1, <1>4, <1>7 DEF Estimators
<1>8. CASE /\ v # None
           /\ ~(v >= STANDSTILL_SPEED \/ e.gear = Unknown)
           /\ ~(SaturatingInc(e.standstill) >= STANDSTILL_FORGET)
  <2>1. d = [e EXCEPT !.standstill = SaturatingInc(e.standstill)]
    BY <1>8 DEF DecayAtStandstill, Estimators
  <2>2. SaturatingInc(e.standstill) < STANDSTILL_FORGET
    BY <1>8, <1>1, <1>3
  <2> QED BY <2>1, <2>2, <1>1, <1>8 DEF Estimators
<1> QED BY <1>5, <1>6, <1>7, <1>8

\* The debounce: what becomes of the candidate, its run and the gear.
LEMMA DebounceResult ==
    ASSUME NEW e \in Estimators, NEW raw, raw.gear \in Gears, raw.confident \in BOOLEAN
    PROVE  LET d == Debounce(e, raw) IN
           /\ d \in Estimators
           /\ d.bands = e.bands
           /\ d.standstill = e.standstill
           /\ d.candidate = raw.gear
           /\ d.candidate_confident = raw.confident
           /\ d.stable = (IF raw.gear = e.candidate THEN SaturatingInc(e.stable) ELSE 1)
           /\ d.gear = (IF /\ raw.gear # Unknown
                           /\ d.stable >= (IF raw.confident THEN DEBOUNCE_CONFIDENT
                                                            ELSE DEBOUNCE_N)
                        THEN raw.gear ELSE e.gear)
<1>1. SaturatingInc(e.stable) \in 0..U8_MAX
  BY SaturatingIncResult, DebounceAssumption DEF Estimators
<1>2. 1 \in 0..U8_MAX
  BY DebounceAssumption
<1> QED
  BY <1>1, <1>2, DebounceAssumption DEF Debounce, Estimators

-----------------------------------------------------------------------------
(* The inductive invariant.                                                 *)

\* A new estimator satisfies the invariant.
LEMMA InitIInv == Init => IInv
<1> SUFFICES ASSUME Init PROVE IInv
  OBVIOUS
<1>1. TypeOK
  BY DebounceAssumption
     DEF Init, TypeOK, NewEstimator, Estimators, Gears
<1>2. /\ est.gear = Unknown /\ est.candidate = Unknown /\ est.standstill = 0
      /\ est.stable = 0 /\ still = 0 /\ last.neutral_switch = FALSE
      /\ seen = [k \in 1..DEBOUNCE_N |-> Unknown]
  BY DEF Init, NewEstimator, NoInput
<1>3. Unknown # Neutral /\ Unknown \notin Digits
  BY DEF Unknown, Neutral, Digits, NUM_GEARS
<1>4. StableCountsAll
  <2> SUFFICES ASSUME NEW g \in Digits, NEW m \in 1..DEBOUNCE_N,
                      \A k \in 1..m : seen[k] = g
               PROVE  FALSE
    BY DEF StableCountsAll
  <2>1. 1 \in 1..m /\ 1 \in 1..DEBOUNCE_N
    BY DebounceAssumption
  <2> QED BY <2>1, <1>2, <1>3
<1> QED
  BY <1>1, <1>2, <1>3, <1>4, DebounceAssumption
     DEF IInv, NoStaleNeutral, StableCounts, StableIsCommitted, NeutralIsCandidate,
         StandstillCounts

\* Replacing the bands touches none of what the invariant speaks of.
LEMMA BandsIInv ==
    ASSUME IInv, NEW b \in BandTables \cup {NoBands},
           est' = [est EXCEPT !.bands = b], UNCHANGED <<last, seen, still>>
    PROVE  IInv'
<1>1. /\ est' \in Estimators
      /\ est'.gear = est.gear /\ est'.candidate = est.candidate
      /\ est'.stable = est.stable /\ est'.standstill = est.standstill
  BY DEF IInv, TypeOK, Estimators
<1>2. TypeOK'
  BY <1>1 DEF IInv, TypeOK
<1> QED
  BY <1>1, <1>2 DEF IInv, NoStaleNeutral, StableCounts, StableCountsAll,
                    StableIsCommitted, NeutralIsCandidate, StandstillCounts

\* A sample keeps every field, and the observations, in their types.
LEMMA UpdateTypeOK ==
    ASSUME TypeOK, NEW in \in Inputs, Update(in)
    PROVE  TypeOK'
<1>1. RawGear(est.bands, in).gear \in Gears /\ RawGear(est.bands, in).confident \in BOOLEAN
  BY RawGearResult DEF TypeOK, Estimators
<1>2. est' \in Estimators
  <2>1. CASE in.neutral_switch
    BY <2>1, CommitNeutralResult DEF Update, update, TypeOK
  <2>2. CASE ~in.neutral_switch
    <3>1. DropNeutral(est) \in Estimators /\ DropNeutral(est).gear # Neutral
      BY DropNeutralResult DEF TypeOK
    <3>2. DecayAtStandstill(DropNeutral(est), in.speed) \in Estimators
      BY <3>1, DecayResult DEF Inputs
    <3> QED BY <2>2, <3>2, <1>1, DebounceResult DEF Update, update
  <2> QED BY <2>1, <2>2
<1>3. Reading(in) \in Gears
  BY <1>1 DEF Reading, Gears
<1>4. seen' \in [1..DEBOUNCE_N -> Gears]
  <2> SUFFICES ASSUME NEW k \in 1..DEBOUNCE_N
               PROVE  (IF k = 1 THEN Reading(in) ELSE seen[k - 1]) \in Gears
    BY DEF Update
  <2>1. k # 1 => k - 1 \in 1..DEBOUNCE_N
    BY DebounceAssumption
  <2> QED BY <2>1, <1>3 DEF TypeOK
<1>5. still' \in 0..STANDSTILL_FORGET
  BY DebounceAssumption DEF Update, TypeOK
<1>6. last' \in Inputs
  BY DEF Update
<1> QED BY <1>2, <1>4, <1>5, <1>6 DEF TypeOK

\* The sample with the switch closed: N, and no run of digits is left.
LEMMA NeutralUpdateIInv ==
    ASSUME IInv, NEW in \in Inputs, Update(in), in.neutral_switch
    PROVE  IInv'
<1>1. TypeOK'
  BY UpdateTypeOK DEF IInv
<1>2. /\ est'.gear = Neutral /\ est'.candidate = Neutral /\ est'.standstill = 0
      /\ last' = in
  BY CommitNeutralResult DEF Update, update, IInv, TypeOK
<1>3. 1 \in 1..DEBOUNCE_N /\ seen'[1] = Neutral
  <2>1. 1 \in 1..DEBOUNCE_N
    BY DebounceAssumption
  <2> QED BY <2>1 DEF Update, Reading
<1>4. Neutral \notin Digits
  BY DEF Neutral, Digits
<1>5. StableCountsAll'
  <2> SUFFICES ASSUME NEW g \in Digits, NEW m \in 1..DEBOUNCE_N,
                      \A k \in 1..m : seen'[k] = g
               PROVE  FALSE
    BY DEF StableCountsAll
  <2>1. 1 \in 1..m
    OBVIOUS
  <2> QED BY <2>1, <1>3, <1>4
<1>6. 0 <= still'
  BY <1>1 DEF TypeOK
<1> QED
  BY <1>1, <1>2, <1>4, <1>5, <1>6, DebounceAssumption
     DEF IInv, NoStaleNeutral, StableCounts, StableIsCommitted, NeutralIsCandidate,
         StandstillCounts

\* The sample with the switch open: the stages of update in order.
LEMMA RatioUpdateIInv ==
    ASSUME IInv, NEW in \in Inputs, Update(in), ~in.neutral_switch
    PROVE  /\ IInv'
           /\ \A g \in Digits : est'.gear = g /\ est.gear # g =>
                 \A k \in 1..(IF est'.candidate_confident
                                  THEN DEBOUNCE_CONFIDENT ELSE DEBOUNCE_N) : seen'[k] = g
           /\ est.gear \in Digits /\ est'.gear = Unknown => still' = STANDSTILL_FORGET
<1> DEFINE raw == RawGear(est.bands, in)
           e1 == DropNeutral(est)
           e2 == DecayAtStandstill(e1, in.speed)
<1>0. TypeOK /\ TypeOK'
  BY UpdateTypeOK DEF IInv
<1>1. /\ raw.gear \in Gears /\ raw.confident \in BOOLEAN
      /\ raw.gear = Neutral => in.gear_reg = 0
      /\ HasNoGearRegister /\ raw.gear \in Digits =>
            in.speed # None /\ in.speed >= STANDSTILL_SPEED
  BY <1>0, RawGearResult DEF TypeOK, Estimators
<1>2. /\ e1 \in Estimators
      /\ e1.standstill = est.standstill
      /\ e1.gear # Neutral
      /\ \/ e1 = est
         \/ est.gear = Neutral /\ e1.gear = Unknown /\ e1.candidate = Unknown
  BY <1>0, DropNeutralResult DEF TypeOK
<1>3. in.speed \in Speeds \cup {None} /\ (in.speed = None \/ (in.speed # None /\ in.speed \in Nat))
  BY InputAssumption DEF Inputs, None
<1>4. /\ e2 \in Estimators /\ e2.stable = e1.stable /\ e2.gear # Neutral
      /\ \/ e2.gear = e1.gear /\ e2.candidate = e1.candidate
         \/ e2.gear = Unknown /\ e2.candidate = Unknown
      /\ in.speed = None => e2 = e1
      /\ in.speed # None /\ in.speed >= STANDSTILL_SPEED =>
            e2.standstill = 0 /\ e2.gear = e1.gear /\ e2.candidate = e1.candidate
      /\ in.speed # None /\ ~(in.speed >= STANDSTILL_SPEED) =>
            \/ e1.gear = Unknown /\ e2.gear = Unknown /\ e2.standstill = 0
               /\ e2.candidate = e1.candidate
            \/ e2.gear = Unknown /\ e2.standstill = 0
               /\ SaturatingInc(e1.standstill) >= STANDSTILL_FORGET
            \/ e2.gear = e1.gear /\ e2.standstill = SaturatingInc(e1.standstill)
               /\ e2.standstill < STANDSTILL_FORGET
  BY <1>2, <1>3, DecayResult
<1>5. /\ est' = Debounce(e2, raw)
      /\ last' = in
      /\ seen' = [k \in 1..DEBOUNCE_N |-> IF k = 1 THEN raw.gear ELSE seen[k - 1]]
      /\ still' = IF in.speed = None THEN still
                  ELSE IF in.speed >= STANDSTILL_SPEED THEN 0
                  ELSE IF still < STANDSTILL_FORGET THEN still + 1 ELSE still
  BY DEF Update, update, Reading
<1> HIDE DEF raw, e1, e2
<1>6. /\ est' \in Estimators
      /\ est'.standstill = e2.standstill
      /\ est'.candidate = raw.gear
      /\ est'.candidate_confident = raw.confident
      /\ est'.stable = (IF raw.gear = e2.candidate THEN SaturatingInc(e2.stable) ELSE 1)
      /\ est'.gear = (IF /\ raw.gear # Unknown
                         /\ est'.stable >= (IF raw.confident THEN DEBOUNCE_CONFIDENT
                                                             ELSE DEBOUNCE_N)
                      THEN raw.gear ELSE e2.gear)
  BY <1>1, <1>4, <1>5, DebounceResult
<1>7. Unknown # Neutral /\ Unknown \notin Digits /\ Neutral \notin Digits
  BY DEF Unknown, Neutral, Digits, NUM_GEARS
<1>8. /\ e2.stable \in 0..U8_MAX /\ e1.stable \in 0..U8_MAX /\ e1.standstill \in 0..U8_MAX
      /\ est.stable \in 0..U8_MAX /\ est.standstill \in 0..U8_MAX
      /\ e1.gear \in Gears /\ e2.gear \in Gears /\ est.gear \in Gears
  BY <1>0, <1>2, <1>4 DEF TypeOK, Estimators
<1>9. /\ SaturatingInc(e2.stable) \in 1..U8_MAX
      /\ SaturatingInc(e2.stable) = e2.stable + 1
           \/ (SaturatingInc(e2.stable) = U8_MAX /\ e2.stable = U8_MAX)
      /\ SaturatingInc(e1.standstill) \in 1..U8_MAX
      /\ SaturatingInc(e1.standstill) = e1.standstill + 1
           \/ (SaturatingInc(e1.standstill) = U8_MAX /\ e1.standstill = U8_MAX)
  BY <1>8, SaturatingIncResult
<1>10. still \in 0..STANDSTILL_FORGET
  BY <1>0 DEF TypeOK
\* A digit in e2's candidate was one in est, with the same count.
<1>11. e2.candidate \in Digits => e2.candidate = est.candidate /\ e2.stable = est.stable
  BY <1>2, <1>4, <1>7
<1>12. ASSUME NEW k \in 1..DEBOUNCE_N
       PROVE  /\ k = 1 => seen'[k] = raw.gear
              /\ k # 1 => k - 1 \in 1..DEBOUNCE_N /\ seen'[k] = seen[k - 1]
  BY <1>5, DebounceAssumption
<1>13. StableCounts'
  <2> SUFFICES ASSUME raw.gear \in Digits
               PROVE  /\ est'.stable >= 1
                      /\ \A k \in 1..DEBOUNCE_N : k <= est'.stable => seen'[k] = raw.gear
    BY <1>6 DEF StableCounts
  <2>1. est'.stable >= 1
    BY <1>6, <1>9
  <2>2. ASSUME NEW k \in 1..DEBOUNCE_N, k <= est'.stable
        PROVE  seen'[k] = raw.gear
    <3>1. CASE k = 1
      BY <3>1, <1>12
    <3>2. CASE k # 1
      <4>1. raw.gear = e2.candidate
        BY <2>2, <3>2, <1>6
      <4>2. k - 1 <= e2.stable
        BY <2>2, <4>1, <1>6, <1>8, <1>9
      <4>3. seen[k - 1] = est.candidate
        BY <4>1, <4>2, <3>2, <1>11, <1>12 DEF IInv, StableCounts
      <4> QED BY <4>1, <4>3, <3>2, <1>11, <1>12
    <3> QED BY <3>1, <3>2
  <2> QED BY <2>1, <2>2
<1>14. StableCountsAll'
  <2> SUFFICES ASSUME HasNoGearRegister, NEW g \in Digits, NEW m \in 1..DEBOUNCE_N,
                      \A k \in 1..m : seen'[k] = g
               PROVE  raw.gear = g /\ est'.stable >= m
    BY <1>6 DEF StableCountsAll
  <2>1. raw.gear = g
    BY <1>12, DebounceAssumption
  <2>2. CASE m = 1
    BY <2>1, <2>2, <1>6, <1>9
  <2>3. CASE m # 1
    <3>1. m - 1 \in 1..DEBOUNCE_N
      BY <2>3, DebounceAssumption
    <3>2. ASSUME NEW k \in 1..(m - 1)
          PROVE  seen[k] = g
      <4>1. k + 1 \in 1..m /\ k + 1 \in 1..DEBOUNCE_N /\ k + 1 # 1 /\ (k + 1) - 1 = k
        BY <2>3, DebounceAssumption
      <4>2. seen'[k + 1] = seen[k]
        BY <4>1, <1>12
      <4> QED BY <4>1, <4>2
    <3>3. est.candidate = g /\ est.stable >= m - 1
      BY <3>1, <3>2 DEF IInv, StableCountsAll
    <3>4. e1 = est
      BY <3>3, <1>2, <1>7 DEF IInv, NeutralIsCandidate
    <3>5. e2.candidate = g /\ e2.stable = est.stable
      BY <2>1, <3>3, <3>4, <1>1, <1>4
    <3>6. est'.stable = SaturatingInc(e2.stable)
      BY <2>1, <3>5, <1>6
    <3> QED BY <2>1, <3>3, <3>5, <3>6, <1>8, <1>9, DebounceAssumption
  <2> QED BY <2>2, <2>3
<1>15. StableIsCommitted'
  BY <1>6, <1>7, <1>9, DebounceAssumption DEF StableIsCommitted
<1>16. NeutralIsCandidate' /\ NoStaleNeutral'
  BY <1>1, <1>4, <1>5, <1>6 DEF NeutralIsCandidate, NoStaleNeutral
<1>17. StandstillCounts'
  <2>1. est.standstill <= still /\ est.standstill < STANDSTILL_FORGET
    BY DEF IInv, StandstillCounts
  <2>2. e2.standstill <= still' /\ e2.standstill < STANDSTILL_FORGET
    BY <2>1, <1>2, <1>3, <1>4, <1>5, <1>8, <1>9, <1>10, DebounceAssumption DEF STANDSTILL_SPEED
  <2>3. ASSUME HasNoGearRegister, est'.gear \in Digits
        PROVE  e2.standstill = still'
    <3>1. CASE raw.gear \in Digits
      BY <3>1, <2>3, <1>1, <1>4, <1>5
    <3>2. CASE raw.gear \notin Digits
      <4>1. est'.gear = e2.gear
        BY <3>2, <2>3, <1>6
      <4>2. e2.gear \in Digits /\ e1.gear = e2.gear /\ e1 = est
        BY <4>1, <2>3, <1>2, <1>4, <1>7
      <4>3. est.standstill = still
        BY <4>2, <2>3 DEF IInv, StandstillCounts
      <4> QED
        BY <2>1, <4>2, <4>3, <1>3, <1>4, <1>5, <1>7, <1>8, <1>9, <1>10, DebounceAssumption
           DEF STANDSTILL_SPEED
    <3> QED BY <3>1, <3>2
  <2> QED BY <2>2, <2>3, <1>6 DEF StandstillCounts
<1>18. ASSUME NEW g \in Digits, est'.gear = g, est.gear # g,
              NEW k \in 1..(IF est'.candidate_confident THEN DEBOUNCE_CONFIDENT ELSE DEBOUNCE_N)
       PROVE  seen'[k] = g
  <2>1. e2.gear # g
    BY <1>18, <1>2, <1>4, <1>7
  <2>2. /\ raw.gear = g
        /\ est'.stable >= (IF raw.confident THEN DEBOUNCE_CONFIDENT ELSE DEBOUNCE_N)
    BY <1>18, <2>1, <1>6
  <2>3. est'.stable \in Nat
    BY <1>6, <1>9
  <2>4. k \in 1..DEBOUNCE_N /\ k <= est'.stable
    BY <1>18, <2>2, <2>3, <1>6, DebounceAssumption
  <2> QED BY <2>2, <2>4, <1>6, <1>13 DEF StableCounts
<1>19. ASSUME est.gear \in Digits, est'.gear = Unknown
       PROVE  still' = STANDSTILL_FORGET
  <2>1. e1 = est /\ e2.gear = Unknown /\ e1.gear # Unknown
    BY <1>19, <1>2, <1>6, <1>7
  <2>2. /\ in.speed # None /\ ~(in.speed >= STANDSTILL_SPEED)
        /\ SaturatingInc(est.standstill) >= STANDSTILL_FORGET
    BY <2>1, <1>3, <1>4 DEF STANDSTILL_SPEED
  <2>3. est.standstill <= still
    BY DEF IInv, StandstillCounts
  <2>4. still + 1 >= STANDSTILL_FORGET
    BY <2>1, <2>2, <2>3, <1>8, <1>9, <1>10, DebounceAssumption
  <2> QED BY <2>2, <2>4, <1>5, <1>10, DebounceAssumption
<1> QED
  BY <1>0, <1>13, <1>14, <1>15, <1>16, <1>17, <1>18, <1>19 DEF IInv

-----------------------------------------------------------------------------
(* The theorems.                                                            *)

\* Every step preserves the invariant: a sample of either kind, new bands, none.
LEMMA NextIInv == IInv /\ [Next]_vars => IInv'
<1> SUFFICES ASSUME IInv, [Next]_vars PROVE IInv'
  OBVIOUS
<1>1. ASSUME NEW in \in Inputs, Update(in) PROVE IInv'
  BY <1>1, NeutralUpdateIInv, RatioUpdateIInv
<1>2. ASSUME NEW b \in BandTables, SetBands(b) PROVE IInv'
  BY <1>2, BandsIInv DEF SetBands, set_bands
<1>3. CASE ClearBands
  BY <1>3, BandsIInv DEF ClearBands, clear_bands
<1>4. CASE UNCHANGED vars
  BY <1>4 DEF vars, IInv, TypeOK, NoStaleNeutral, StableCounts, StableCountsAll,
              StableIsCommitted, NeutralIsCandidate, StandstillCounts
<1> QED BY <1>1, <1>2, <1>3, <1>4 DEF Next

\* The inductive invariant holds of every reachable state of the estimator.
THEOREM EstimatorInvariant == Spec => []IInv
BY InitIInv, NextIInv, PTL DEF Spec

\* Every field of the estimator keeps its type; the u8 counters never leave
\* their range.
THEOREM EstimatorTypeOK == Spec => []TypeOK
<1>1. IInv => TypeOK
  BY DEF IInv
<1> QED BY <1>1, EstimatorInvariant, PTL

\* No stale N, for every input sequence: update drops N on the first sample
\* without the switch, and holds it on every sample with it.
THEOREM NeutralNeverStale == Spec => []NoStaleNeutral
<1>1. IInv => NoStaleNeutral
  BY DEF IInv
<1> QED BY <1>1, EstimatorInvariant, PTL

\* A gear that DEBOUNCE_N samples in a row agree on is shown.
THEOREM SteadyRatioIsShown == Spec => []SteadyRatioShown
<1>1. IInv => SteadyRatioShown
  <2> SUFFICES ASSUME IInv, HasNoGearRegister, NEW g \in Digits,
                      \A k \in 1..DEBOUNCE_N : seen[k] = g
               PROVE  est.gear = g
    BY DEF SteadyRatioShown
  <2>1. DEBOUNCE_N \in 1..DEBOUNCE_N
    BY DebounceAssumption
  <2>2. est.candidate = g /\ est.stable >= DEBOUNCE_N
    BY <2>1 DEF IInv, StableCountsAll
  <2> QED BY <2>2 DEF IInv, StableIsCommitted
<1> QED BY <1>1, EstimatorInvariant, PTL

\* A digit never survives STANDSTILL_FORGET standstill samples.
THEOREM StandstillIsForgotten == Spec => []StandstillForgets
<1>1. IInv => StandstillForgets
  BY DEF IInv, StandstillForgets, StandstillCounts
<1> QED BY <1>1, EstimatorInvariant, PTL

\* A digit is only committed by an unbroken run of samples that all say it.
THEOREM CommitIsDebounced == Spec => DebouncedCommit
<1> DEFINE Debounced ==
      \A g \in Digits : est'.gear = g /\ est.gear # g =>
         \A k \in 1..(IF est'.candidate_confident THEN DEBOUNCE_CONFIDENT ELSE DEBOUNCE_N) :
             seen'[k] = g
<1>1. IInv /\ [Next]_vars => [Debounced]_vars
  <2> SUFFICES ASSUME IInv, Next PROVE Debounced
    OBVIOUS
  <2>1. ASSUME NEW in \in Inputs, Update(in), in.neutral_switch PROVE Debounced
    <3>1. est'.gear = Neutral
      BY <2>1, CommitNeutralResult DEF Update, update, IInv, TypeOK
    <3> QED BY <3>1 DEF Neutral, Digits
  <2>2. ASSUME NEW in \in Inputs, Update(in), ~in.neutral_switch PROVE Debounced
    BY <2>2, RatioUpdateIInv
  <2>3. ASSUME NEW b \in BandTables, SetBands(b) PROVE Debounced
    BY <2>3 DEF SetBands, set_bands, IInv, TypeOK, Estimators
  <2>4. CASE ClearBands
    BY <2>4 DEF ClearBands, clear_bands, IInv, TypeOK, Estimators
  <2> QED BY <2>1, <2>2, <2>3, <2>4 DEF Next
<1> QED BY <1>1, EstimatorInvariant, PTL DEF Spec, DebouncedCommit

\* A digit gives way to the dash only after STANDSTILL_FORGET standstill samples.
THEOREM ForgetsOnlyAtStandstill == Spec => ForgottenOnlyAtStandstill
<1> DEFINE Forgets ==
      est.gear \in Digits /\ est'.gear = Unknown => still' = STANDSTILL_FORGET
<1>1. IInv /\ [Next]_vars => [Forgets]_vars
  <2> SUFFICES ASSUME IInv, Next PROVE Forgets
    OBVIOUS
  <2>1. ASSUME NEW in \in Inputs, Update(in), in.neutral_switch PROVE Forgets
    <3>1. est'.gear = Neutral
      BY <2>1, CommitNeutralResult DEF Update, update, IInv, TypeOK
    <3> QED BY <3>1 DEF Neutral, Unknown
  <2>2. ASSUME NEW in \in Inputs, Update(in), ~in.neutral_switch PROVE Forgets
    BY <2>2, RatioUpdateIInv
  <2>3. ASSUME NEW b \in BandTables, SetBands(b) PROVE Forgets
    BY <2>3 DEF SetBands, set_bands, IInv, TypeOK, Estimators, Digits, Unknown, NUM_GEARS
  <2>4. CASE ClearBands
    BY <2>4 DEF ClearBands, clear_bands, IInv, TypeOK, Estimators, Digits, Unknown, NUM_GEARS
  <2> QED BY <2>1, <2>2, <2>3, <2>4 DEF Next
<1> QED BY <1>1, EstimatorInvariant, PTL DEF Spec, ForgottenOnlyAtStandstill
=============================================================================
