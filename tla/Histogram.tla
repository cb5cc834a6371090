----------------------------- MODULE Histogram -----------------------------
(***************************************************************************)
(* The gear-ratio histogram of firmware/core/src/learn.rs.  A histogram     *)
(* maps its non-empty bins to their counts; the total is kept beside it, as *)
(* in the code.  A ratio is a fraction n / d, and the comparisons of f32    *)
(* quotients are cross products.                                            *)
(***************************************************************************)
EXTENDS GearClassifier, SequencesExt, FiniteSetsExt

CONSTANTS
    BINS,           \* bins, one unit of ratio wide (300)
    COUNT_MAX,      \* largest count of a bin (u16::MAX)
    MIN_PEAK_MASS,  \* samples that make a peak (15)
    MARKER_MAX      \* cap of the boot marker (5)

ASSUME HistogramAssumption ==
    /\ BINS \in Nat \ {0} /\ COUNT_MAX \in Nat \ {0}
    /\ MIN_PEAK_MASS \in Nat \ {0} /\ MARKER_MAX \in Nat \ {0} /\ MARKER_MAX <= COUNT_MAX

RATIO_MIN == 20
LEARN_MIN_RPM == 1200    \* MIN_RPM and MIN_SPEED of learn.rs
LEARN_MIN_SPEED == 10
MIN_PEAKS == 2

Empty == [hist |-> <<>>, samples |-> 0]

\* The count of a bin; none outside 0..BINS-1.
count(hist, j) == IF j \in DOMAIN hist THEN hist[j] ELSE 0

\* One more in a bin.
OneMore(hist, bin) ==
    [b \in DOMAIN hist \cup {bin} |-> IF b = bin THEN count(hist, b) + 1 ELSE hist[b]]

Bump(r, bin) == [hist |-> OneMore(r.hist, bin), samples |-> r.samples + 1]

-----------------------------------------------------------------------------
(* Feeding it.                                                              *)

Bin(rpm, speed) == rpm \div speed - RATIO_MIN

outcome(r, s) ==
    IF s.clutch THEN "clutchPulled"
    ELSE IF s.neutral THEN "inNeutral"
    ELSE IF s.rpm < LEARN_MIN_RPM THEN "rpmLow"
    ELSE IF s.speed < LEARN_MIN_SPEED THEN "speedLow"
    ELSE IF Bin(s.rpm, s.speed) \notin 0..(BINS - 1) THEN "outOfRange"
    ELSE IF count(r.hist, Bin(s.rpm, s.speed)) < COUNT_MAX THEN "accepted"
    ELSE "binFull"

add_sample(r, s) ==
    IF outcome(r, s) = "accepted" THEN Bump(r, Bin(s.rpm, s.speed)) ELSE r

\* The boot marker, in the lowest bin.
MarkerFits(r) == count(r.hist, 0) < MARKER_MAX
debug_mark(r) == IF MarkerFits(r) THEN Bump(r, 0) ELSE r

-----------------------------------------------------------------------------
(* Peaks.                                                                   *)

smooth(hist, j) == count(hist, j - 1) + 2 * count(hist, j) + count(hist, j + 1)

mass(hist, i) == count(hist, i - 1) + count(hist, i) + count(hist, i + 1)

\* The centroid of three bins as a fraction, and the mass.
PeakAt(hist, i) ==
    LET m == mass(hist, i)
        num == (i - 1) * count(hist, i - 1) + i * count(hist, i) + (i + 1) * count(hist, i + 1)
    IN  [n |-> 2 * num + (2 * RATIO_MIN + 1) * m, d |-> 2 * m, mass |-> m, bin |-> i]

\* A plateau counts once, by its last bin.
IsMaximum(hist, i) ==
    smooth(hist, i) >= smooth(hist, i - 1) /\ smooth(hist, i) > smooth(hist, i + 1)

\* Bins with anything in them or beside them, the only ones with smooth > 0.
Touched(hist) == (UNION {{j - 1, j, j + 1} : j \in DOMAIN hist}) \cap 0..(BINS - 1)

candidates(hist) ==
    {PeakAt(hist, i) : i \in {j \in Touched(hist) :
        smooth(hist, j) > 0 /\ IsMaximum(hist, j) /\ mass(hist, j) >= MIN_PEAK_MASS}}

Abs(x) == IF x < 0 THEN -x ELSE x

\* More than PEAK_SEPARATION (6 %) apart.
Separated(p, q) ==
    LET a == p.n * q.d
        b == q.n * p.d
    IN  100 * Abs(a - b) > 6 * (IF a > b THEN a ELSE b)

\* A stable sort by mass of candidates that were found from the lowest bin upwards.
Stronger(p, q) == p.mass > q.mass \/ (p.mass = q.mass /\ p.bin < q.bin)

\* Mutant: the peaks are taken as they lie, not the strongest first.
byPosition(hist) ==
    CHOOSE s \in SetToSeqs(candidates(hist)) :
        \A i, j \in DOMAIN s : i < j => s[i].bin < s[j].bin

byMass(hist) ==
    CHOOSE s \in SetToSeqs(candidates(hist)) :
        \A i, j \in DOMAIN s : i < j => Stronger(s[i], s[j])

accept(accepted, p) ==
    IF \A q \in ToSet(accepted) : Separated(p, q) THEN Append(accepted, p) ELSE accepted

\* Accepted greedily, the strongest first.
peaks(hist) ==
    LET cs == byMass(hist)
        upTo[k \in 0..Len(cs)] == IF k = 0 THEN <<>> ELSE accept(upTo[k - 1], cs[k])
    IN  upTo[Len(cs)]

-----------------------------------------------------------------------------
(* Bands.                                                                   *)

\* The relative distance of a peak from a band is dist / band.
dist(p, g) == Abs(10 * p.n - FACTORY_BANDS[g] * p.d)

\* The first of the nearest bands.
nearest(p) ==
    CHOOSE g \in Digits : \A h \in Digits :
        LET dg == dist(p, g) * FACTORY_BANDS[h]
            dh == dist(p, h) * FACTORY_BANDS[g]
        IN  dg < dh \/ (dg = dh /\ g <= h)

\* Within ANCHOR_TOL (10 %) of it.
Anchors(p) == 10 * dist(p, nearest(p)) <= FACTORY_BANDS[nearest(p)] * p.d

Factory == [g \in Digits |-> [n |-> FACTORY_BANDS[g], d |-> 10, mass |-> 0, bin |-> -1]]

\* Mutant: any peak replaces the one before it.
refine_last(bands, p) ==
    IF Anchors(p) THEN [bands EXCEPT ![nearest(p)] = p] ELSE bands

refine(bands, p) ==
    IF Anchors(p) /\ p.mass > bands[nearest(p)].mass
    THEN [bands EXCEPT ![nearest(p)] = p] ELSE bands

refined(hist) ==
    LET ps == peaks(hist)
        upTo[k \in 0..Len(ps)] == IF k = 0 THEN Factory ELSE refine(upTo[k - 1], ps[k])
    IN  upTo[Len(ps)]

learned(bands) == Cardinality({g \in Digits : bands[g].mass > 0})

\* The bands of the classifier, or NoBands.
derive_bands(hist) ==
    IF learned(refined(hist)) < MIN_PEAKS THEN NoBands ELSE refined(hist)
=============================================================================
