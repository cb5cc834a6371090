--------------------------- MODULE HistogramSweep ---------------------------
(***************************************************************************)
(* Checks the peak search and the derivation of bands of Histogram against  *)
(* what they are meant to compute, on every histogram with a few non-empty  *)
(* bins.                                                                    *)
(***************************************************************************)
EXTENDS Histogram

CONSTANTS
    Window,    \* bins that are filled
    Counts,    \* counts they are given
    MaxBins    \* most non-empty bins

ASSUME HistogramSweepAssumption ==
    Window \subseteq 0..(BINS - 1) /\ Counts \subseteq Nat /\ MaxBins \in Nat

VARIABLE hist

HistogramInit == hist = <<>>

Fill ==
    /\ Cardinality(DOMAIN hist) < MaxBins
    /\ \E b \in Window \ DOMAIN hist, c \in Counts :
         hist' = [x \in DOMAIN hist \cup {b} |-> IF x = b THEN c ELSE hist[x]]

HistogramSpec == HistogramInit /\ [][Fill]_hist

-----------------------------------------------------------------------------
\* The accepted peaks are pairwise more than 6 % apart, and a candidate that
\* was dropped lies within 6 % of an accepted one at least as strong ("Two
\* peaks closer than this are one gear, keep the bigger"), however candidates
\* chain up between two peaks.
KeepsTheBigger ==
    LET accepted == peaks(hist)
    IN  /\ \A i, j \in DOMAIN accepted : i # j => Separated(accepted[i], accepted[j])
        /\ \A c \in candidates(hist) \ ToSet(accepted) :
             \E a \in ToSet(accepted) : a.mass >= c.mass /\ ~Separated(c, a)

\* A bin with the mass of a peak yields a peak somewhere: a plateau, as of bins
\* that are full, does not hide the gear that filled them.
HeavyBinIsSeen ==
    (\E b \in DOMAIN hist : hist[b] >= MIN_PEAK_MASS) => peaks(hist) # <<>>

\* peaks keeps the bigger of two peaks that are one gear, loses no other, and
\* does not overlook a plateau, as of saturated bins.
PeaksFound == KeepsTheBigger /\ HeavyBinIsSeen

\* derive_bands: each gear's band is the strongest peak anchored to it, the factory's value
\* when there is none, and the gears keep their order, the lower one the higher
\* ratio: neither a second peak near a gear nor one that belongs to none moves
\* a band, and no gear is refined past its neighbour.
BandsFollowPeaks ==
    LET bands == derive_bands(hist)
        Own(g) == {p \in ToSet(peaks(hist)) : Anchors(p) /\ nearest(p) = g}
    IN  bands # NoBands =>
            /\ \A g \in Digits :
                 IF Own(g) = {} THEN bands[g] = Factory[g]
                 ELSE bands[g] \in Own(g) /\ \A p \in Own(g) : p.mass <= bands[g].mass
            /\ \A g \in Digits : g + 1 \in Digits =>
                 bands[g].n * bands[g + 1].d > bands[g + 1].n * bands[g].d
=============================================================================
