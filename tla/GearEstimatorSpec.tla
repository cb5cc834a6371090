-------------------------- MODULE GearEstimatorSpec --------------------------
(***************************************************************************)
(* The estimator under an arbitrary caller: samples in any order, bands     *)
(* replaced or cleared between any two of them.  The last three variables   *)
(* are observations for the properties; update does not read them.          *)
(***************************************************************************)
EXTENDS GearEstimator

VARIABLES
    est,    \* the estimator
    last,   \* the sample of the latest update
    seen,   \* seen[k]: what the k-th latest update took the gear to be
    still   \* latest samples in a row that had a speed, and it was standstill

vars == <<est, last, seen, still>>

\* What one sample alone says the gear is.
Reading(in) ==
    IF in.neutral_switch THEN Neutral ELSE RawGear(est.bands, in).gear

NoInput == [rpm |-> None, speed |-> None, gear_reg |-> None,
            neutral_switch |-> FALSE, clutch_pulled |-> FALSE]

\* The type invariant: the u8 counters of the estimator do not overflow.
TypeOK ==
    /\ est \in Estimators
    /\ last \in Inputs \cup {NoInput}
    /\ seen \in [1..DEBOUNCE_N -> Gears]
    /\ still \in 0..STANDSTILL_FORGET

Init ==
    /\ est = NewEstimator
    /\ last = NoInput
    /\ seen = [k \in 1..DEBOUNCE_N |-> Unknown]
    /\ still = 0

Update(in) ==
    /\ est' = update(est, in)
    /\ last' = in
    /\ seen' = [k \in 1..DEBOUNCE_N |-> IF k = 1 THEN Reading(in) ELSE seen[k - 1]]
    /\ still' = IF in.speed = None THEN still
                ELSE IF in.speed >= STANDSTILL_SPEED THEN 0
                ELSE IF still < STANDSTILL_FORGET THEN still + 1 ELSE still

SetBands(b) ==
    /\ est' = set_bands(est, b)
    /\ UNCHANGED <<last, seen, still>>

ClearBands ==
    /\ est' = clear_bands(est)
    /\ UNCHANGED <<last, seen, still>>

Next ==
    \/ \E in \in Inputs : Update(in)
    \/ \E b \in BandTables : SetBands(b)
    \/ ClearBands

Spec == Init /\ [][Next]_vars

-----------------------------------------------------------------------------

HasNoGearRegister == GearRegs \cap 0..NUM_GEARS = {}

\* N is shown exactly while the latest sample has the neutral switch closed
\* (or the gear register of another model at 0): whatever was debounced
\* before, leaving neutral never leaves a stale N behind.  gear.rs, update.
NoStaleNeutral ==
    /\ last.neutral_switch => est.gear = Neutral
    /\ est.gear = Neutral => last.neutral_switch \/ last.gear_reg = 0

\* A new digit is only ever committed after DEBOUNCE_CONFIDENT samples in a row
\* that all said this digit, and after DEBOUNCE_N of them when the last one
\* was not confident; no sample of another gear, of N or of nothing lies in
\* between.  The debounce of update.
DebouncedCommit ==
    [][ \A g \in Digits :
          est'.gear = g /\ est.gear # g =>
            \A k \in 1..(IF est'.candidate_confident THEN DEBOUNCE_CONFIDENT ELSE DEBOUNCE_N) :
                seen'[k] = g ]_vars

\* The debounce delays a gear, it cannot lose one: once DEBOUNCE_N samples in a
\* row said g, g is what is shown (ratio classification only; recalibration
\* or a wipe between the samples does not matter).  update.
SteadyRatioShown ==
    HasNoGearRegister =>
        \A g \in Digits :
            (\A k \in 1..DEBOUNCE_N : seen[k] = g) => est.gear = g

\* A digit does not survive STANDSTILL_FORGET standstill samples, lost speed
\* readings between them notwithstanding.  The decay of update.
StandstillForgets ==
    HasNoGearRegister => (est.gear \in Digits => still < STANDSTILL_FORGET)

\* A digit turns into the dash for no other reason: riding, coasting with the
\* clutch in, a silent ECU or a wiped calibration hold it.  update,
\* set_bands, clear_bands.
ForgottenOnlyAtStandstill ==
    [][ est.gear \in Digits /\ est'.gear = Unknown => still' = STANDSTILL_FORGET ]_vars

-----------------------------------------------------------------------------
\* The strengthening that makes the properties above inductive: what the
\* counters stable and standstill stand for.

\* stable counts the latest samples that agree with the candidate.
StableCounts ==
    est.candidate \in Digits =>
        /\ est.stable >= 1
        /\ \A k \in 1..DEBOUNCE_N : k <= est.stable => seen[k] = est.candidate

\* ... and counts all of them, up to the debounce.
StableCountsAll ==
    HasNoGearRegister =>
        \A g \in Digits : \A m \in 1..DEBOUNCE_N :
            (\A k \in 1..m : seen[k] = g) => est.candidate = g /\ est.stable >= m

StableIsCommitted ==
    est.candidate \in Digits /\ est.stable >= DEBOUNCE_N /\ HasNoGearRegister
        => est.gear = est.candidate

NeutralIsCandidate == est.gear = Neutral => est.candidate = Neutral

\* standstill counts standstill samples, and all of them while a digit is held.
StandstillCounts ==
    /\ est.standstill <= still
    /\ est.standstill < STANDSTILL_FORGET
    /\ HasNoGearRegister /\ est.gear \in Digits => est.standstill = still

IInv ==
    /\ TypeOK
    /\ NoStaleNeutral
    /\ StableCounts
    /\ StableCountsAll
    /\ StableIsCommitted
    /\ NeutralIsCandidate
    /\ StandstillCounts
=============================================================================
