---------------------------- MODULE GearEstimator ----------------------------
(***************************************************************************)
(* The gear estimator of firmware/core/src/gear.rs: neutral switch, gear    *)
(* register and ratio classifier, the debounce that commits a gear and the  *)
(* standstill decay that forgets one.  The estimator is a record, update a  *)
(* function of it, so that the poll loop (module PollLoop) runs the same    *)
(* definition.  Here an arbitrary caller feeds it any sequence of samples   *)
(* and replaces or clears its bands at any time.                            *)
(***************************************************************************)
EXTENDS GearClassifier

CONSTANTS
    DEBOUNCE_N,          \* samples before a gear is committed (3)
    DEBOUNCE_CONFIDENT,  \* ... when the classification is confident (2)
    STANDSTILL_FORGET,   \* standstill samples that forget a digit (8)
    U8_MAX,              \* where the u8 counters saturate (255)
    Rpms, Speeds,        \* the readings the environment can produce
    GearRegs,            \* values of the gear register; {None} on the W230
    BandTables           \* the calibrations set_bands can be given

ASSUME DebounceAssumption ==
    /\ DEBOUNCE_N \in Nat
    /\ DEBOUNCE_CONFIDENT \in 2..DEBOUNCE_N
    /\ STANDSTILL_FORGET \in Nat \ {0}
    /\ U8_MAX \in Nat
    /\ U8_MAX >= DEBOUNCE_N
    /\ U8_MAX >= STANDSTILL_FORGET

ASSUME InputAssumption ==
    /\ Rpms \subseteq Nat
    /\ Speeds \subseteq Nat
    /\ GearRegs \subseteq 0..255 \cup {None}
    /\ \A b \in BandTables : IsBandTable(b)

Inputs == [rpm : Rpms \cup {None}, speed : Speeds \cup {None},
           gear_reg : GearRegs, neutral_switch : BOOLEAN, clutch_pulled : BOOLEAN]

Estimators == [bands : BandTables \cup {NoBands}, gear : Gears, candidate : Gears,
               candidate_confident : BOOLEAN, stable : 0..U8_MAX, standstill : 0..U8_MAX]

-----------------------------------------------------------------------------

NewEstimator ==
    [bands |-> NoBands, gear |-> Unknown, candidate |-> Unknown,
     candidate_confident |-> FALSE, stable |-> 0, standstill |-> 0]

set_bands(e, b) == [e EXCEPT !.bands = b]

clear_bands(e) == [e EXCEPT !.bands = NoBands]

\* Mutant: the counter does not saturate.
PlainInc(n) == n + 1

SaturatingInc(n) == IF n < U8_MAX THEN n + 1 ELSE U8_MAX

\* The hardware switch commits N with no debounce ...
CommitNeutral(e) ==
    [e EXCEPT !.gear = Neutral, !.candidate = Neutral, !.stable = DEBOUNCE_N, !.standstill = 0]

\* Mutant: N is held until something else is committed.
DropNeutralNever(e) == e

\* ... and the first sample without it drops N with no debounce.
DropNeutral(e) ==
    IF e.gear = Neutral
    THEN [e EXCEPT !.gear = Unknown, !.candidate = Unknown, !.stable = 1]
    ELSE e

\* Mutant: a missing speed starts the count again.
DecayRestartsWithoutSpeed(e, speed) ==
    IF speed = None \/ speed >= STANDSTILL_SPEED \/ e.gear = Unknown
    THEN [e EXCEPT !.standstill = 0]
    ELSE IF SaturatingInc(e.standstill) >= STANDSTILL_FORGET
    THEN [e EXCEPT !.gear = Unknown, !.candidate = Unknown, !.standstill = 0]
    ELSE [e EXCEPT !.standstill = SaturatingInc(@)]

\* Mutant: riding on does not start the count again.
DecayNeverRestarts(e, speed) ==
    IF speed = None \/ speed >= STANDSTILL_SPEED \/ e.gear = Unknown
    THEN e
    ELSE IF SaturatingInc(e.standstill) >= STANDSTILL_FORGET
    THEN [e EXCEPT !.gear = Unknown, !.candidate = Unknown, !.standstill = 0]
    ELSE [e EXCEPT !.standstill = SaturatingInc(@)]

\* A digit held through STANDSTILL_FORGET standstill samples is forgotten; a
\* missing speed leaves the count alone.
DecayAtStandstill(e, speed) ==
    IF speed = None
    THEN e
    ELSE IF speed >= STANDSTILL_SPEED \/ e.gear = Unknown
    THEN [e EXCEPT !.standstill = 0]
    ELSE IF SaturatingInc(e.standstill) >= STANDSTILL_FORGET
    THEN [e EXCEPT !.gear = Unknown, !.candidate = Unknown, !.standstill = 0]
    ELSE [e EXCEPT !.standstill = SaturatingInc(@)]

\* Register before ratio; a pulled clutch says nothing.
RawGear(bands, in) ==
    IF in.gear_reg \in 0..NUM_GEARS
    THEN [gear |-> in.gear_reg, confident |-> TRUE]       \* 0 is neutral
    ELSE IF in.clutch_pulled
    THEN NoClass
    ELSE classify(bands, in.rpm, in.speed)

\* Mutant: another candidate does not start the count again.
DebounceKeepsCount(e, raw) ==
    LET stable == SaturatingInc(e.stable)
        needed == IF raw.confident THEN DEBOUNCE_CONFIDENT ELSE DEBOUNCE_N
        commit == stable >= needed /\ raw.gear # Unknown
    IN  [e EXCEPT !.candidate = raw.gear, !.candidate_confident = raw.confident,
                  !.stable = stable, !.gear = IF commit THEN raw.gear ELSE @]

\* Mutant: one sample too late.
DebounceLate(e, raw) ==
    LET stable == IF raw.gear = e.candidate THEN SaturatingInc(e.stable) ELSE 1
        needed == IF raw.confident THEN DEBOUNCE_CONFIDENT ELSE DEBOUNCE_N
        commit == stable > needed /\ raw.gear # Unknown
    IN  [e EXCEPT !.candidate = raw.gear, !.candidate_confident = raw.confident,
                  !.stable = stable, !.gear = IF commit THEN raw.gear ELSE @]

\* Enough equal samples in a row commit a known gear; Unknown displaces none.
Debounce(e, raw) ==
    LET stable == IF raw.gear = e.candidate THEN SaturatingInc(e.stable) ELSE 1
        needed == IF raw.confident THEN DEBOUNCE_CONFIDENT ELSE DEBOUNCE_N
        commit == stable >= needed /\ raw.gear # Unknown
    IN  [e EXCEPT !.candidate = raw.gear,
                  !.candidate_confident = raw.confident,
                  !.stable = stable,
                  !.gear = IF commit THEN raw.gear ELSE @]

update(e, in) ==
    IF in.neutral_switch
    THEN CommitNeutral(e)
    ELSE Debounce(DecayAtStandstill(DropNeutral(e), in.speed), RawGear(e.bands, in))

=============================================================================
