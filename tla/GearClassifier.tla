--------------------------- MODULE GearClassifier ---------------------------
(***************************************************************************)
(* The rpm/speed ratio classifier of firmware/core/src/gear.rs: which gear  *)
(* a ratio stands for, how sure the classifier is of it, and the time       *)
(* alignment of the rpm reading that feeds it.                              *)
(*                                                                          *)
(* The code computes in f32.  Here every comparison of two quotients is the *)
(* comparison of the cross products in integers, so the model has the exact *)
(* real-valued meaning of the code: rpm and speed are integers, a band      *)
(* centre is in tenths of rpm per km/h (196.9 is 1969), tolerances are in   *)
(* percent.                                                                 *)
(***************************************************************************)
EXTENDS Integers, Sequences, FiniteSets

NUM_GEARS == 6

MIN_SPEED == 3              \* below this the ratio is meaningless
MIN_RPM == 600
BAND_TOL == 14              \* percent around a band centre
CONFIDENT_TOL == 5
STANDSTILL_SPEED == 1
LAUNCH_MAX_SPEED == 12
LAUNCH_MIN_RPM == 1100

FACTORY_BANDS == <<1969, 1357, 1021, 828, 683, 559>>

\* Option::None of a reading; every reading is a natural number.
None == -1

\* enum Gear: G(1) .. G(6) are 1 .. NUM_GEARS.
Neutral == 0
Unknown == 255
Digits == 1..NUM_GEARS
Gears == Digits \cup {Neutral, Unknown}

\* bands: Option<([f32; 6], count)>; the valid prefix is the sequence, and
\* <<>> is None (set_bands asserts that count is at least 1).
NoBands == <<>>
IsBandTable(b) ==
    /\ b \in Seq(Nat \ {0})
    /\ Len(b) \in 1..NUM_GEARS

-----------------------------------------------------------------------------

\* |ratio - c| for ratio = rpm / speed, as the numerator over 10 * speed.
Miss(c, rpm, speed) ==
    LET d == 10 * rpm - c * speed IN IF d < 0 THEN -d ELSE d

\* err <= tol, where err = |ratio - c| / c.
Within(c, rpm, speed, tol) ==
    100 * Miss(c, rpm, speed) <= tol * c * speed

\* Mutant: the absolute error decides.
IsNearestAbsolute(bands, i, rpm, speed) ==
    \A j \in DOMAIN bands :
        LET ei == Miss(bands[i], rpm, speed)
            ej == Miss(bands[j], rpm, speed)
        IN  IF j < i THEN ei < ej ELSE ei <= ej

\* The fold over the bands keeps the first one of the smallest error.
IsNearest(bands, i, rpm, speed) ==
    \A j \in DOMAIN bands :
        LET ei == Miss(bands[i], rpm, speed) * bands[j]
            ej == Miss(bands[j], rpm, speed) * bands[i]
        IN  IF j < i THEN ei < ej ELSE ei <= ej

\* Mutant: any ratio at walking pace is a launch.
IsLaunchAnyRatio(bands, rpm, speed) == speed <= LAUNCH_MAX_SPEED /\ rpm >= LAUNCH_MIN_RPM

\* A slipping clutch pushes the ratio above the band of 1st at walking pace.
IsLaunch(bands, rpm, speed) ==
    /\ speed <= LAUNCH_MAX_SPEED
    /\ rpm >= LAUNCH_MIN_RPM
    /\ 1000 * rpm >= bands[1] * (100 - BAND_TOL) * speed

NoClass == [gear |-> Unknown, confident |-> FALSE]

classify(bands, rpm, speed) ==
    LET hits == { i \in DOMAIN bands : /\ IsNearest(bands, i, rpm, speed)
                                       /\ Within(bands[i], rpm, speed, BAND_TOL) }
        best == CHOOSE i \in hits : TRUE
    IN  IF bands = NoBands \/ rpm < MIN_RPM \/ speed < MIN_SPEED
        THEN NoClass                             \* None < MIN_*: no reading
        ELSE IF hits # {}
        THEN [gear |-> best,
              confident |-> Within(bands[best], rpm, speed, CONFIDENT_TOL)]
        ELSE IF IsLaunch(bands, rpm, speed)
        THEN [gear |-> 1, confident |-> FALSE]
        ELSE NoClass

\* rpm estimated `lead` ms after a reading, from the previous reading `dt` ms
\* before it; history that is too old or too young disables the correction,
\* which is clamped to 10% of the reading.  (Rounded down to an integer.)
time_align_rpm(now, prev, dt, lead) ==
    IF dt \notin 1..2000 \/ lead <= 0
    THEN now
    ELSE LET corrected == now + ((now - prev) * lead) \div dt
             limit == now \div 10
         IN  IF corrected < now - limit THEN now - limit
             ELSE IF corrected > now + limit THEN now + limit
             ELSE corrected
=============================================================================
