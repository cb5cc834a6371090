--------------------------- MODULE ClassifierSweep ---------------------------
(***************************************************************************)
(* The ratio classifier over a grid of engine and road speeds: from the     *)
(* slowest corner the sweep revs the engine or speeds up, one grid step at a *)
(* time, so that the properties can compare neighbouring readings.          *)
(***************************************************************************)
EXTENDS GearClassifier

CONSTANTS
    Tables,                       \* calibrations to sweep, bands descending
    RpmStep, MaxRpm, MaxSpeed     \* the grid

VARIABLES bands, rpm, speed

classifierVars == <<bands, rpm, speed>>

ClassifierInit == bands \in Tables /\ rpm = 0 /\ speed = 0

Rev == rpm + RpmStep <= MaxRpm /\ rpm' = rpm + RpmStep /\ UNCHANGED <<bands, speed>>

SpeedUp == speed < MaxSpeed /\ speed' = speed + 1 /\ UNCHANGED <<bands, rpm>>

ClassifierNext == Rev \/ SpeedUp

ClassifierSpec == ClassifierInit /\ [][ClassifierNext]_classifierVars

-----------------------------------------------------------------------------

Class == classify(bands, rpm, speed)

\* The gear whose share of the ratio axis holds rpm / speed.  Two bands hi > lo
\* have the same relative error at their harmonic mean, 2*hi*lo / (hi + lo).
IntervalGear ==
    1 + Cardinality({ i \in 1..(Len(bands) - 1) :
            LET hi == bands[i]
                lo == bands[i + 1]
            IN  10 * rpm * (hi + lo) < 2 * hi * lo * speed })

\* The search for the smallest relative error finds the interval the ratio lies
\* in: inside a window the answer is the interval's gear, outside every window
\* it is 1st on a launch and nothing otherwise.  classify.
NearestBandIsInterval ==
    LET g == IntervalGear IN
    Class.gear = IF rpm < MIN_RPM \/ speed < MIN_SPEED THEN Unknown
                 ELSE IF Within(bands[g], rpm, speed, BAND_TOL) THEN g
                 ELSE IF IsLaunch(bands, rpm, speed) THEN 1
                 ELSE Unknown

\* Revving at a constant speed never makes the classifier answer a higher gear,
\* and speeding up at constant rpm never a lower one: the launch rule and the
\* windows cannot contradict each other between neighbouring readings.
\* classify.
GearFollowsRatio ==
    [][ Class.gear \in Digits /\ Class'.gear \in Digits =>
          /\ speed' = speed => Class'.gear <= Class.gear
          /\ rpm' = rpm => Class'.gear >= Class.gear ]_classifierVars

\* A confident answer is unambiguous: no other band is within the confident
\* tolerance, so committing it after fewer samples cannot pick the wrong one
\* of two equally good gears.  classify and DEBOUNCE_CONFIDENT.
ConfidentIsUnambiguous ==
    Class.confident =>
        { i \in DOMAIN bands : Within(bands[i], rpm, speed, CONFIDENT_TOL) } = {Class.gear}

\* Both: classify finds the band whose interval of the ratio axis the reading is
\* in, and is confident only where no other band is.
ClassifiedRight == NearestBandIsInterval /\ ConfidentIsUnambiguous
=============================================================================
