------------------------------ MODULE PollLoop ------------------------------
(***************************************************************************)
(* The main loop of firmware/esp32/src/main.rs and the LED thread it feeds: *)
(* from the neutral wire and the two K-line registers to what the rider     *)
(* reads off the matrix.                                                    *)
(*                                                                          *)
(* A cycle is cut where time passes and the world can move: before each     *)
(* register read and before the end of the cycle, where the wire is sampled *)
(* again.  The wire, the ECU's answers, the rider's button, the app's       *)
(* commands, the learner's bands and the OTA worker's state are inputs.     *)
(***************************************************************************)
EXTENDS GearEstimator

CONSTANTS
    LED_QUEUE,      \* capacity of the frame channel (4)
    REFRESH_EVERY,  \* cycles between unconditional frames (8)
    Brightness,     \* the brightness steps, by index
    Gaps,           \* values, in ms, of the two intervals time_align_rpm is given
    Disturbances    \* what besides the gearbox and the ECU happens in an instance

ASSUME PollLoopAssumption ==
    /\ LED_QUEUE \in Nat \ {0}
    /\ REFRESH_EVERY \in Nat \ {0}
    /\ Brightness # {}
    /\ Gaps \subseteq Nat /\ Gaps # {}
    /\ Disturbances \subseteq {"ledfault", "ota", "learn", "command", "restart", "probation"}

VARIABLES
    \* the world
    pin,        \* the neutral wire is low: the gearbox is in neutral
    otaShared,  \* what the OTA worker publishes, as far as the loop tells it apart
    \* the main thread
    pc, rpm, speed, linkUp, connected, prevRpm, cycle,
    est, neutralWas, brightness, flash,
    otaStatus,  \* the loop's copy of otaShared
    failShow,   \* ota_fail_until lies in the future
    selfTestDone,
    lastFrame,
    \* the LED thread
    frames,     \* the channel
    matrix,     \* the frame the LEDs show
    \* observation
    staleCycles \* cycles in a row that left an N on the matrix and should not have

sensorVars == <<rpm, speed, linkUp, connected, prevRpm>>
otaVars == <<otaStatus, failShow, selfTestDone>>
vars == <<pin, otaShared, pc, sensorVars, cycle, est, neutralWas, brightness, flash,
          otaVars, lastFrame, frames, matrix, staleCycles>>

-----------------------------------------------------------------------------
(* Frames: what is lit, and how brightly.  The glyph of a gear is the gear. *)

NoLink == -2
Progress == -3       \* the blue fill; its level is left out
CheckMark == -4
Cross == -5
Dark == -6
GreenDash == -7      \* the dash while the learn flash is on

NoFrame == [glyph |-> -8, level |-> CHOOSE b \in Brightness : TRUE]
Frame(glyph, level) == [glyph |-> glyph, level |-> level]
DarkFrame == [glyph |-> Dark, level |-> CHOOSE b \in Brightness : TRUE]

Glyphs == Gears \cup {NoLink, Progress, CheckMark, Cross, Dark, GreenDash}

render(gear, link, level, learnFlash) ==
    Frame(IF ~link THEN NoLink
          ELSE IF gear = Unknown /\ learnFlash THEN GreenDash ELSE gear, level)

\* SyncSender::try_send, its result ignored.
TrySend(queue, f) == IF Len(queue) < LED_QUEUE THEN Append(queue, f) ELSE queue

\* `if last_frame != Some(frame) { try_send; last_frame = Some(frame) }`
PushIfChanged(f) ==
    /\ frames' = IF lastFrame # f THEN TrySend(frames, f) ELSE frames
    /\ lastFrame' = f

-----------------------------------------------------------------------------

OtaStates == {"idle", "writing", "rebooting", "failed"}

\* RAM after a reset; the LEDs keep their colours until they are written.
Boot ==
    /\ pc' = "top" /\ rpm' = None /\ speed' = None /\ linkUp' = FALSE
    /\ connected' = FALSE /\ prevRpm' = None /\ cycle' = 0
    /\ \E b \in BandTables : est' = set_bands(NewEstimator, b)
    /\ neutralWas' = FALSE /\ brightness' \in Brightness /\ flash' = FALSE
    /\ otaShared' = "idle" /\ otaStatus' = "idle" /\ failShow' = FALSE
    /\ selfTestDone' \in {TRUE, "probation" \notin Disturbances}
    /\ lastFrame' = NoFrame /\ frames' = <<>>
    /\ staleCycles' = 0
    /\ UNCHANGED <<pin, matrix>>

Init ==
    /\ pin \in BOOLEAN /\ otaShared = "idle"
    /\ pc = "top" /\ rpm = None /\ speed = None /\ linkUp = FALSE
    /\ connected = FALSE /\ prevRpm = None /\ cycle = 0
    /\ \E b \in BandTables : est = set_bands(NewEstimator, b)
    /\ neutralWas = FALSE /\ brightness \in Brightness /\ flash = FALSE
    /\ otaStatus = "idle" /\ failShow = FALSE
    /\ selfTestDone \in {TRUE, "probation" \notin Disturbances}
    /\ lastFrame = NoFrame /\ frames = <<>> /\ matrix = DarkFrame
    /\ staleCycles = 0

-----------------------------------------------------------------------------
(* The top of an iteration.                                                 *)

\* The loop takes over the worker's state; a failure it has not seen yet puts
\* the cross up for a while.
Mirror ==
    /\ otaStatus' = otaShared
    /\ failShow' = (failShow \/ (otaShared = "failed" /\ otaStatus # "failed"))

\* Commands of the app: a wipe, another brightness.
Commands ==
    /\ est' \in {est} \cup (IF "command" \in Disturbances THEN {clear_bands(est)} ELSE {})
    /\ brightness' \in Brightness

\* An image is being written: the K-line is let go and only the progress or
\* the check mark is shown.
TopWhileWriting ==
    /\ pc = "top"
    /\ Mirror
    /\ otaStatus' \in {"writing", "rebooting"}
    /\ connected' = IF otaStatus \in {"writing", "rebooting"} THEN connected ELSE FALSE
    /\ PushIfChanged(Frame(IF otaStatus' = "rebooting" THEN CheckMark ELSE Progress, brightness))
    /\ Commands
    /\ UNCHANGED <<pin, otaShared, pc, rpm, speed, linkUp, prevRpm, cycle, neutralWas,
                   flash, selfTestDone, matrix, staleCycles>>

\* An install or a check failed: the cross, and nothing else of the loop.
TopAfterFailure ==
    /\ pc = "top"
    /\ Mirror
    /\ otaStatus' \notin {"writing", "rebooting"} /\ failShow'
    /\ PushIfChanged(Frame(Cross, brightness))
    /\ UNCHANGED <<pin, otaShared, pc, sensorVars, cycle, est, neutralWas, brightness,
                   flash, selfTestDone, matrix, staleCycles>>

\* The ordinary top: self-test when it is due, commands and button, reconnect.
\* failShow is over when its time is.
Top ==
    /\ pc = "top"
    /\ otaStatus' = otaShared
    /\ otaShared \notin {"writing", "rebooting"}
    /\ ~(otaShared = "failed" /\ otaStatus # "failed")
    /\ failShow' = FALSE
    /\ \/ UNCHANGED <<selfTestDone, frames>>
       \/ /\ ~selfTestDone /\ selfTestDone' = TRUE
          /\ frames' \in {frames, TrySend(frames, IF lastFrame = NoFrame THEN DarkFrame
                                                  ELSE lastFrame)}
    /\ Commands
    /\ connected' \in {connected, TRUE}
    /\ pc' = IF connected' THEN "rpm" ELSE "finish"
    /\ UNCHANGED <<pin, otaShared, rpm, speed, linkUp, prevRpm, cycle, neutralWas, flash, lastFrame, matrix,
                   staleCycles>>

\* Command::Reboot, and the worker's restart that ends a successful install.
Restart ==
    /\ \/ pc = "top" /\ "restart" \in Disturbances
       \/ otaShared = "rebooting"
    /\ Boot

-----------------------------------------------------------------------------
(* A poll cycle.                                                            *)

\* The fast path between the reads: a change of the wire updates the estimator
\* with an otherwise empty sample and sends a frame past last_frame.
neutral_tick ==
    IF pin = neutralWas
    THEN UNCHANGED <<neutralWas, est, frames>>
    ELSE LET e == update(est, [rpm |-> None, speed |-> None, gear_reg |-> None,
                               neutral_switch |-> pin, clutch_pulled |-> FALSE])
         IN  /\ neutralWas' = pin
             /\ est' = e
             /\ frames' = TrySend(frames, render(e.gear, TRUE, brightness, FALSE))

ReadRpm ==
    /\ pc = "rpm"
    /\ rpm' \in Rpms \cup {None}
    /\ neutral_tick
    /\ pc' = "speed"
    /\ UNCHANGED <<pin, otaShared, speed, linkUp, connected, prevRpm, cycle, brightness,
                   flash, otaVars, lastFrame, matrix, staleCycles>>

\* The speed, the alignment of rpm to it, the second tick, and the verdict on
\* the link: it is dead when both reads failed.  (Every eighth cycle also reads
\* the interlock register here, which the display does not use.)  From here on
\* rpm is the aligned value.
ReadSpeed ==
    /\ pc = "speed"
    /\ speed' \in Speeds \cup {None}
    /\ neutral_tick
    /\ rpm' \in IF rpm # None /\ prevRpm # None /\ speed' # None
                THEN {time_align_rpm(rpm, prevRpm, dt, lead) : dt \in Gaps, lead \in Gaps}
                ELSE {rpm}
    /\ linkUp' = (rpm # None \/ speed' # None)
    /\ connected' = linkUp'
    /\ prevRpm' = IF ~linkUp' THEN None ELSE IF rpm # None THEN rpm ELSE prevRpm
    /\ pc' = "finish"
    /\ UNCHANGED <<pin, otaShared, cycle, brightness, flash, otaVars, lastFrame, matrix,
                   staleCycles>>

\* Mutant: frames only on change.
RefreshNever == FALSE

\* Glitch insurance: one unconditional frame in REFRESH_EVERY cycles.
RefreshDue == cycle = 0

\* The end of the cycle: the histogram may have been saved and bands derived
\* from it, the wire is sampled once more, and the frame goes out if it
\* differs from the last one or the refresh is due.
Finish ==
    /\ pc = "finish"
    /\ \E saved \in {FALSE} \cup {"learn" \in Disturbances}, b \in BandTables \cup {est.bands} :
         LET e == update(IF saved THEN [est EXCEPT !.bands = b] ELSE est,
                         [rpm |-> rpm, speed |-> speed, gear_reg |-> None,
                          neutral_switch |-> pin, clutch_pulled |-> FALSE])
             f == render(e.gear, linkUp, brightness, saved \/ flash)
             send == lastFrame # f \/ RefreshDue
         IN  /\ est' = e
             /\ flash' = (saved \/ flash)
             /\ frames' = IF send THEN TrySend(frames, f) ELSE frames
             /\ lastFrame' = IF send THEN f ELSE lastFrame
             /\ staleCycles' = IF matrix.glyph = Neutral /\ e.gear # Neutral /\ frames' = <<>>
                               THEN staleCycles + 1 ELSE 0
    /\ neutralWas' = pin
    /\ cycle' = (cycle + 1) % REFRESH_EVERY     \* u32 and 8: wraps at a multiple
    /\ pc' = "top"
    /\ rpm' = None /\ speed' = None /\ linkUp' = FALSE     \* locals of the iteration
    /\ UNCHANGED <<pin, otaShared, connected, prevRpm, brightness, otaVars, matrix>>

-----------------------------------------------------------------------------
(* The LED thread and the world.                                            *)

LedWrite ==
    /\ frames # <<>>
    /\ matrix' = Head(frames)
    /\ frames' = Tail(frames)
    /\ UNCHANGED <<pin, otaShared, pc, sensorVars, cycle, est, neutralWas, brightness, flash,
                   otaVars, lastFrame, staleCycles>>

\* `LED write failed`: the frame is gone.
LedWriteFails ==
    /\ "ledfault" \in Disturbances
    /\ frames # <<>>
    /\ frames' = Tail(frames)
    /\ UNCHANGED <<pin, otaShared, pc, sensorVars, cycle, est, neutralWas, brightness, flash,
                   otaVars, lastFrame, matrix, staleCycles>>

Shift ==
    /\ pin' = ~pin
    /\ UNCHANGED <<otaShared, pc, sensorVars, cycle, est, neutralWas, brightness, flash,
                   otaVars, lastFrame, frames, matrix, staleCycles>>

FlashEnds ==
    /\ flash /\ flash' = FALSE
    /\ UNCHANGED <<pin, otaShared, pc, sensorVars, cycle, est, neutralWas, brightness,
                   otaVars, lastFrame, frames, matrix, staleCycles>>

\* The worker: a check fails or succeeds, an install writes and then fails or
\* is about to restart.
OtaWorker ==
    /\ "ota" \in Disturbances
    /\ otaShared' \in CASE otaShared = "idle" -> {"writing", "failed"}
                        [] otaShared = "writing" -> {"rebooting", "failed"}
                        [] otaShared = "failed" -> {"idle"}
                        [] otaShared = "rebooting" -> {}
    /\ UNCHANGED <<pin, pc, sensorVars, cycle, est, neutralWas, brightness, flash,
                   otaVars, lastFrame, frames, matrix, staleCycles>>

Loop == TopWhileWriting \/ TopAfterFailure \/ Top \/ ReadRpm \/ ReadSpeed \/ Finish
Led == LedWrite \/ LedWriteFails

Next == Loop \/ Restart \/ Led \/ Shift \/ FlashEnds \/ OtaWorker

Spec == Init /\ [][Next]_vars

\* The loop never blocks, and the cross of a failed install is up for four
\* seconds and not for ever (only an ordinary top can start the next attempt);
\* the LED thread runs on its own core and not every write to the LEDs fails;
\* an install ends (its HTTP reads time out) and a restart that was announced
\* happens.
Fairness ==
    /\ WF_vars(Loop)
    /\ SF_vars(Top)
    /\ SF_vars(LedWrite)
    /\ WF_vars(otaShared = "writing" /\ OtaWorker)
    /\ WF_vars(otaShared = "rebooting" /\ Restart)

FairSpec == Spec /\ Fairness

-----------------------------------------------------------------------------

\* The type invariant; the frame channel keeps its bound.
TypeOK ==
    /\ pin \in BOOLEAN /\ otaShared \in OtaStates /\ otaStatus \in OtaStates
    /\ pc \in {"top", "rpm", "speed", "finish"}
    /\ rpm \in Nat \cup {None} /\ speed \in Speeds \cup {None} /\ prevRpm \in Rpms \cup {None}
    /\ linkUp \in BOOLEAN /\ connected \in BOOLEAN /\ cycle \in 0..(REFRESH_EVERY - 1)
    /\ est \in Estimators /\ neutralWas \in BOOLEAN
    /\ brightness \in Brightness /\ flash \in BOOLEAN
    /\ failShow \in BOOLEAN /\ selfTestDone \in BOOLEAN
    /\ lastFrame \in [glyph : Glyphs, level : Brightness] \cup {NoFrame}
    /\ frames \in Seq([glyph : Glyphs, level : Brightness]) /\ Len(frames) <= LED_QUEUE
    /\ matrix \in [glyph : Glyphs, level : Brightness]
    /\ staleCycles \in Nat

\* The fast path of neutral_tick can put an N on the matrix that last_frame does
\* not know of; when the gearbox has left neutral by the end of the cycle the
\* refresh takes it off again before REFRESH_EVERY cycles have ended with it.
\* neutral_tick and the push at the end of the loop.
StaleNBounded == staleCycles < REFRESH_EVERY

\* The loop is undisturbed: no install, and every poll finds the ECU.
Undisturbed == otaShared = "idle" /\ (pc = "finish" => linkUp)

NoMoreRestarts == <>[][~Restart]_vars

\* Whatever frames were dropped at a full channel, lost in a failed write or
\* skipped because last_frame already had them: a gearbox that stays in
\* neutral is shown as N for good.  The loop and the LED thread.
NeutralShown ==
    NoMoreRestarts /\ <>[](pin /\ Undisturbed) => <>[](matrix.glyph = Neutral)

\* ... and once it has left neutral for good the N goes out for good, link or no
\* link, install or no install.
NeutralCleared ==
    NoMoreRestarts /\ <>[](~pin) => <>[](matrix.glyph # Neutral)

\* gear.rs on leaving neutral: `drop it now (holding a stale N invites dropping
\* the clutch in gear)'.  When a cycle is over and its frames are on the
\* matrix, an N there is the estimator's.
NoStaleNOnMatrix ==
    pc = "top" /\ frames = <<>> /\ matrix.glyph = Neutral => est.gear = Neutral
=============================================================================
