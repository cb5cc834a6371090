----------------------------- MODULE LearnStore -----------------------------
(***************************************************************************)
(* The learner: the histogram in RAM, its copy in flash, the ride's black   *)
(* box beside it (firmware/esp32/src/learn_store.rs), and the places in the *)
(* poll loop that feed, save, wipe and use them (firmware/esp32/src/        *)
(* main.rs).  A save is two flash writes one after the other, either of     *)
(* which may fail, and the ignition may cut the power before, between and   *)
(* after them.  Of the black box the counters of boots and link drops stand *)
(* for all: the others are kept and written with them.                      *)
(***************************************************************************)
EXTENDS Histogram

CONSTANTS
    Samples,        \* readings: rpm, speed, clutch, neutral
    MaxBoots, MaxDrops, MaxWipes, MaxReadErrors

ASSUME LearnStoreAssumption ==
    /\ Samples \subseteq [rpm : Nat, speed : Nat, clutch : BOOLEAN, neutral : BOOLEAN]
    /\ MaxBoots \in Nat \ {0} /\ MaxDrops \in Nat /\ MaxWipes \in Nat /\ MaxReadErrors \in Nat

VARIABLES
    \* flash: the two blobs
    flashHist, flashDebug,
    \* RatioLearner
    ram, dirty, debug,
    \* the estimator's bands
    bands,
    \* a save in progress, and what asked for it
    pc, saveFor,
    \* observations: boots, wipes, failed reads, and whether this boot has
    \* wiped or failed to read the histogram
    boots, wipes, readErrors, forgot

flashVars == <<flashHist, flashDebug>>
learnerVars == <<ram, dirty, debug>>
obsVars == <<boots, wipes, readErrors, forgot>>
vars == <<flashVars, learnerVars, bands, pc, saveFor, obsVars>>

\* Nothing stored.
NoBlob == [hist |-> <<>>, samples |-> -1]
NoDebug == [boots |-> -1, link_drops |-> -1]
NewDebug == [boots |-> 0, link_drops |-> 0]

-----------------------------------------------------------------------------
(* Boot.                                                                    *)

\* derive_bands of Histogram, for readings of which each gear has one bin far
\* from the others': the bands are told apart by the bins that make a peak.
FactoryBands == {}
NotDerived == {-1}

DerivedBands(r) ==
    LET made == {b \in DOMAIN r.hist : r.hist[b] >= MIN_PEAK_MASS}
    IN  IF Cardinality(made) < MIN_PEAKS THEN NotDerived ELSE made

\* clear_bands: the estimator classifies nothing.
ClearedBands == {-2}

\* Mutant: the histogram counts only with a black box beside it.
LoadNeedsBoth(readable) ==
    LET stored == IF readable /\ flashHist # NoBlob /\ flashDebug # NoDebug
                  THEN flashHist ELSE Empty
        d == IF flashDebug # NoDebug THEN flashDebug ELSE NewDebug
        derived == DerivedBands(debug_mark(stored))
    IN  /\ ram' = debug_mark(stored)
        /\ dirty' = MarkerFits(stored)
        /\ debug' = [d EXCEPT !.boots = @ + 1]
        /\ bands' = IF derived = NotDerived THEN FactoryBands ELSE derived
        /\ pc' = "run" /\ saveFor' = "none"

\* load(): what is not stored, or cannot be read, starts afresh; the boot is
\* counted and the marker set, both in RAM only.  Then the bands: the factory's
\* until the histogram yields better ones.
Load(readable) ==
    LET stored == IF readable /\ flashHist # NoBlob THEN flashHist ELSE Empty
        d == IF flashDebug # NoDebug THEN flashDebug ELSE NewDebug
        derived == DerivedBands(debug_mark(stored))
    IN  /\ ram' = debug_mark(stored)
        /\ dirty' = MarkerFits(stored)
        /\ debug' = [d EXCEPT !.boots = @ + 1]
        /\ bands' = IF derived = NotDerived THEN FactoryBands ELSE derived
        /\ pc' = "run" /\ saveFor' = "none"

\* Power comes back: key-on after a cut at any point, or a restart.
Boot ==
    /\ boots < MaxBoots
    /\ \/ Load(TRUE) /\ forgot' = FALSE /\ UNCHANGED readErrors
       \/ /\ readErrors < MaxReadErrors
          /\ Load(FALSE) /\ forgot' = TRUE /\ readErrors' = readErrors + 1
    /\ boots' = boots + 1
    /\ UNCHANGED <<flashVars, wipes>>

Init ==
    /\ flashHist = NoBlob /\ flashDebug = NoDebug
    /\ ram = debug_mark(Empty) /\ dirty = MarkerFits(Empty)
    /\ debug = [NewDebug EXCEPT !.boots = 1]
    /\ bands = FactoryBands
    /\ pc = "run" /\ saveFor = "none"
    /\ boots = 1 /\ wipes = 0 /\ readErrors = 0 /\ forgot = FALSE

-----------------------------------------------------------------------------
(* The learner's operations.                                                *)

AddSample ==
    /\ pc = "run"
    /\ \E s \in Samples :
         /\ ram' = add_sample(ram, s)
         /\ dirty' = (dirty \/ outcome(ram, s) = "accepted")
    /\ UNCHANGED <<flashVars, debug, bands, pc, saveFor, obsVars>>

\* save(), first part: the black box goes along every time.
StartSave(why) == pc' = "saveDebug" /\ saveFor' = why

\* What is left to do when save() has returned `written`: the timer's save
\* derives the bands, a wipe drops them, a restart follows.
Saved(written) ==
    LET derived == DerivedBands(ram)
    IN  /\ bands' = CASE saveFor = "timer" /\ written /\ derived # NotDerived -> derived
                      [] saveFor = "wipe" -> ClearedBands
                      [] OTHER -> bands
        /\ pc' = IF saveFor = "reboot" THEN "restart" ELSE "run"
        /\ saveFor' = "none"

\* Mutant: a failed write of the black box ends the save.
SaveDebugFirst ==
    /\ pc = "saveDebug"
    /\ flashDebug' \in {debug, flashDebug}
    /\ IF dirty /\ flashDebug' = debug THEN pc' = "saveHist" /\ UNCHANGED <<bands, saveFor>>
       ELSE Saved(FALSE)
    /\ UNCHANGED <<flashHist, learnerVars, obsVars>>

SaveDebug ==
    /\ pc = "saveDebug"
    /\ flashDebug' \in {debug, flashDebug}
    /\ IF dirty THEN pc' = "saveHist" /\ UNCHANGED <<bands, saveFor>> ELSE Saved(FALSE)
    /\ UNCHANGED <<flashHist, learnerVars, obsVars>>

\* Mutant: clean whether the write went well or not.
SaveHistOnce ==
    /\ pc = "saveHist"
    /\ flashHist' \in {ram, flashHist} /\ dirty' = FALSE /\ Saved(TRUE)
    /\ UNCHANGED <<flashDebug, ram, debug, obsVars>>

SaveHist ==
    /\ pc = "saveHist"
    /\ \/ flashHist' = ram /\ dirty' = FALSE /\ Saved(TRUE)
       \/ UNCHANGED <<flashHist, dirty>> /\ Saved(FALSE)
    /\ UNCHANGED <<flashDebug, ram, debug, obsVars>>

-----------------------------------------------------------------------------
(* The poll loop.                                                           *)

\* Every LEARN_SAVE_INTERVAL.
TimerSave ==
    /\ pc = "run" /\ StartSave("timer")
    /\ UNCHANGED <<flashVars, learnerVars, bands, obsVars>>

\* Before an update takes over, and before a restart the app asked for.
OtaSave ==
    /\ pc = "run" /\ StartSave("ota")
    /\ UNCHANGED <<flashVars, learnerVars, bands, obsVars>>

RebootSave ==
    /\ pc = "run" /\ boots < MaxBoots /\ StartSave("reboot")
    /\ UNCHANGED <<flashVars, learnerVars, bands, obsVars>>

LinkDrop ==
    /\ pc = "run" /\ debug.link_drops < MaxDrops
    /\ debug' = [debug EXCEPT !.link_drops = @ + 1]
    /\ StartSave("linkDrop")
    /\ UNCHANGED <<flashVars, ram, dirty, bands, obsVars>>

\* clear(), by button or app, then clear_bands.
Wipe ==
    /\ pc = "run" /\ wipes < MaxWipes
    /\ ram' = Empty /\ dirty' = TRUE /\ debug' = NewDebug /\ StartSave("wipe")
    /\ wipes' = wipes + 1 /\ forgot' = TRUE
    /\ UNCHANGED <<flashVars, bands, boots, readErrors>>

\* clear_black_box: this boot stays counted.
ClearBlackBox ==
    /\ pc = "run" /\ wipes < MaxWipes
    /\ debug' = [NewDebug EXCEPT !.boots = 1]
    /\ flashDebug' \in {debug', flashDebug}
    /\ wipes' = wipes + 1
    /\ UNCHANGED <<flashHist, ram, dirty, bands, pc, saveFor, boots, readErrors, forgot>>

PowerCut == Boot
Restart == pc = "restart" /\ Boot

Next ==
    \/ AddSample \/ SaveDebug \/ SaveHist
    \/ TimerSave \/ OtaSave \/ RebootSave \/ LinkDrop \/ Wipe \/ ClearBlackBox
    \/ PowerCut \/ Restart

Spec == Init /\ [][Next]_vars

\* The loop keeps turning: a save goes on, the timer fires between the other
\* things it does.  The flash does not refuse every write for ever.
FairSpec ==
    /\ Spec
    /\ WF_vars(SaveDebug) /\ WF_vars(SaveHist) /\ WF_vars(Restart)
    /\ SF_vars(TimerSave) /\ SF_vars(SaveHist /\ flashHist' = ram)

-----------------------------------------------------------------------------
(* Properties.                                                              *)

\* The counts of all bins.
Total(hist) ==
    LET upTo[k \in 0..BINS] == IF k = 0 THEN 0 ELSE upTo[k - 1] + count(hist, k - 1)
    IN  upTo[BINS]

IsHistogram(r) ==
    /\ DOMAIN r.hist \subseteq 0..(BINS - 1)
    /\ \A b \in DOMAIN r.hist : r.hist[b] \in 1..COUNT_MAX
    /\ r.samples = Total(r.hist)

\* The type invariant; the total agrees with the bins, in RAM and in flash.
TypeOK ==
    /\ IsHistogram(ram) /\ (flashHist # NoBlob => IsHistogram(flashHist))
    /\ dirty \in BOOLEAN /\ forgot \in BOOLEAN
    /\ debug \in [boots : 0..MaxBoots, link_drops : 0..MaxDrops]
    /\ pc \in {"run", "saveDebug", "saveHist", "restart"}
    /\ saveFor \in {"none", "timer", "ota", "reboot", "linkDrop", "wipe"}
    /\ bands \subseteq 0..(BINS - 1) \/ bands = ClearedBands

\* What is not marked dirty is in flash: no sample, marker or wipe is forgotten
\* to be saved, whichever write failed and wherever the power was cut.
CleanMeansSaved == ~dirty => flashHist = ram

\* A ride's samples leave the flash only because they were wiped, or because
\* this boot could not read them: neither a cut between the two writes nor a
\* failed write brings an older histogram back.
OnlyWipeForgets ==
    [][flashHist # NoBlob /\ ~forgot =>
         \A b \in DOMAIN flashHist.hist : count(flashHist'.hist, b) >= flashHist.hist[b]]_vars

\* In the end what is in RAM is in flash, a wipe whose write failed too.
EverythingSaved == <>[](flashHist = ram)

-----------------------------------------------------------------------------
(* A promise the code does not keep; no run checks it.                      *)

\* The bands are re-derived "so a calibration ride completes without any power
\* cycle" (main.rs): once the histogram yields bands, they are in use.  A save
\* for another reason takes the samples before the timer derives from them.
CalibrationCompletes ==
    <>[](DerivedBands(ram) # NotDerived => bands = DerivedBands(ram))
=============================================================================
