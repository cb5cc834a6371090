---------------------------- MODULE MCAlgorithms ----------------------------
(***************************************************************************)
(* The pure algorithms, each against what it is meant to compute.  Every    *)
(* behaviour sweeps the inputs of one of them; the others' variables rest.  *)
(***************************************************************************)
EXTENDS Attributes, ClassifierSweep, HistogramSweep, WireSweep

VARIABLE sweep    \* the algorithm being swept

allVars == <<sweep, attributeVars, classifierVars, hist, wireVars>>

-----------------------------------------------------------------------------
\* Events of three bytes in an attribute of twenty-six, notes cut by two.
MCTexts == {<<"a">>, <<"q", "u", "u">>, <<"a", "a", "L", "c">>, <<"u", "u", "u", "a">>}
MCNotes ==
    {<<>>, <<"u", "u", "u", "a", "a">>, <<"a", "L", "c", "L", "c", "q", "q", "q">>,
     <<"L", "c", "L", "c", "L", "c", "u", "u", "u">>}
MCOthers == {6, 18, 24}

\* The factory calibration, the one of gear.rs's tests, and a partial one.
MCTables ==
    {<<1969, 1357, 1021, 828, 683, 559>>, <<2400, 1650, 1250, 1000, 820, 700>>, <<1969, 1357>>}

\* Bins around the three highest gears and between them; counts around a peak's.
MCWindow == (34..38) \cup {41} \cup (44..52) \cup {55} \cup (58..66)
MCCounts == {7, 15, 16}

\* Readings at and around the ends of their ranges.
MCStatuses ==
    [link_up : BOOLEAN, neutral_switch : BOOLEAN, interlock : {"unknown", "open", "closed"},
     learn_flash : BOOLEAN, ota_busy : BOOLEAN, demo : {FALSE}, gear : Gears, brightness_idx : {3},
     rpm : {-1, 5202, 65535}, speed : {-1, 1, 25, 65535}, samples : {0, 16777217}, uptime_s : {255, 65536}]

MCUsual ==
    [link_up |-> TRUE, neutral_switch |-> FALSE, interlock |-> "unknown", learn_flash |-> FALSE, ota_busy |-> FALSE,
     demo |-> FALSE, gear |-> 2, brightness_idx |-> 3, rpm |-> 5202, speed |-> 25, samples |-> 0, uptime_s |-> 255]

\* A scheme of two letters, names of two bytes and passwords of three.  Payloads
\* open with every opcode, and one too many; their bytes are lengths, a blank,
\* the letters h and i, and one that is no text.
MCOpenings == (0..11) \cup {255}
MCAlphabet == {0, 1, 2, 3, 4, 32, 104, 105, 255}
MCAddresses == UNION {[1..n -> {32, 104, 105}] : n \in 0..4}
MCScheme == <<104, 105>>

-----------------------------------------------------------------------------
SweepInit ==
    /\ sweep \in {"classifier", "histogram", "wire", "attributes"}
    /\ AttributesInit /\ ClassifierInit /\ HistogramInit /\ WireInit
    /\ sweep # "classifier" => bands = <<1969, 1357>>

SweepClassifier == sweep = "classifier" /\ ClassifierNext /\ UNCHANGED <<sweep, attributeVars, hist, wireVars>>
SweepHistogram == sweep = "histogram" /\ Fill /\ UNCHANGED <<sweep, attributeVars, classifierVars, wireVars>>
SweepWire == sweep = "wire" /\ WireNext /\ UNCHANGED <<sweep, attributeVars, classifierVars, hist>>

SweepAttributes(A) == sweep = "attributes" /\ A /\ UNCHANGED <<sweep, classifierVars, hist, wireVars>>

SweepNext == SweepClassifier \/ SweepHistogram \/ SweepWire \/ SweepAttributes(AttributesNext)

\* The loop's thread goes on rendering.
Sweeps == SweepInit /\ [][SweepNext]_allVars /\ WF_allVars(SweepAttributes(TrimNotes \/ Built))
=============================================================================
