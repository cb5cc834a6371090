------------------------------- MODULE MCOta -------------------------------
(* Releases 1 (flashed), 2, and 3, in which Bluetooth does not start.       *)
EXTENDS Ota

MCFactory == [version |-> 1, healthy |-> TRUE]
MCImages == {MCFactory, [version |-> 2, healthy |-> TRUE], [version |-> 3, healthy |-> FALSE]}
=============================================================================
