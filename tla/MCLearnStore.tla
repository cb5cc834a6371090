---------------------------- MODULE MCLearnStore ----------------------------
(* One bin each of fourth and fifth gear, and readings that must not count. *)
EXTENDS LearnStore

Reading(r, v, n) == [rpm |-> r, speed |-> v, clutch |-> FALSE, neutral |-> n]

MCSamples == {Reading(1656, 20, FALSE), Reading(1366, 20, FALSE), Reading(1656, 20, TRUE),
              Reading(1100, 20, FALSE), Reading(1366, 9, FALSE), Reading(9000, 20, FALSE)}
=============================================================================
