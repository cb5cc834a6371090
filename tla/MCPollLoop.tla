----------------------------- MODULE MCPollLoop -----------------------------
(***************************************************************************)
(* Small instances of the poll loop.  At 10 km/h the factory bands read     *)
(* 1357 rpm as 2nd.                                                         *)
(***************************************************************************)
EXTENDS PollLoop

MCBandTables == {FACTORY_BANDS}
W230Regs == {None}
=============================================================================
