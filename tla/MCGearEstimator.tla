--------------------------- MODULE MCGearEstimator ---------------------------
(***************************************************************************)
(* Small instances of the estimator.  At 10 km/h the factory bands read     *)
(* 1357 rpm as a confident 2nd, 2150 rpm as an unsure 1st and 3000 rpm as a *)
(* launch in 1st.                                                           *)
(***************************************************************************)
EXTENDS GearEstimatorSpec

\* A full and a partial calibration.
MCBandTables == {FACTORY_BANDS, <<1969>>}

\* The W230: no gear register.
W230Regs == {None}
=============================================================================
