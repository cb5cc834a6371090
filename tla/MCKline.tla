------------------------------ MODULE MCKline ------------------------------
(* Small instances of Kline. *)
EXTENDS Kline

\* 1812 and 8191 rpm, 12 and 128 km/h: as long as neither has a first byte in
\* 129..191, which a frame parsed out of step takes for a short length.
MCRpm == {<<28, 82>>, <<127, 252>>}
MCSpeed == {<<12>>, <<128>>}
MCInterlock == {<<0, 0>>, <<255, 255>>, <<18, 52>>}
=============================================================================
