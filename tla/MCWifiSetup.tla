---------------------------- MODULE MCWifiSetup ----------------------------
(* Three networks, the second one open; the request channel holds two.       *)
EXTENDS WifiSetup
=============================================================================
