---------------------------- MODULE MCAppSession ----------------------------
(* One indicator; bounds in the cfg. *)
EXTENDS AppSession
=============================================================================
