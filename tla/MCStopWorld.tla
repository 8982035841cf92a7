---------------------------- MODULE MCStopWorld ----------------------------
(* The barrier with main and two helpers. *)
EXTENDS StopWorld
=============================================================================
