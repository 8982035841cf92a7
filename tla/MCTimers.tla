------------------------------ MODULE MCTimers ------------------------------
(* Timers for TLC: a thread on each of two workers. *)
EXTENDS Timers, TLC
CONSTANTS t1, t2
MCThreads == {t1, t2}
MCHome == (t1 :> 0) @@ (t2 :> 1)
=============================================================================
