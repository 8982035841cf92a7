---------------------------- MODULE MCReadiness ----------------------------
EXTENDS Readiness, TLC
CONSTANTS t1, t2, t3
\* Two threads at one worker, one at another.
MCHome == (t1 :> 1) @@ (t2 :> 1) @@ (t3 :> 2)
====
