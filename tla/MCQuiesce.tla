---- MODULE MCQuiesce ----
(* Two threads, each on a helper of its own. *)
EXTENDS Quiesce, TLC
CONSTANTS t1, t2
MCHome == (t1 :> 1) @@ (t2 :> 2)
====
