---- MODULE MCRunQueues ----
(* Model values and the instance of RunQueues that TLC checks. *)
EXTENDS RunQueues, TLC
Sym == Permutations(Threads)
====
