----------------------------- MODULE MCParkWake -----------------------------
(* Two threads, each pinned to a worker of its own, and two wait lists. *)
EXTENDS ParkWake, TLC

CONSTANTS t1, t2, w1, w2

TwoWorkers == t1 :> w1 @@ t2 :> w2

\* The threads are exchanged together with their workers, as home_wid has it.
Exchange == t1 :> t2 @@ t2 :> t1 @@ w1 :> w2 @@ w2 :> w1
Symmetry ==
  {p @@ q : p \in {Exchange, [x \in DOMAIN Exchange |-> x]},
            q \in Permutations(Lists)}

\* Bounds: a thread defers raises with at most one timer armed so far, and a second
\* #raise comes only while one defers and before any timer.
DeferBound ==
  LET deferring == \E t \in Threads : defer[t] IN
    /\ deferring => Armed <= 1
    /\ nraise > 1 => deferring /\ Armed = 0
=============================================================================
