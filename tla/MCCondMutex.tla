---------------------------- MODULE MCCondMutex ----------------------------
EXTENDS CondMutex, TLC

CONSTANTS t1, t2, t3

TwoThreads   == {t1, t2}
ThreeThreads == {t1, t2, t3}
Symmetry     == Permutations(Threads)

\* Labels at which a #raise is delivered: any, or those of a condition wait.
Anywhere == Labels
InWait   == {"cv_parked"}
NoWaits  == {}
AllWaits == {"plain", "timed", "nb"}

\* Bound: a #raise comes to threads that do not nest #lock calls.
FlatWhenRaised == nraise > 0 => \A t \in Threads : nest[t] <= 1
=============================================================================
