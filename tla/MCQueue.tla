------------------------------- MODULE MCQueue -------------------------------
EXTENDS Queue, TLC

CONSTANTS t1, t2, t3, a, b

TwoThreads   == {t1, t2}
ThreeThreads == {t1, t2, t3}
OneValue     == {a}
TwoValues    == {a, b}
Symmetry     == Permutations(Threads) \cup Permutations(Values)
=============================================================================
