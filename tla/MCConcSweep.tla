---------------------------- MODULE MCConcSweep ----------------------------
EXTENDS ConcSweep
CONSTANTS w1, w2, s1
\* Each worker's chunks, and an old list.
Slots == <<w1, w2, Nobody>>
OfWorkers == {1, 2}
=============================================================================
