CONSTANTS
  t1 = t1
  t2 = t2
  Threads <- MCThreads
  home <- MCHome
  NumWorkers = 2
  MaxGen = 2
  MaxTime = 2
  MaxFail = 1
  Rounds = 2
SPECIFICATION FairSpec
INVARIANTS TimersKept NotSleptPast
PROPERTY DeadlineFires
