SPECIFICATION Spec
CONSTANTS
  MaxWorkers = 2
  MaxEpoch = 3
  MaxDepth = 2
  MaxCallback = 2
  MayFork = TRUE
  MayDrain = TRUE
INVARIANTS TypeOK CountsExact WorldStopped RootsMarked BlockingCallIsOut
CHECK_DEADLOCK FALSE
