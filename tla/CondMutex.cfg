SPECIFICATION Spec
CONSTANTS
  t1 = t1
  t2 = t2
  t3 = t3
  NoThread = NoThread
  Threads <- ThreeThreads
  MaxNest = 2
  MaxRaise = 1
  RaiseAt <- Anywhere
  Waits <- AllWaits
CONSTRAINT FlatWhenRaised
SYMMETRY Symmetry
INVARIANTS ListsAgree HoldsWhileInside DepthKeptUnraised FreeIsOfferedUnraised
CHECK_DEADLOCK FALSE
