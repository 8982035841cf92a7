SPECIFICATION Spec
CONSTANTS
  t1 = t1
  t2 = t2
  t3 = t3
  a = a
  b = b
  NoValue = NoValue
  Threads <- ThreeThreads
  Values <- TwoValues
  Maxes = {0, 1}
  InitCap = 1
  WakeBatch = 1
  MaxLen = 2
  MaxRaise = 1
SYMMETRY Symmetry
INVARIANTS TypeOK NoneWaitsInVain
PROPERTY IsFifo
CHECK_DEADLOCK FALSE
