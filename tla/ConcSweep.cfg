CONSTANTS
  w1 = w1
  w2 = w2
  s1 = s1
  Nobody = Nobody
  Workers = {w1, w2}
  Sweepers = {s1}
  NTasks = 3
  TaskWid <- Slots
  Chunks <- OfWorkers
  OwnerEnv = TRUE
  MaxGC = 2
SPECIFICATION FairSpec
INVARIANTS TypeOK ArrayStill SweepComplete ReleaseSettled
PROPERTY SweepEnds
CHECK_DEADLOCK FALSE
