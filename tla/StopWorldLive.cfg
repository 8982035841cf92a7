SPECIFICATION FairSpec
CONSTANTS
  MaxWorkers = 3
  MaxEpoch = 2
  MaxDepth = 0
  MaxCallback = 0
  MayFork = FALSE
  MayDrain = FALSE
PROPERTIES
  CollectionHappens
  ParkedReleased
