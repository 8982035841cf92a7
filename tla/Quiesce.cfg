SPECIFICATION FairSpec
CONSTANTS
  t1 = t1
  t2 = t2
  Threads = {t1, t2}
  Main = Main
  NoThread = NoThread
  NHelpers = 2
  Home <- MCHome
  MaxRaise = 1
  MaxOps = 1
INVARIANTS DeadlockIsReal JoinsRight
PROPERTY MainGoesOn
CHECK_DEADLOCK FALSE
