SPECIFICATION FairSpec
CONSTANTS
  Threads = {t1, t2}
  NoThread = NoThread
  g_worker_cap = 2
  MaxFail = 1
  MaxAsk = 0
PROPERTY WorkRuns
CHECK_DEADLOCK FALSE
