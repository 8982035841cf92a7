SPECIFICATION Spec
CONSTANTS
  Threads = {t1, t2, t3}
  NoThread = NoThread
  g_worker_cap = 2
  MaxFail = 0
  MaxAsk = 1
INVARIANTS OnePlaceAtHome NoSleepOver CountsAgree
SYMMETRY Sym
CHECK_DEADLOCK FALSE
