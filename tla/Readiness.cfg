SPECIFICATION FairSpec
CONSTANTS
  t1 = t1
  t2 = t2
  t3 = t3
  Threads = {t1, t2, t3}
  Workers = {1, 2}
  Handles = {h1, h2}
  Fds = {f1}
  Home <- MCHome
  Timed = {t1}
  NoFd = NoFd
  NoHandle = NoHandle
  SP_EV_OUT = 1
  SetsFail = FALSE
  MaxData = 2
  MaxCalls = 1
INVARIANTS NumberIsOwn WaitsAgree
PROPERTIES ReadyRuns CloseReleases
CHECK_DEADLOCK FALSE
