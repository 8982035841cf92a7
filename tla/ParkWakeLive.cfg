SPECIFICATION FairSpec
CONSTANTS
  t1 = t1
  t2 = t2
  w1 = w1
  w2 = w2
  Threads = {t1, t2}
  Workers = {w1, w2}
  Lists = {l1}
  home_wid <- TwoWorkers
  Main = Main
  Monitor = Monitor
  NoThread = NoThread
  NoList = NoList
  Free = Free
  MaxGen = 2
  MaxRaise = 0
  TimerMayFail = TRUE
  MayDefer = FALSE
PROPERTIES TimedWaitEnds WokenRuns
