SPECIFICATION Spec
CONSTANTS
  t1 = t1
  t2 = t2
  w1 = w1
  w2 = w2
  Threads = {t1, t2}
  Workers = {w1, w2}
  Lists = {l1, l2}
  home_wid <- TwoWorkers
  Main = Main
  Monitor = Monitor
  NoThread = NoThread
  NoList = NoList
  Free = Free
  MaxGen = 2
  MaxRaise = 2
  TimerMayFail = TRUE
  MayDefer = TRUE
CONSTRAINT DeferBound
SYMMETRY Symmetry
INVARIANTS PlacesAgree NoLostWake TimedWaitRight RaiseNotSleptThrough
