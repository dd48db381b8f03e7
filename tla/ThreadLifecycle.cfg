CONSTANTS
  Pds = {p1, p2}
  Main = main
  NoThread = NoThread
  MaxGen = 2
  MaxCache = 1
  TwoJoiners = FALSE
  SlowDetach = FALSE
SPECIFICATION Spec
INVARIANTS  RunningStackIsKept SignalReachesThread DetachedIsReclaimed LastThreadEndsProcess
PROPERTY WaitForEndReturns
