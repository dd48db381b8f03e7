SPECIFICATION Spec
CONSTANTS
  w1 = w1
  w2 = w2
  s1 = s1
  Waiters = {w1, w2}
  Signalers = {s1}
  NoThread = NoThread
  MaxWseq = 5
  MaxGroupSize = 1
  Features = {}
SYMMETRY Symmetry
INVARIANT SignalNotLost
CHECK_DEADLOCK FALSE
