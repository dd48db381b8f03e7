SPECIFICATION Spec
CONSTANTS
  w1 = w1
  w2 = w2
  s1 = s1
  Waiters = {w1, w2}
  Signalers = {s1}
  NoThread = NoThread
  MaxWseq = 3
  MaxGroupSize = 1
  Features = {"broadcast", "timeout", "cancel", "destroy", "interrupt"}
SYMMETRY Symmetry
CHECK_DEADLOCK FALSE
INVARIANTS SizesExact SignalWakes CallsReturn NoAccessAfterDestroy
