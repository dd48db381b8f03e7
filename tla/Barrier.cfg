CONSTANTS
  Threads = {t1, t2, t3}
  count = 2
  BARRIER_IN_THRESHOLD = 5
  MaxRounds = 3
SPECIFICATION Spec
INVARIANTS NobodyLeavesEarly OneSerialThreadPerRound ResetIsAlone 
PROPERTY CallsReturn
