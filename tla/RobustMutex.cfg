SPECIFICATION Spec
CONSTANTS
  Threads = {t1, t2, t3}
  NoThread = none
  Inconsistent = inconsistent
  NotRecoverable = notrecoverable
  Kinds = {"normal", "errorcheck", "recursive"}
  Ops = {"lock", "timedlock", "trylock"}
  MaxCount = 2
  MaxDeaths = 2
SYMMETRY Symmetry
INVARIANTS MutualExclusion HolderIsFound InconsistencyIsReported SleeperHasWaker
