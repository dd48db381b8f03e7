CONSTANT Threads = {t1, t2, t3, t4}
SPECIFICATION Spec
INVARIANTS MutualExclusion SleeperNotForgotten NoAccessAfterDestroy IInv
PROPERTY ImplementsLock
