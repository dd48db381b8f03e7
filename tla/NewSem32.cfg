CONSTANTS
  Threads = {t1, t2, t3}
  SEM_VALUE_MAX = 2
  MaxPosts = 3
SPECIFICATION Spec
INVARIANTS MissingBitIsRepaired NoAccessAfterDestroy
 
