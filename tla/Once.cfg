CONSTANTS
  Threads = {t1, t2, t3}
  MaxForks = 2
  MaxCancels = 2
  ForkInInit = FALSE
SPECIFICATION Spec
 
PROPERTY CallsReturn
