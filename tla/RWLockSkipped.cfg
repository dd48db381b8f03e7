SPECIFICATION Spec
CONSTANTS
  Threads = {t1, t2, t3}
  NoThread = none
  Flags = {"writer"}
  Overflow = 3
SYMMETRY Symmetry
INVARIANT AlwaysWoken
