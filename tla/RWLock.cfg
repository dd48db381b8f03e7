SPECIFICATION Spec
CONSTANTS
  Threads = {t1, t2, t3}
  NoThread = none
  Flags = {"reader", "writer", "nonrecursive"}
  Overflow = 3
SYMMETRY Symmetry
INVARIANTS StateExact WriterAlone AlwaysWokenUnlessSkipped HandOverAwaited
