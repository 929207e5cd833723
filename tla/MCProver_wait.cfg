SPECIFICATION Spec
CONSTANTS
  t1 = t1
  t2 = t2
  Threads = {t1, t2}
  NoThread = NoThread
  Junk = Junk
  Untouched = Untouched
  MaxBatch = 1
  MaxItems = 1
  Sizes = {1}
  MaxBad = 1
  CallIds = 1
  Ops = {"compute"}
  Faults = {"wait"}
SYMMETRY ThreadSymmetry
INVARIANTS Serialised
