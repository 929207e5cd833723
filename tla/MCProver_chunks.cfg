SPECIFICATION Spec
CONSTANTS
  t1 = t1
  Threads = {t1}
  NoThread = NoThread
  Junk = Junk
  Untouched = Untouched
  MaxBatch = 2
  MaxItems = 3
  Sizes = {3}
  MaxBad = 1
  CallIds = 2
  Ops = {"compute", "recover"}
  Faults = {"submit", "lost"}
INVARIANTS TypeOK OwnResults
PROPERTIES ReturnsMeanWhatTheySay ApiSpec
