SPECIFICATION JavaSpec
CONSTANTS
  Kernels <- TwoKernels
  TableBuffers <- TwoTables
  WorkBuffers <- TwoWork
  Paths <- ThreePaths
  Names <- ThreeNames
  Counted = {2}
  Listings <- ListingsConsidered
  Threads = {t1, t2}
  NoThread = NoThread
INVARIANTS JavaTypeOK ParentsOutliveChildren NothingLeft HandedOutWhole TablesOfOneFile OnBestDevice HandleIsProver UsedWhileAlive
PROPERTIES BusyKeepsObjects MonitorReleased
