SPECIFICATION ZSpec
CONSTANTS
  P = 17
  Root = 2
  LogCells = 2
  LogCellSize = 1
  ZWidth = 4
  BufferOrdered = FALSE
  Stale = {5}
  None = None
INVARIANTS OutputIsZ
CHECK_DEADLOCK FALSE
