SPECIFICATION ZSpec
CONSTANTS
  P = 17
  Root = 3
  LogCells = 3
  LogCellSize = 1
  ZWidth = 4
  BufferOrdered = TRUE
  Stale = {5}
  None = None
INVARIANTS ZTypeOK OutputIsZ
CHECK_DEADLOCK FALSE
