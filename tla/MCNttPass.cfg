SPECIFICATION Spec
CONSTANTS
  P = 17
  Root = 3
  LogCells = 3
  LogCellSize = 1
  Transforms <- WholeHalfAndCirculants
  Width = 4
  Inputs <- UnitsAndDense
  Leftover = 5
INVARIANTS TypeOK PassesTransformGroups TransformIsDft ColumnsTransformed
CHECK_DEADLOCK FALSE
