SPECIFICATION Spec
CONSTANTS
  Terms = 2
  NumBuckets = 4
  NumDigits = 2
  LoadClasses = 3
  Modulus = 32
  Scalars <- AllScalars
  Leftover = 7
  NoItem = NoItem
  LaneCounts = {2, 4}
  Foreign = {0, 9}
INVARIANTS TypeOK OutputIsMsm SlotsFilledOnce OrderedByLoad
CHECK_DEADLOCK FALSE
