CONSTANTS
  MaxLen = 3
  MaxBlocks = 4
  MaxFiles = 4
SPECIFICATION Spec
INVARIANTS
  DeltasApply
  MergesGoThrough
CHECK_DEADLOCK FALSE
