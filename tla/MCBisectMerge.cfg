SPECIFICATION Spec
CONSTANTS
  MaxDimgs = 9
  Limit = 2
CHECK_DEADLOCK FALSE
INVARIANTS TypeOK WithinLimit MergesNeighbours ChainIsMerged
PROPERTIES CleanCallReturns ShortChainReturns
