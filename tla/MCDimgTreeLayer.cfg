CONSTANTS
  root = root
  dir = dir
  f = f
  g = g
  empty = empty
  small = small
  large = large
  Paths <- MCPaths
  Root = root
  Up <- MCUp
  Contents = {empty, small, large}
  Size <- MCSize
  Modes <- MCModes
  Choices <- MCChoices
  DirsHaveSize = FALSE
  Mixed = FALSE
  MaxLayers = 3
  Nil = Nil
SPECIFICATION Spec
CHECK_DEADLOCK FALSE
INVARIANT
  NewIsSelfContained
