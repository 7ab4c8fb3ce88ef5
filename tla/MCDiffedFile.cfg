CONSTANTS
  f1 = f1
  f2 = f2
  f3 = f3
  f4 = f4
  f5 = f5
  Workers = {w1, w2}
  Capacity = 2
  Files = {f1, f2, f3, f4, f5}
  Old = {f3, f4, f5}
  Same = {f4}
  Copied = {f5}
  SizeOf <- MCSizeOf
  PlaceInNew <- MCPlaceInNew
  Nil = Nil
SPECIFICATION Spec
INVARIANTS
  TypeOK
  CleanIsWhole
  ReadsAreTrue
PROPERTY CallReturns
CHECK_DEADLOCK FALSE
