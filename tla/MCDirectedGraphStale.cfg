CONSTANTS
  a = a
  b = b
  c = c
  Names = {a, b, c}
  EdgeNames = {e1}
  Costs = {0, 1}
  MaxEdges = 2
  Nil = Nil
SPECIFICATION Spec
SYMMETRY NodeSymmetry
INVARIANT
  NotFoundIsAlwaysTrue
