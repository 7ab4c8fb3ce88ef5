CONSTANTS
  a = a
  b = b
  c = c
  Names = {a, b, c}
  EdgeNames = {e1}
  Costs = {0, 1}
  MaxEdges = 3
  Nil = Nil
SPECIFICATION Spec
SYMMETRY NodeSymmetry
INVARIANTS
  TypeOK
  FoundIsPath
  NoNilDereference
  WalkBackEnds
  NotFoundIsTrue
PROPERTY
  AnswersAtOnce
