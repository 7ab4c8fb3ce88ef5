CONSTANTS
  base = base
  a = a
  b = b
  da = da
  dab = dab
  Names = {base, a, b}
  Digests = {da, dab}
  EdgeNames = {da, dab}
  Costs = {1}
  Nil = Nil
  Base = base
  IdOf <- MCIdOf
  ParentOf <- MCParentOf
  Tags = {latest}
  NoTag = NoTag
  Posters = {p1}
  Big = {dab}
  Limit = 1
SPECIFICATION ServerSpec
INVARIANT
  MergesStacks
