CONSTANTS
  base = base
  a = a
  b = b
  da = da
  dab = dab
  db = db
  Names = {base, a, b}
  Digests = {da, dab, db}
  EdgeNames = {da, dab, db}
  Costs = {1}
  Nil = Nil
  Base = base
  IdOf <- MCIdOf
  ParentOf <- MCParentOf
SPECIFICATION StoreSpec
INVARIANT
  LookupIsStack
