CONSTANTS
  d1 = d1
  d2 = d2
  Clients = {c1, c2}
  Tickets = {t1, t2}
  Dimgs = {d1, d2}
  BaseOf <- MCBaseOf
  MaxId = 2
  Images = {i1}
  Asked = {"view", "remove", "update", "cleanup"}
  Nil = Nil
SPECIFICATION Spec
INVARIANTS
  TypeOK
  LayersAreThere
  CommittedIsMounted
  TransactionsEnd
  ListedIsLocal
SYMMETRY Symmetric
CHECK_DEADLOCK FALSE
