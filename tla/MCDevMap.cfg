SPECIFICATION Spec
CONSTANTS
  Id = {i1, i2}
  Name = {n1, n2}
  Profile = {p1}
  Obj = {o1, o2, o3}
  Callback = {c1, c2}
  Http = {h1}
  Thread = {t1}
  MaxChanges = 2
  Deleted = Deleted
  NULL = NULL
INVARIANTS
  RefsCounted
  LookupsSafe
PROPERTIES
  RemovedIsFreed
CHECK_DEADLOCK FALSE
