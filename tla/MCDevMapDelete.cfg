SPECIFICATION SafetySpec
CONSTANTS
  Id = {i1, i2}
  Name = {n1, n2}
  Profile = {p1}
  Obj = {o1, o2, o3}
  Callback = {c1, c2}
  Http = {}
  Thread = {}
  MaxChanges = 3
  Deleted = Deleted
  NULL = NULL
SYMMETRY Symmetry
INVARIANTS
  CallbackAnswers
CHECK_DEADLOCK FALSE
