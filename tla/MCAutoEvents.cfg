SPECIFICATION Spec
CONSTANTS
  Dev = {d1, d2}
  Worker = {w1, w2}
  Value = {v1, v2}
  Frequency <- FrequencyDef
  MaxFires = 3
  NULL = NULL
  Freed = Freed
SYMMETRY Symmetry
INVARIANTS
  
  
  NoEventAfterStop
CHECK_DEADLOCK FALSE
