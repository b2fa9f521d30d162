SPECIFICATION Spec
CONSTANTS
  t1 = t1
  t2 = t2
  n1 = n1
  n2 = n2
  n3 = n3
  m1 = m1
  m2 = m2
  Thread <- MCThread
  Node <- MCNode
  Msg <- MCMsg
  Cap = 2
  NULL = NULL
INVARIANTS
  ListIntact
  NoLeakNoDangling
PROPERTIES
  ImplementsFifo
  MutexReleased
