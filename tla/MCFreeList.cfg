SPECIFICATION Spec
CONSTANTS
  Thread = {t1, t2, t3}
  n1 = n1
  n2 = n2
  Node = {n1, n2}
  InitialPool <- MCPool
  Null = null
  SHOULD_BE_ON_FREELIST = 8
INVARIANTS
  NextStable
  Exclusive
  NoneLost
PROPERTIES
  Implements
  LockFree
