SPECIFICATION Spec
CONSTANTS
  Token = {t1, t2, t3}
  Implicit = {i1}
  Null = null
  MaxProducers = 3
SYMMETRY Symmetry
INVARIANTS
  TypeOK
  OneOwner
  NoDangling
PROPERTIES
  ListOnlyGrows
CHECK_DEADLOCK FALSE
