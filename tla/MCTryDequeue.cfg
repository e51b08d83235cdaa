SPECIFICATION Spec
CONSTANTS
  Consumer = {c1, c2}
  Holder = {c1}
  MaxId = 1
  MaxProducers = 2
  MaxLen = 2
  MaxBulk = 2
  QUOTA = 2
INVARIANTS
  CountCoversList
PROPERTIES
  ShortMeansAllChecked
  NoProducerLeftAside
