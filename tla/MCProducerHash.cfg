SPECIFICATION FairSpec
CONSTANTS
  t1 = t1
  t2 = t2
  t3 = t3
  Thread = {t1, t2, t3}
  Hash <- MCHash
  Empty = empty
  InitialSize = 2
  MaxProducers = 3
INVARIANTS
  SlotFree
  CountExact
PROPERTIES
  OneProducerEach
  CallReturns
