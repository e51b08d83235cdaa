SPECIFICATION QueueSpec
CONSTANTS
  Consumer = {c1, c2}
  MaxTail = 5
  MaxTickets = 3
  MaxAtOnce = 2
  Block = {b1, b2, b3}
  Null = null
  BLOCK_SIZE = 2
  InitialIndexSize = 2
  MaxSubqueueSize = 4
  IndexMod = 16
  Pasts = {0, 12}
  MaxBulk = 3
  MaxHeaders = 2
  PartialBulk = FALSE
SYMMETRY Symmetry
INVARIANTS
  EachIsFound
  NoOverwrite
  RingWhole
PROPERTIES
  ImplementsFifo
CHECK_DEADLOCK FALSE
