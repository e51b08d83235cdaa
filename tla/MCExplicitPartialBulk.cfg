SPECIFICATION QueueSpec
CONSTANTS
  Consumer = {c1}
  MaxTail = 5
  MaxTickets = 5
  MaxAtOnce = 2
  Block = {b1, b2, b3}
  Null = null
  BLOCK_SIZE = 2
  InitialIndexSize = 2
  MaxSubqueueSize = 4
  IndexMod = 16
  Pasts = {0}
  MaxBulk = 3
  MaxHeaders = 2
  PartialBulk = TRUE
INVARIANTS
  EachIsFound
CHECK_DEADLOCK FALSE
