SPECIFICATION QueueSpec
CONSTANTS
  Consumer = {c1, c2}
  MaxTail = 5
  MaxTickets = 4
  MaxAtOnce = 2
  Bulks = {3}
  Block = {b1, b2, b3}
  Null = null
  BLOCK_SIZE = 2
  InitialIndexSize = 2
  MaxSubqueueSize = 4
  IndexMod = 16
  Base = 12
  MaxHeaders = 2
SYMMETRY Symmetry
INVARIANTS
  HeadWithinTail
  OvercommitAssertion
  NoneStranded
  BlockIndexAssertions
  NoOverwrite
  NoBlockLost
  WithinLimit
  DestroysAll
CHECK_DEADLOCK FALSE
PROPERTIES
  ImplementsFifo
