SPECIFICATION FairSpec
CONSTANTS
  Ring = 7
  Lengths = {2, 3}
  MaxPackets = 5
INVARIANTS
  TypeOK
  CopiesWholePackets
  QueueOwnsPackets
PROPERTIES
  QueuedIsFreed
  InterruptEmptiesRing
  ImplementsFifo
CHECK_DEADLOCK FALSE
