SPECIFICATION FairSpec
CONSTANTS
  Contexts = {0, 1}
  Long <- MCLong
  Short <- MCShort
  Devices = {200, 300}
  Window = 3
  Counts = {1}
INVARIANTS
  TypeOK
  NoFrameTwice
  RangesStayMapped
PROPERTIES
  SearchEnds
  ImplementsAllocator
CHECK_DEADLOCK FALSE
