SPECIFICATION Spec
CONSTANTS
  Sizes = {12, 300, 4000}
  MaxLive = 4
  MaxCalls = 7
INVARIANTS
  TypeOK
  Tiled
  InUseExactly
  HolesInTheirBins
  WildernessReserve
PROPERTY ImplementsAllocator
CHECK_DEADLOCK FALSE
