SPECIFICATION Spec
CONSTANTS
  Contexts = {0}
  Long <- MCLong
  Short <- MCShort
  Devices = {200, 300}
  Window = 4
  Counts = {1, 2}
INVARIANT RangesStayMapped
CHECK_DEADLOCK FALSE
