SPECIFICATION Spec
CONSTANTS
  Sizes = {40, 7168}
  MaxLive = 3
  MaxCalls = 8
INVARIANT ListedAreHoles
CHECK_DEADLOCK FALSE
