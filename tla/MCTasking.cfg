SPECIFICATION FairSpec
CONSTANTS
  Threads = {m, w1, w2, w3}
  Main = m
  Null = null
  MaxDepth = 2
INVARIANTS
  TypeOK
  ListIntact
  NoThreadLost
PROPERTIES
  SwitchesToLiveThreads
  EveryThreadRuns
  ImplementsRoundRobin
CHECK_DEADLOCK FALSE
