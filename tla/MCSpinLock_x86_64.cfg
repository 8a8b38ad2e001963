SPECIFICATION Spec
CONSTANTS
  pagingLock = pagingLock
  CPUs = {0, 1}
  Locks = {pagingLock}
  Rank <- MCRank
INVARIANT InterruptsRestored
CHECK_DEADLOCK FALSE
