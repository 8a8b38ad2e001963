SPECIFICATION FairSpec
CONSTANTS
  kheapLock = kheapLock
  pagingLock = pagingLock
  CPUs = {0, 1}
  Locks = {kheapLock, pagingLock}
  Rank <- MCRank
INVARIANTS
  TypeOK
  MutualExclusion
  CriticalSectionNotInterrupted
  InterruptsRestored
PROPERTY LeafLockReleased
CHECK_DEADLOCK TRUE
