SPECIFICATION FairSpec
CONSTANT procCount = 4
INVARIANTS
  TypeOK
  BootCodeUsedByOne
  TicksFindTheirThread
PROPERTY BootCompletes
CHECK_DEADLOCK FALSE
