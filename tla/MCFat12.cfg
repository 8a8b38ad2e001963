SPECIFICATION FSpec
CONSTANTS
  NumTracks = 2
  RetryCount = 2
  Disks <- MCDisks
  Known <- MCKnown
  Garbage <- MCGarbage
INVARIANTS
  TypeOK
  ReadsWhatWasAsked
  FileInOrder
PROPERTY CommandEnds
CHECK_DEADLOCK FALSE
