SPECIFICATION FairSpec
CONSTANTS
  NThreads = 3
  None = None
INVARIANTS
  TypeOK
  ExitRecorded
  ResultOfRecorded
  RestIsEveryOther
  JoinNeedsNoLock
PROPERTIES
  FirstExitKept
  ExitIsNoticed
