SPECIFICATION FairSpec
CONSTANTS
  NWorkers = 1
  Conn = {c1, c2, c3}
  None = None
PROPERTIES
  BacklogDrains
  IdleWorkersFinish
