SPECIFICATION FairSpec
CONSTANTS
  I32Max = 2147483
  OverflowChecks = FALSE
  Null = Null
  InitialSize = 1024
  SizeLimit = 10000000
  AllocLimit = 67108864
  NameService <- Said
INVARIANTS
  ClientSeesLastAnswer
  BufferIsExact
PROPERTIES
  RetriesEnd
