SPECIFICATION Spec
CONSTANTS
  I32Max = 127
  OverflowChecks = FALSE
  Environment <- Environments
  ParseUsize <- Numbers
INVARIANTS
  ConfigIsExact
  DaemonCanServe
  IgnoredDatabaseIsSilent
