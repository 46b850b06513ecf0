SPECIFICATION PoliteClientsSpec
CONSTANTS
  NWorkers = 1
  Conn = {c1, c2}
  None = None
PROPERTIES
  TimeoutKillsProcess
