SPECIFICATION FairSpec
CONSTANTS
  Agents = {a, b}
  None = None
  Records = 2
  MaxCalls = 3
  MaxFaults = 2
CHECK_DEADLOCK FALSE
INVARIANTS
  OwnAnswer
  OneDaemon
PROPERTIES
  OutputSafe
  CallsReturn
