SPECIFICATION FairSpec
CONSTANTS
  n1 = n1
  n2 = n2
  e1 = e1
  Node <- MCNode
  Edge <- MCEdge
  Risk <- MCRisk
  InterruptAt = 2
  Malformed = Malformed
  MaxRetries = 2
  Reasonings <- MCReasoningsHigh
  MaxReasonings = 2
  MaxActions = 1
  MaxFaults = 0
  MaxCrashes = 2
PROPERTIES
  
  EverythingHandled
CHECK_DEADLOCK FALSE
