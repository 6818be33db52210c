SPECIFICATION Spec
CONSTANTS
  n1 = n1
  n2 = n2
  e1 = e1
  Node <- MCNode
  Edge <- MCEdge
  Risk <- MCRisk
  InterruptAt = 2
  Malformed = Malformed
  MaxRetries = 2
  Reasonings <- MCReasonings
  MaxReasonings = 2
  MaxActions = 2
  MaxFaults = 1
  MaxCrashes = 0
INVARIANTS
  TypeOK
  BundlesDisjoint
PROPERTIES
  FeedRiskFrozen
  AckedStaysSilent
CHECK_DEADLOCK FALSE
