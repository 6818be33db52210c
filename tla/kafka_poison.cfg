SPECIFICATION FairSpec
CONSTANTS
  p1 = p1
  p2 = p2
  c1 = c1
  c2 = c2
  None = None
  Partition <- OnePartition
  Consumer <- TwoConsumers
  MsgKind <- AnyKind
  NumHandlers = 1
  MaxRetries = 2
  QueueMax = 2
  MaxMessages = 2
  MaxRaises = 0
  MaxEvictions = 0
  MaxDrops = 0
  MaxCrashes = 0
PROPERTIES
  NeverBlocked
CHECK_DEADLOCK FALSE
