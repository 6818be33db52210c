SPECIFICATION FairSpec
CONSTANTS
  p1 = p1
  p2 = p2
  c1 = c1
  c2 = c2
  None = None
  Partition <- TwoPartitions
  Consumer <- TwoConsumers
  MsgKind <- Decodable
  NumHandlers = 1
  MaxRetries = 2
  QueueMax = 1
  MaxMessages = 1
  MaxRaises = 1
  MaxEvictions = 1
  MaxDrops = 0
  MaxCrashes = 0

  
PROPERTIES
  Progress
CHECK_DEADLOCK FALSE
