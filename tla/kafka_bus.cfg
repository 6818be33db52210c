SPECIFICATION Spec
CONSTANTS
  p1 = p1
  p2 = p2
  c1 = c1
  c2 = c2
  None = None
  Partition <- OnePartition
  Consumer <- TwoConsumers
  MsgKind <- AnyKind
  NumHandlers = 2
  MaxRetries = 2
  QueueMax = 1
  MaxMessages = 2
  MaxRaises = 1
  MaxEvictions = 1
  MaxDrops = 1
  MaxCrashes = 1
INVARIANTS
  TypeOK
  CommittedIsSettled
  SettledInOrder
PROPERTIES
  ImplementsAtLeastOnce
CHECK_DEADLOCK FALSE
