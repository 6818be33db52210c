SPECIFICATION Spec
CONSTANTS
  inc = inc
  svc = svc
  w1 = w1
  w2 = w2
  Unset = Unset
  Key <- MCKey
  EdgeType <- MCEdgeType
  Value = {1, 2, 3}
  Confidence = {1, 2}
  Hops = 1
  Worker <- MCWorker
  Batches <- MCBatches
  ReasonAt = 2
  MaxRetries = 2
  MaxBatches = 2
  MaxFaults = 2
  MaxEvictions = 1
SYMMETRY Symmetry
INVARIANTS
  TypeOK
  Converges
  LatestWins
  
  
CHECK_DEADLOCK FALSE
