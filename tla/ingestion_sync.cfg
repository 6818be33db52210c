SPECIFICATION Spec
CONSTANTS
  o1 = o1
  o2 = o2
  o3 = o3
  t1 = t1
  t2 = t2
  Object <- MCObject
  Thread <- MCThread
  PageSize = 2
  MaxChanges = 2
  MaxRemovals = 1
  MaxSyncs = 2
  MaxWebhooks = 1
  MaxFaults = 2
SYMMETRY Symmetry
INVARIANTS
  TypeOK
  UntouchedAreCollected
  SeenIsPublished
CHECK_DEADLOCK FALSE
