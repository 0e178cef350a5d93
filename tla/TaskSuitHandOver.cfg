SPECIFICATION FairSpec
CONSTANTS
  Request <- MCKinds
  Kinds <- MCKinds
  Kind <- MCKind
  NoType = none
  MaxPosts = 3
  ReorderStores = FALSE
CHECK_DEADLOCK FALSE
INVARIANTS TypeOK NothingLost RunsWithItsType
PROPERTIES SlotSpec NotifiedTaskStarts StopReachesWaiter
