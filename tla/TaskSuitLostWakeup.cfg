SPECIFICATION FairSpec
CONSTANTS
  Request <- MCKinds
  Kinds <- MCKinds
  Kind <- MCKind
  NoType = none
  MaxPosts = 2
  ReorderStores = FALSE
CHECK_DEADLOCK FALSE
PROPERTY AcceptedTaskStarts
