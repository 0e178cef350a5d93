SPECIFICATION Spec
CONSTANTS
  Request <- MCKinds
  Kinds <- MCKinds
  Kind <- MCKind
  NoType = none
  MaxPosts = 3
  ReorderStores = TRUE
CHECK_DEADLOCK FALSE
INVARIANT AtMostOnceInOrder
