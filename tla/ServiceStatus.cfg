SPECIFICATION DSSpec
CONSTANTS
  Request <- StatusRequests
  Kinds <- MCKinds
  Kind <- MCKind
  NoType = none
  j1 = j1
  Jobs = {j1}
  NoJob = j0
  Terminators = {t1, t2}
  MaxPosts = 2
  ReorderStores = TRUE
CHECK_DEADLOCK FALSE
SYMMETRY TerminatorSymmetry
INVARIANTS EndsEarlyOnlyIfTerminated DSTypeOK SingleTerminator NoStaleSuccess RunLeavesFree
