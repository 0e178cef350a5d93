SPECIFICATION DSFairSpec
CONSTANTS
  Request <- OneJob
  Kinds <- MCKinds
  Kind <- MCKind
  NoType = none
  j1 = j1
  Jobs = {j1}
  NoJob = j0
  Terminators = {t1}
  MaxPosts = 1
  ReorderStores = FALSE
CHECK_DEADLOCK FALSE
PROPERTY TerminateResumes
