SPECIFICATION FairSpec
CONSTANTS
  Instances = {m1, m2}
  Getters = {g1}
  lengthQueueMax = 2
  MaxMessages = 3
CHECK_DEADLOCK FALSE
INVARIANTS TypeOK PermitsBalance Accounted GotInOrder GetterNotStranded AtMostOneLeftBehind
PROPERTIES DestructorEnds
