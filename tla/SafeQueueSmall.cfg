SPECIFICATION FairSpec
CONSTANTS
  Threads = {a, b, c}
  Puts <- PoolPuts
  Gets <- BothGets
  Modes <- AllModes
  Priorities <- TwoPriorities
  Limits = {1, 2}
  Controls <- AllControls
  MaxItems = 2
CHECK_DEADLOCK FALSE
INVARIANTS TypeOK Accounted InsertOrder PopperNotStranded PusherNotStranded
PROPERTIES LimitRespected StopWakes
