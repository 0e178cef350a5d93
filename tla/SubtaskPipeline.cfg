SPECIFICATION FairSpec
CONSTANTS
  MaxRuns = 2
  metrial_number = 2
  DownLimit = 1
  RunLimit = 2
  DownloadResults <- AnyResult
CHECK_DEADLOCK FALSE
INVARIANTS TypeOK RepliesTellStage
PROPERTIES MessageEnds FlaggedRunEnds
