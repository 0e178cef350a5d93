SPECIFICATION Spec
CONSTANTS
  MaxRuns = 2
  metrial_number = 1
  DownLimit = 1
  RunLimit = 2
  DownloadResults <- AsBuilt
CHECK_DEADLOCK FALSE
INVARIANT LastMessageCleans
