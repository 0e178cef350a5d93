SPECIFICATION FairSpec
CONSTANTS
  Names = {"main", "lib"}
  Archives <- SomeArchives
  MaxUpdates = 3
  MaxFaults = 2
CHECK_DEADLOCK FALSE
INVARIANTS TypeOK SuccessInstalls CompleteSomewhere
PROPERTIES RetrySucceeds
