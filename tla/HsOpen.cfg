SPECIFICATION FairSpec
CONSTANTS
  Jobs = {"hello_tx"}
  Refused = {}
  Failed = {"init"}
  Restarts = FALSE
  MaxStarts = 1
PROPERTIES
  OpenReturns
CHECK_DEADLOCK FALSE
