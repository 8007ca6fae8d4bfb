SPECIFICATION FairSpec
CONSTANTS
  Jobs = {"hello_tx", "hello_rx", "ping_client", "ping_server", "mac_send"}
  Refused = {"init", "configure", "activate", "rx", "deactivate", "deinit"}
  Failed = {}
  Restarts = FALSE
  MaxStarts = 3
INVARIANTS
  SessionsExclude
  OwnCompletion
PROPERTIES
  StopStops
  OpenReturns
CHECK_DEADLOCK FALSE
