SPECIFICATION FairPingSpec
CONSTANTS
  Pings = 2
  MaxTroubles = 1
  Backlog = 1
  MaxCommands = 3
INVARIANTS
  ServerListens
  ToolAgrees
  InStep
PROPERTIES
  PingEnds
CHECK_DEADLOCK FALSE
