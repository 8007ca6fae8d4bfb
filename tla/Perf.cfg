SPECIFICATION FairPerfSpec
CONSTANTS
  Processes = 2
  Window = 2
  LastHandle = 5
  MaxTime = 3
  MaxTroubles = 1
  Backlog = 1
  MaxCommands = 2
INVARIANTS
  ClientDriven
  TxApart
  ServerListens
  ToolAgrees
PROPERTIES
  PerfEnds
CHECK_DEADLOCK FALSE
