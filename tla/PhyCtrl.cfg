SPECIFICATION FairSpec
CONSTANTS
  Scans <- AllScans
  Receptions <- AllReceptions
  Tools = {"perf", "ping"}
  Stops = {"rx", "scan"}
  Channels = 2
  Refuses = {"measure"}
  Exhausts = {"heap"}
  MaxCommands = 3
INVARIANTS
  TypeOK
  OneStep
  ToolHeard
PROPERTIES
  VerdictHasData
  CommandsEnd
CHECK_DEADLOCK FALSE
