SPECIFICATION BeaconFairSpec
CONSTANTS
  Scans <- UserScans
  Receptions <- UserReceptions
  Tools = {"perf", "rf_tool"}
  Stops = {"scan"}
  Channels = 1
  Refuses = {"measure", "rx"}
  Exhausts = {"queue"}
  MaxCommands = 5
  BeaconSlots = 4
  BusySymbols <- ReservedSymbols
  Mixes = FALSE
INVARIANTS
  BeaconHeard
  BeaconOnAir
PROPERTIES
  StopEnds
CHECK_DEADLOCK FALSE
