SPECIFICATION FairRfSpec
CONSTANTS
  Frames = 2
  Intervals = 2
  MaxTroubles = 1
  Backlog = 1
  MaxStrays = 2
  MaxCommands = 4
INVARIANTS
  Driven
  OneInterval
  ToolAgrees
PROPERTIES
  RunEnds
CHECK_DEADLOCK FALSE
