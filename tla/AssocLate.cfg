SPECIFICATION Spec
CONSTANTS
  ft1 = ft1
  ft2 = ft2
  NoId = NoId
  Fts = {ft1, ft2}
  MaxNbrs = 2
  Timely = FALSE
  KeepsUp = TRUE
  Clears = FALSE
  MaxRequests = 2
INVARIANTS
  TargetKnown
CHECK_DEADLOCK FALSE
