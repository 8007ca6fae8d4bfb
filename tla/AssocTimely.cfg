SPECIFICATION Spec
CONSTANTS
  ft1 = ft1
  ft2 = ft2
  NoId = NoId
  Fts = {ft1, ft2}
  MaxNbrs = 2
  Timely = TRUE
  KeepsUp = TRUE
  Clears = TRUE
  MaxRequests = 3
INVARIANTS
  TypeOK
  UniqueTargets
  WaitTimed
  ScansAgree
  TargetKnown
PROPERTIES
  RefinesAssociation
CHECK_DEADLOCK FALSE
