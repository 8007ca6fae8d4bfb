SPECIFICATION Spec
CONSTANTS
  op1 = op1
  op2 = op2
  NoOp = NoOp
  Ops = {op1, op2}
  Conf <- PairOfIntervals
  Frames = {1}
  FrameLen = 8
  Margin = 0
  Window = 0
  MaxTrials = 2
  QCap = 3
  MayFail = {op2}
  BgScans = {op2}
  Shifts <- Later
  MaxTime = 4
  MaxCalls = 1
  KeepsUp = TRUE
INVARIANTS
  TypeOK
  ListOwnsHeap
  NoStall
  IntervalCount
  CancelledStaysOut
CHECK_DEADLOCK FALSE
