SPECIFICATION Spec
CONSTANTS
  op1 = op1
  op2 = op2
  NoOp = NoOp
  Ops = {op1, op2}
  Conf <- PairOfIntervals
  Frames = {1}
  FrameLen = 8
  Margin = 0
  Window = 0
  MaxTrials = 2
  QCap = 3
  MayFail = {op2}
  BgScans = {op2}
  Shifts = {}
  MaxTime = 3
  MaxCalls = 0
  KeepsUp = FALSE
INVARIANTS
  CancelledStaysOut
CHECK_DEADLOCK FALSE
