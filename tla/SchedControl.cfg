SPECIFICATION FairSpec
CONSTANTS
  op1 = op1
  op2 = op2
  NoOp = NoOp
  Ops = {op1, op2}
  Conf <- TwoShots
  Frames = {0, 1}
  FrameLen = 8
  Margin = 0
  Window = 0
  MaxTrials = 2
  QCap = 2
  MayFail = {op1}
  BgScans = {}
  Shifts = {}
  MaxTime = 2
  MaxCalls = 1
  KeepsUp = FALSE
INVARIANTS
  CompletedOnce
  FrameSorted
PROPERTIES
  CompletionComes
  RefinesOpLife
CHECK_DEADLOCK FALSE
