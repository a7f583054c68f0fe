SPECIFICATION Spec
CONSTANTS
  i1 = i1  i2 = i2  v1 = v1  v2 = v2
  Indices = {i1, i2}
  Values = {v1, v2}
  Empty = Empty
  NoIndex = NoIndex
  StartBlock = 1
  Mode = "ws"
  MaxBlocksDistance = 2
  TwoTo64 = 256
  MaxHeight = 6
  MaxLogs = 3
  MaxStops = 2
SYMMETRY Symmetry
INVARIANTS
  TypeOK
  ServedIsNewestCommitted
  ResumeIsAccepted
  LoopSubscriptionMissesNothing
PROPERTIES
  RegressLosesNothing
CHECK_DEADLOCK FALSE
