SPECIFICATION FairSpec
CONSTANTS
  j1 = j1  j2 = j2
  Jobs = {j1, j2}
  StartBlock = 0
  NoBlock = NoBlock
  MaxBlock = 1
  MaxFaults = 2
INVARIANTS
  TypeOK
  NoLiveJobOnClosedDatabase
  QuietReturnLeavesNoJob
PROPERTIES
  ProgressResumed
  FailureEndsApplication
  InterruptStopsProcess
CHECK_DEADLOCK FALSE
