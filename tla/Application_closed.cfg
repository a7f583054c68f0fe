SPECIFICATION Spec
CONSTANTS
  j1 = j1  j2 = j2
  Jobs = {j1, j2}
  StartBlock = 0
  NoBlock = NoBlock
  MaxBlock = 1
  MaxFaults = 1
SYMMETRY Symmetry
INVARIANT ResourcesClosedOnExit
CHECK_DEADLOCK FALSE
