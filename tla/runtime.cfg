CHECK_DEADLOCK FALSE
SPECIFICATION Spec
CONSTANTS
  Calls = {c1, c2}
  Ports = {7, 8}
  MaxPid = 2
  Threshold = 2
  MaxOps = 2
  MaxFaults = 3
INVARIANTS
  TypeOK
  Tracked
  StoppedIsQuiet
  StartingIsBusy
PROPERTY
  StatusCatchesUp
