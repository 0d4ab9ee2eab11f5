CHECK_DEADLOCK FALSE
SPECIFICATION Spec
CONSTANTS
  Procs = {p1, p2}
  Bad = {1}
  MaxChanges = 2
  MaxFaults = 1
  MaxBus = 1
  MaxWire = 1
INVARIANTS
  TypeOK
  NoSilentGap
PROPERTY
  Converges
