SPECIFICATION Spec
CONSTANTS
  Workers = {w1}
  Elsewhere = elsewhere
  Requests = {r1}
  Expiries = {1}
  Never = 4
  TTL = 1
  Latency = 1
  MaxTime = 3
  MaxInFlight = 1
  MaxChanges = 2
  MaxFaults = 1
INVARIANTS
  TypeOK
  StaleOnlyByRace
PROPERTIES
  AdmissionIsFresh
  PastDueIsFlipped
