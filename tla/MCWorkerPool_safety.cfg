SPECIFICATION Spec
CONSTANTS
  Requests = {r1, r2, r3}
  Workers = {w1, w2}
  Nobody = nobody
  MaxQueue = 1
  LoopVar = "perIteration"
  MaxStops = 1
INVARIANTS
  ClaimsExact
PROPERTIES
  RunsJobsOnce
SYMMETRY Symmetry
CHECK_DEADLOCK FALSE
