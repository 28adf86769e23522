SPECIFICATION Spec
CONSTANTS
  Requests = {r1, r2}
  Workers = {w1, w2}
  Nobody = nobody
  MaxQueue = 1
  LoopVar = "perLoop"
  MaxStops = 0
INVARIANTS
  NoJobIsLost
CHECK_DEADLOCK FALSE
