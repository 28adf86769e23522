SPECIFICATION Spec
CONSTANTS
  Clients = {c1, c2, c3}
  Names = {n1}
  Nil = nil
  MaxCmds = 1
  Window = 1
SYMMETRY ClientSymmetry
INVARIANTS
  BroadcastReachesAll
CHECK_DEADLOCK FALSE
