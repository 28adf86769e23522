SPECIFICATION Spec
CONSTANTS
  Clients = {c1}
  Names = {n1, n2}
  Nil = nil
  MaxCmds = 3
  Window = 1
INVARIANTS
  NameIsSendersChoice
CHECK_DEADLOCK FALSE
