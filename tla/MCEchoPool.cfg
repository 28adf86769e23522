SPECIFICATION MCSpec
CONSTANTS
  Clients = {c1, c2, c3}
  Nobody = nobody
  MaxLines = 1
  LISTENFD = 3
  FD_SETSIZE = 6
  Fds = {4, 5}
  Callers = {c1, c2}
  Limits = {5, 6}
  MAX_EVENTS = 2
INVARIANTS
  TypesOK
  PoolIsExact
  NReadyIsExact
  ReadsFindInput
  EventsAreCurrent
  NoEdgeIsLost
PROPERTIES
  EverybodyHasATurn
  EverybodyIsAnswered
CHECK_DEADLOCK FALSE
