SPECIFICATION MCSpec
CONSTANTS
  Clients = {c1, c2}
  Nobody = nobody
  MaxLines = 1
  Fds = {4, 5}
  Limits = {5, 6}
  NTHREADS = 2
  Sizes = {1, 2}
  LONG_BITS = 6
  MAX_LOG = 2
  MAXTHREADS = 3
INVARIANTS
  TypesOK
  CountIsExact
  HandedToOneThread
  SemaphoresAreExact
  VerdictIsRight
PROPERTIES
  KeepsThePromise
  EveryClientIsServed
CHECK_DEADLOCK FALSE
