SPECIFICATION MCSpec
CONSTANTS
  Producers = {p1, p2, p3, p4, p5}
  Consumers = {c1, c2}
  PRODUCTS = 20
  Hands = {h1, h2}
  Main = main
  Items = 2
  ProducePause = 1
  ConsumePause = 2
  TerminateAfter = 3
  ExitAfter = 2
  \* Anybody may be late: no order of the steps rests on the durations.
  Punctual = FALSE
  Requests = {r1, r2, r3}
  Workers = {w1}
  Clients = {k1, k2}
  Nil = nil
INVARIANTS
  TypesOK
  NotAllAsleep
  SleepersAreSurplus
PROPERTIES
  CondEnds
  JobsAreRun
  RequestsAreAnswered
  LeaversAreRemoved
CHECK_DEADLOCK FALSE
