SPECIFICATION FairSpec
CONSTANTS
  Clients = {c1, c2}
  Nobody = nobody
  MaxLines = 1
  Fds = {4, 5}
  Programs = {"echo1", "echo2", "echo3", "echo5"}
  Limits = {5, 6}
  MaxTyped = 2
INVARIANTS
  TypeOK
  EachItsOwnConnection
  NoZombieForgotten
PROPERTIES
  KeepsThePromise
  HangUpIsAnswered
  StdinIsWorkedOff
CHECK_DEADLOCK FALSE
