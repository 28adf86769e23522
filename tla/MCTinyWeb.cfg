SPECIFICATION Spec
CONSTANTS
  Uris <- MCUris
  Sizes = {0, 1, 3, 5, 9}
  INT_MAX = 3
INVARIANTS
  TypeOK
  ResponseIsWhole
  LengthIsKept
  EndsForAReason
CHECK_DEADLOCK FALSE
