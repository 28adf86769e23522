SPECIFICATION FairSpec
CONSTANTS
  Uris <- MCUris
  Sizes = {0, 1, 3, 5, 9}
  INT_MAX = 3
PROPERTIES
  HangUpsAreDone
CHECK_DEADLOCK FALSE
