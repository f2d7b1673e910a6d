SPECIFICATION FairSpec
CONSTANTS
  N = 2
  M = 2
  TOTAL <- OneEach
  R = 3
  MaxUnits = 1
  Timings = {TRUE}
PROPERTIES Terminates
CHECK_DEADLOCK FALSE
