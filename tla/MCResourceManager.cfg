SPECIFICATION Spec
CONSTANTS
  N = 3
  M = 1
  TOTAL <- TwoOfOne
  R = 2
  MaxUnits = 1
  Timings = {TRUE, FALSE}
INVARIANTS RequestStands GrantIsHeard PlansStayValid NobodyWaitsInVain DetectionExact AckIsHeard WokenMeansGranted
PROPERTIES Refines
CHECK_DEADLOCK FALSE
