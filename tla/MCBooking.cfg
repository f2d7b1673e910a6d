SPECIFICATION BookingFairSpec
CONSTANTS
  n = 3
  Tickets = 6
  Prompt = TRUE
INVARIANTS BothAgree
PROPERTIES EverybodyIsCalled
CHECK_DEADLOCK FALSE
