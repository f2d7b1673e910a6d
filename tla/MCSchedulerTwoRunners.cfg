SPECIFICATION Spec
CONSTANTS
  Arrival <- Arrivals
  Priority <- Priorities
  Quantum <- Quanta
  Workloads <- Overlap
  S = 3
  MaxTime = 16
INVARIANTS TimerNamesRunner
CHECK_DEADLOCK FALSE
