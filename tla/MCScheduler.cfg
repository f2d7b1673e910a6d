SPECIFICATION FairSpec
CONSTANTS
  Arrival <- Arrivals
  Priority <- Priorities
  Quantum <- Quanta
  Workloads <- Both
  S = 3
  MaxTime = 30
INVARIANTS OneRunner ReadyIsQueued SignalIsFresh QueuedOnce GlobalTime
PROPERTIES Refines Terminates
CHECK_DEADLOCK FALSE
