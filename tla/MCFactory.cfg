SPECIFICATION FairSpec
CONSTANTS
  n_workers <- NWorkers
  n_parts <- NParts
  part_worker_map <- Makers
  graph <- Needs
  Orders <- Ordered
INVARIANTS NoLostWakeup
PROPERTIES Refines Terminates
CHECK_DEADLOCK FALSE
