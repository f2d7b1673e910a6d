SPECIFICATION FairSpec
CONSTANTS
  n = 3
  LastCell = 6
  Boards <- SomeBoards
  Lines <- SomeLines
INVARIANTS BoardIsStill
PROPERTIES Refines MoveAnswered EverybodyLeaves
CHECK_DEADLOCK FALSE
