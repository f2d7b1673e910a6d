SPECIFICATION Spec
CONSTANTS
  Blocks = {b1, b2, b3, b4}
  b1 = b1
  b2 = b2
  b3 = b3
  b4 = b4
  ROOT_BLOCK = root
  NIL = nil
  NOWHERE = nowhere
  EntriesPerBlock = 3
  Names = {"a", "b"}
  HdFiles <- SomeFiles
  Paths <- SomePaths
  MaxEntries = 5
  MaxCrashes = 1
SYMMETRY Symmetry
INVARIANTS OneOwner CountExact NothingLeaked StaysOnDisk
PROPERTIES Refines
CHECK_DEADLOCK FALSE
