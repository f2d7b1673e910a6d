SPECIFICATION Spec
CONSTANTS
  WIDTH = 3
  HEIGHT = 3
  PAGE_SIZE = 4
  OUTPUT_OFFSET = 72
  PT_SIZE = 30
  PTR = 2
  Radii = {0, 1, 2}
  Frames = {1, 2, 3, 5, 8}
INVARIANTS ImagesApart
PROPERTY Refines
CHECK_DEADLOCK FALSE
