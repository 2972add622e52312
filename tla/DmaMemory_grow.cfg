\* The page size is enlarged while memory is held.
SPECIFICATION Spec
CONSTANTS
  Space = 8
  PageSizes = {1, 2}
  Sizes = {1, 2, 3}
  MaxAllocs = 4
  MaxRefusals = 0
  Page2M = 2
  Backends = {"vfio"}
  Narrow = {FALSE}
  GrowWhileHeld = TRUE
INVARIANTS
  HeldMemoryIntact
CHECK_DEADLOCK FALSE
