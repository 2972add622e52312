\* Both backends; the page size is not enlarged while memory is held.
\* A caller may stop allocating.
SPECIFICATION Spec
CONSTANTS
  Space = 8
  PageSizes = {1, 2, 4}
  Sizes = {1, 2, 3}
  MaxAllocs = 3
  MaxRefusals = 1
  Page2M = 2
  Backends = {"vfio", "physical"}
  Narrow = {TRUE, FALSE}
  GrowWhileHeld = FALSE
INVARIANTS
  TypeOK
  HeldMemoryIntact
  NoWindowToFreed
  IndInv
PROPERTIES
  ImplementsPool
CHECK_DEADLOCK FALSE
