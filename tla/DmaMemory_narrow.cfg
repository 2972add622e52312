\* 2 MiB pages for a 39 bit IOMMU.
SPECIFICATION Spec
CONSTANTS
  Space = 8
  PageSizes = {2}
  Sizes = {1, 2, 3}
  MaxAllocs = 3
  MaxRefusals = 0
  Page2M = 2
  Backends = {"vfio"}
  Narrow = {TRUE}
  GrowWhileHeld = FALSE
INVARIANTS
  FailsOnlyIfRefused
CHECK_DEADLOCK FALSE
