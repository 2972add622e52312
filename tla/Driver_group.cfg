\* One thread, two devices of one group.
SPECIFICATION DriverSpec
CONSTANTS
  NoThread = "nobody"
  d1 = d1
  d2 = d2
  d3 = d3
  d4 = d4
  Threads = {"t1"}
  IommufdUsers = {}
  Devices = {d1, d2}
  Controllers = {d1, d2}
  iommu_group <- OneGroup
  Width <- Intel
  Viable = {1}
  Stub = {}
  Vfio0 = d1
  Pages = {"2M"}
  MaxInits = 2
  MaxRefusals = 0
  Layouts <- TwoNamespaces
  Words <- ControllerWords
  ListLen = 3
  Format0 <- FirstFormats
  MaxRefused = 0
  MaxUses = 0
PROPERTIES
  FailsOnlyIfRefused
CHECK_DEADLOCK FALSE
