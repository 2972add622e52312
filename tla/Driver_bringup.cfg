\* Two threads, two devices in one group, one without an IOMMU, one of another
\* class.  Threads may stop initialising devices.
SPECIFICATION DriverSpec
CONSTANTS
  NoThread = "nobody"
  d1 = d1
  d2 = d2
  d3 = d3
  d4 = d4
  Threads = {"t1", "t2"}
  IommufdUsers = {"t2"}
  Devices = {d1, d2, d3, d4}
  Controllers = {d1, d2, d3}
  iommu_group <- OneGroup
  Width <- Intel
  Viable = {1}
  Stub = {d3}
  Vfio0 = d1
  Pages = {"4K", "2M"}
  MaxInits = 2
  MaxRefusals = 1
  Layouts <- TwoNamespaces
  Words <- ControllerWords
  ListLen = 3
  Format0 <- FirstFormats
  MaxRefused = 1
  MaxUses = 2
INVARIANTS
  TypeOK
  ObjectsUsable
  TakerGoesOn
  NamespacesExact
  
  IndInv
PROPERTIES
  InitReturns
CHECK_DEADLOCK FALSE
