\* Creation and deletion of queue pairs with refused commands, failed
\* allocations and deaths of the process.  The client may stop calling.
SPECIFICATION FairSpec
CONSTANTS
  DoorbellQids = 3
  CtrlQids = 4
  MaxFaults = 3
  MaxCrashes = 1
  MaxRegions = 20
INVARIANTS
  TypeOK
  CtrlMemoryMapped
  PairsBacked
  IndInv
PROPERTIES
  AdminRegsStable
  OperationsReturn
CHECK_DEADLOCK FALSE
