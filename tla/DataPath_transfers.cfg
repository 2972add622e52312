\* All operations, one after the other, with the buffer of one 2 MiB page.
\* A process that panicked, or that waits for a dropped command, stops.
SPECIFICATION FairSpec
CONSTANTS
  BufferSize = 2097152
  QLen = 4
  Slices <- Calls
  Lbas = {0, 5}
  BlockSizes = {512, 4096}
  BatchLens = {2, 4}
  MaxCalls = 2
  MaxFaults = 1
INVARIANTS
  TypeOK
  WritesExact
  ReadsExact
  IndInv
PROPERTIES
  TransferReturns
CHECK_DEADLOCK FALSE
