\* The buffer of one 4 KiB page.
SPECIFICATION Spec
CONSTANTS
  BufferSize = 4096
  QLen = 4
  Slices <- Copies
  Lbas = {0}
  BlockSizes = {512}
  BatchLens = {1}
  MaxCalls = 1
  MaxFaults = 0
INVARIANTS
  NoPanic
CHECK_DEADLOCK FALSE
