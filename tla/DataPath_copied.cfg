\* write_copied of three pages.
SPECIFICATION Spec
CONSTANTS
  BufferSize = 2097152
  QLen = 4
  Slices <- LongCopies
  Lbas = {0}
  BlockSizes = {512}
  BatchLens = {1}
  MaxCalls = 1
  MaxFaults = 0
INVARIANTS
  CopiesExact
CHECK_DEADLOCK FALSE
