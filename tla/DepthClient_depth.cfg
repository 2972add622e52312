\* Both clients, at the largest depth the ring allows.
\* A client that has ended stops.
SPECIFICATION ClientSpec
CONSTANTS
  QLen = 3
  MaxCmds = 6
  MaxChunks = 1
  MaxWait = 2
  Outcomes = {TRUE, FALSE}
  Calls = {"complete_io", "quick_poll", "quick_poll_result"}
  Depth = 2
INVARIANTS
  WaitsCovered
  EveryRequestPushed
  TotalsExact
  FailureStops
  ClientInv
PROPERTIES
  ClientEnds
CHECK_DEADLOCK FALSE
