\* Both rings wrap more than once while the submission ring is refilled.
SPECIFICATION FairSpec
CONSTANTS
  QLen = 3
  MaxCmds = 6
  MaxChunks = 1
  MaxWait = 2
  Outcomes = {TRUE}
  Calls = {"complete_io", "quick_poll"}
INVARIANTS
  CompletionsIntact
PROPERTIES
  SpinReturns
