\* Rings of three slots, both outcomes, several completions at a time.
SPECIFICATION Spec
CONSTANTS
  QLen = 3
  MaxCmds = 5
  MaxChunks = 2
  MaxWait = 2
  Outcomes = {TRUE, FALSE}
  Calls = {"complete_io", "quick_poll", "quick_poll_result"}
INVARIANTS
  TypeOK
  SubmissionsIntact
  EntryIsAwaited
  OutstandingExact
  DrainedIsEmpty
  FullOnlyWhenBusy
  IndInv
PROPERTIES
  FailureReported
  ImplementsChannel
