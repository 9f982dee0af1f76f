CONSTANTS
  MaxActivations = 3
  MaxSeq = 0
  MaxManual = 1
  MaxGo = 1
  MaxWaits = 2
  MaxSignals = 2
  MaxUpdates = 2
  MaxJobs = 0
  Queries = {TRUE, FALSE}
  None = None
SPECIFICATION Spec
INVARIANTS
  NothingLeftToRun
  SignalsDeliveredOnce
  UpdatesFirst
  TerminalIsLast
  AcceptedIsPending
CHECK_DEADLOCK FALSE
