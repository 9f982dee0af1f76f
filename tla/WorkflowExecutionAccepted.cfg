CONSTANTS
  MaxActivations = 1
  MaxSeq = 0
  MaxManual = 0
  MaxGo = 0
  MaxWaits = 0
  MaxSignals = 0
  MaxUpdates = 1
  MaxJobs = 0
  Queries = {TRUE, FALSE}
  None = None
SPECIFICATION Spec
INVARIANTS
  AcceptedHandlerRuns
CHECK_DEADLOCK FALSE
