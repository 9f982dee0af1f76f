CONSTANTS
  MaxActivations = 2
  MaxSeq = 2
  MaxManual = 1
  MaxGo = 0
  MaxWaits = 0
  MaxSignals = 0
  MaxUpdates = 0
  MaxJobs = 2
  Queries = {FALSE}
  None = None
SPECIFICATION FairSpec
INVARIANTS
  TypeOK
  OperationsTracked
PROPERTY ActivationEnds
CHECK_DEADLOCK FALSE
