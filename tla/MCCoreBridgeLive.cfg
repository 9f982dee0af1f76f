CONSTANTS
  Pollers = {poll}
  Completers = {complete}
  Beaters = {}
  Maker = maker
  Stopper = stopper
  MaxRPC = 2
  MaxInFlight = 2
  ResponseCap = 1
  Faults = {"panic"}
  None = None
SPECIFICATION FairSpec
PROPERTIES
  ClosingEndsAll
  CompletionEnds
CHECK_DEADLOCK FALSE
