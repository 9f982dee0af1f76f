CONSTANTS
  Pollers = {poll}
  Completers = {complete}
  Beaters = {beat}
  Maker = maker
  Stopper = stopper
  MaxRPC = 2
  MaxInFlight = 1
  ResponseCap = 1
  Faults = {"panic", "request", "response", "core", "context"}
  None = None
SPECIFICATION Spec
INVARIANTS
  TypeOK
  InFlightMatches
  NoWakeMissed
  PollsMatch
PROPERTIES
  NothingAfterTheEnd
CHECK_DEADLOCK FALSE
