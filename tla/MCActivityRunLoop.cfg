CONSTANTS
  MaxPolled = 3
  Tokens <- MCTokens
  Offers <- MCOffers
  Weight <- MCWeight
  MaxActivities = 2
  CoreSlots = 3
  None = None
SPECIFICATION Spec
INVARIANTS
  TypeOK
  OneTerminalCompletion
  NoHeartbeatAfterTerminal
  ExecutionsAccounted
  FinishedIsQuiet
CHECK_DEADLOCK FALSE
