CONSTANTS
  MaxActivations = 3
  Runs = {"r1"}
  Offers <- MCOffers
  Weight <- MCWeight
  MaxTasks = 2
  CoreSlots = 3
  None = None
SPECIFICATION FairSpec
INVARIANTS
  TypeOK
  LaneHeldUntilSubmitted
  LanesAccounted
  FinishedIsQuiet
  NoExecutionLost
PROPERTIES
  DrainFinishes
CHECK_DEADLOCK FALSE
