CONSTANTS
  MaxPolled = 2
  Tokens <- MCTokens
  Offers <- MCOffers
  Weight <- MCWeight
  MaxActivities = 2
  CoreSlots = 2
  None = None
SPECIFICATION FairSpec
PROPERTIES
  DrainFinishes
  GoroutinesLeave
CHECK_DEADLOCK FALSE
