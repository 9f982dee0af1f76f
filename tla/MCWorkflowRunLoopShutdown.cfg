CONSTANTS
  MaxActivations = 1
  Runs = {"r1"}
  Offers <- MCOffers
  Weight <- MCWeight
  MaxTasks = 2
  CoreSlots = 2
  None = None
SPECIFICATION Spec
INVARIANT DrivesAlone
CHECK_DEADLOCK FALSE
