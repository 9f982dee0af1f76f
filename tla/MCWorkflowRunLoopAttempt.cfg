CONSTANTS
  MaxActivations = 5
  Runs <- StartRuns
  Offers <- StartOffers
  Weight <- StartWeight
  MaxTasks = 2
  CoreSlots = 2
  None = None
SPECIFICATION UndisturbedSpec
INVARIANT AcceptedIsAttempted
CHECK_DEADLOCK FALSE
