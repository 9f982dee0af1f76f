CONSTANTS
  Callers = {c1, c2}
  Maker = maker
SPECIFICATION FairSpec
INVARIANTS
  TypeOK
  CoreUpWhileHeld
  EveryoneHears
  NoCoreLeft
PROPERTIES
  CallsReturn
CHECK_DEADLOCK FALSE
