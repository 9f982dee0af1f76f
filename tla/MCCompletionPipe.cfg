CONSTANTS
  Tickets <- MCTickets
  Weight <- MCWeight
  NilSubmit <- MCNilSubmit
  LimitArg = 2
  ItemsOption = 3
  WeightOption = 4
  NoOption = NoOption
SPECIFICATION FairSpec
INVARIANTS
  TypeOK
  CountersMatch
  WorkConserving
  ChannelsConsistent
  WeightMatches
PROPERTIES
  KeepsPromise
  AcceptedIsReleased
CHECK_DEADLOCK FALSE
