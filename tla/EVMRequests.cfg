\* One resource for each builder unit; only the second one asks less urgently.
SPECIFICATION FairHistorySpec
CHECK_DEADLOCK FALSE
CONSTANTS
  NbBUs = 2
  R1 = r1
  R2 = r2
  Resources = {r1, r2}
  Owner <- MCOwner
  LowestPriority = 1
  PrioritiesOf <- MCPrioritiesOf
  Capacity = 2
  EventsPerRequest = 2
  P1 = p1
  P2 = p2
  Responders <- MCResponders
  EventsPerRun = 2
  EventsPerLumi = 1
  MaxRuns = 1
  MayHalt = TRUE
  MayPause = FALSE
  Watched = 2
INVARIANTS TypeOK RequestsFindRoom RUsAreToldInOrder NothingLost
PROPERTY RequestsServed
