CONSTANTS
  NumberOfBuilders = 2
  MaxEventsPerFile = 2
  FileStatisticsFIFOCapacity = 3
  EventsPerRequest = 2
  MaxRequests = 2
  MaxEvents = 2
  MaxLumi = 2
SPECIFICATION FairSpec
INVARIANTS TypeOK AccountsSafe ReportsSafe
PROPERTY NothingWaits
CHECK_DEADLOCK FALSE
