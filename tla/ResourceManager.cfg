CONSTANTS
  evm = evm
  ru1 = ru1
  EVM = evm
  RUs <- MCRUs
  NbResources = 2
  NumberOfBuilders = 1
  EventsPerRequest = 2
  MaxBlocks = 2
  MaxEvents = 2
  LocalInput = FALSE
SPECIFICATION FairSpec
INVARIANTS TypeOK ResourcesSafe CountersAddUp
PROPERTIES ImplementsCycle NothingStuck
