\* One BU with two resources; the queues hold one element.
CONSTANTS
  NbRUs = 1
  NbBUs = 1
  Resources <- MCResources
  EventsPerRequest = 2
  NumberOfBuilders = 1
  NumberOfResponders = 2
  AllocateFIFOCapacity = 1
  FragmentRequestFIFOCapacity = 1
  SuperFragmentFIFOCapacity = 1
  AllocateBlockSize = 4
  MaxPosted = 1
  MaxEvents = 3
SPECIFICATION Spec
INVARIANTS TypeOK OrderKept
PROPERTY EveryEventBuilt
CHECK_DEADLOCK FALSE
