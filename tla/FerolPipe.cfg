\* Three buffers are as many as one event and the half of another can take.
CONSTANTS
  b1 = b1  b2 = b2  b3 = b3
  NbStreams = 2
  Split = {1}
  KeepAside = {2}
  Buffers <- MCBuffers
  SocketFIFOCapacity = 1
  FragmentFIFOCapacity = 1
  GrantFIFOCapacity = 3
  MaxTriggers = 2
  MaxStarts = 1
  MaxHalts = 1
SPECIFICATION Spec
INVARIANTS TypeOK BuffersConserved
PROPERTY NothingLeftBehind
CHECK_DEADLOCK FALSE
SYMMETRY BufferNames
