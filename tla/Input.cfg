CONSTANTS
  FEDs = {1, 2}
  Units <- MCUnits
  FIFOCapacity = 1
  MaxEventNumber = 3
  LastTrigger = 4
  Resyncs = {{}, {4}}
  Faults = {"lost", "repeated", "corrupted", "garbled"}
  MaxFaults = 2
  SpareMaster = TRUE
SPECIFICATION FairSpec
INVARIANTS TypeOK ResyncRestoresAll
PROPERTIES SuperFragmentsRight AllBuilt
CHECK_DEADLOCK FALSE
