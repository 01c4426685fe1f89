CONSTANTS
  a = a
  b = b
  raw = raw
  http1 = http1
  Element <- MCElement
  Raw <- MCRaw
  Capacities <- MCCapacities
  Printers = {http1}
  MaxPrints = 1
SPECIFICATION FairSpec
INVARIANTS TypeOK SlotsSafe
PROPERTIES ImplementsFIFO OperationsEnd
