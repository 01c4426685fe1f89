\* Two topics for one record, and one run.  The times of a topic are bounded,
\* so that DIP is quiet in the end.
CONSTANTS
  Partitions = {"tracker"}
  MaskedTopics = {"beamSpot", "ctpps"}
  MaxTime = 2
  MaxStarts = 1
SPECIFICATION Spec
INVARIANTS TypeOK DataAtHand
PROPERTY NewsInOrder
CHECK_DEADLOCK FALSE
