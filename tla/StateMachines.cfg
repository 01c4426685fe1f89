SPECIFICATION Spec
CONSTANTS
  Applications = {"BU", "RU", "FEROL"}
  FEDs = {f1, f2}
  ThreadIds = {t1, t2}
  Monitored = {"Release", "Throttle", "Pause"}
  MaxReports = 1
  MaxPosted = 1
INVARIANTS TypeOK StateTells
PROPERTY EventsGetThrough
CHECK_DEADLOCK FALSE
