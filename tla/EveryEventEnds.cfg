SPECIFICATION Spec
CONSTANTS
  Applications = {"RU"}
  FEDs = {f1}
  ThreadIds = {t1}
  Monitored = {}
  MaxReports = 1
  MaxPosted = 1
PROPERTIES EveryEventEnds
CHECK_DEADLOCK FALSE
