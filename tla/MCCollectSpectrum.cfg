SPECIFICATION Spec
CONSTANTS
  Runs = {r1, r2}
  NoRun = none
PROPERTIES BusyMeansWaiting
CHECK_DEADLOCK FALSE
