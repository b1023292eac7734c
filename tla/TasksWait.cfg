CONSTANTS
  NR_TASKS = 4
  PRIORITY_MAX = 3
  TIMECLOCK = 1
SPECIFICATION MCSpec
INVARIANTS TypeOK RunningHasTime RetIsOwn BoundedWait
PROPERTIES FairCharging NoStarvation
CHECK_DEADLOCK FALSE
