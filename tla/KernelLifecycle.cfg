SPECIFICATION LifecycleSpec
CONSTANTS
  quantum = 1
  MaxPid = 5
  MaxPending = 2
  Targets = {4, 5}
  NiceLevels = {}
  MAX_SEMS = 6
  MaxOpens = 3
  SemNames = {}
INVARIANTS ForegroundLives NoMissedExit
PROPERTIES WaitpidReapsFinished SchedSpec
