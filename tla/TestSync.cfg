SPECIFICATION TestSpec
CONSTANTS
  quantum = 1
  MaxPid = 6
  MaxPending = 2
  Targets = {}
  NiceLevels = {}
  MAX_SEMS = 7
  MaxOpens = 3
  sem_1 = sem_1
  SemNames = {sem_1}
  iterations = 2
INVARIANT ExpectedValueIsZero
