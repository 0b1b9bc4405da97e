SPECIFICATION SchedSpec
CONSTANTS
  quantum = 1
  MaxPid = 4
  MaxPending = 2
  Targets = {2, 3, 4}
  NiceLevels = {0, 1, 2, 3}
INVARIANTS
  SchedTypeOK
  OnlyCurrentRuns
  QueuesMatchPriorities
  FaultNeedsLostIdle
