SPECIFICATION SemaphoreSpec
CONSTANTS
  quantum = 1
  MaxPid = 6
  MaxPending = 2
  Targets = {4, 5, 6}
  NiceLevels = {}
  MAX_SEMS = 7
  MaxOpens = 3
  SemNames = {mutex}
  mutex = mutex
INVARIANTS KernelTypeOK WaitersKeepTheirSlot MutualExclusion NoLostWakeup
