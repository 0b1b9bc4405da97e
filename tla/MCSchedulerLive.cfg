SPECIFICATION LiveSpec
CONSTANTS
  quantum = 1
  MaxPid = 5
  MaxPending = 1
  Targets = {2, 4, 5}
  NiceLevels = {3}
PROPERTIES
  ReadyEventuallyRuns
  DeadStaysDead
  DeadNeverDispatched
  HighestReadyRuns
