SPECIFICATION Spec
CONSTANTS
  MAX_PHILOSOPHERS = 4
  MIN_PHILOSOPHERS = 1
  START_PHILOSOPHERS = 3
INVARIANT
  NeighboursDoNotEat
