SPECIFICATION Spec
CHECK_DEADLOCK FALSE
CONSTANTS
  LogQueueSize = 2
  CriticalWait = 2
  Wrap = 5
  Jump = 2
  MaxEvents = 6
INVARIANTS NothingVanishes PrintedInOrder ReportsAreTrue
PROPERTIES EventsArePrinted CriticalComesBack
