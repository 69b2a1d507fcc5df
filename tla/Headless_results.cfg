SPECIFICATION Spec
CONSTANTS
  Patience = 4
  QueueSize = 2
  BusSize = 1
  MaxOthers = 0
  MaxNews = 0
INVARIANT ResultsArePrinted
CHECK_DEADLOCK FALSE
