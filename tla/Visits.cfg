SPECIFICATION SideSpec
CONSTANTS
  Clients = {c1, c2}
  Window = 3
  Patience = 4
  QueueSize = 2
  BusSize = 1
  MaxOthers = 1
  MaxNews = 1
INVARIANTS CountdownIsSound AnswerIsWhole StatusIsRecent
PROPERTIES DesertedStops OneShotEnds
CHECK_DEADLOCK FALSE
