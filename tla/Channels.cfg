SPECIFICATION ChannelSpec
CONSTANTS
  Capacity = 4
  MaxBatch = 3
  Consumers = {c1}
  BufLens = {1, 3}
  MaxFrames = 10
  Conns = {c1, c2}
  Topics = {state}
  QueueCap = 1
  VerbCap = 1
  BcastCap = 1
  VerbKinds = {"emit", "status"}
  MaxVerbs = 1
  MaxEvents = 2
INVARIANTS ReadsAreSound StreamsAreWhole SessionsAccountedFor
PROPERTIES RefinesLog CatchesUp BroadcastNeverStalls
CHECK_DEADLOCK FALSE
