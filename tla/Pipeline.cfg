SPECIFICATION PartSpec
CONSTANTS
  VerbKinds = {"radio", "local"}
  MaxCommands = 2
  MaxPicks = 3
  MaxVerbs = 2
  ChannelCapacity = 1
INVARIANTS NewestIsNext ReceiverAgrees
PROPERTIES WatcherInterrupts ReceiverGoesOn
CHECK_DEADLOCK FALSE
