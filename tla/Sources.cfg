SPECIFICATION SourcesSpec
CONSTANTS
  RingRate = 2
  Rates = {1, 2, 3}
  RingFrames = 4
  Scratch = 3
  Files = 2
  MaxPacket = 2
  MaxFed = 3
  Asks = {1, 4}
  MaxUnderruns = 2
  Titles = {0, 1, 2}
  Stride = 2
  MaxStrides = 1
  Rounds = 2
  RadioAttempts = 2
  ChannelCapacity = 2
  Intervals = {0, 1}
  MaxConnections = 2
  MaxChunk = 7
  Playbacks = 2
  Length = 2
  Capacity = 1
  MaxAhead = 1
  Attempts = 2
  MaxDisconnects = 1
INVARIANTS ResamplerExact AudioOnly ListenersAreTold TracksApart
PROPERTIES FolderIsHeard SourceEnds
CHECK_DEADLOCK FALSE
