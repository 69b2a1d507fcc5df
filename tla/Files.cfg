SPECIFICATION Spec
CONSTANTS
  Clients = {c1, c2}
  Stations = {s1, s2}
  TapTries = 2
  MaxPicks = 2
  MaxMishaps = 1
  MaxBytes = 3
  MaxBackups = 2
  Sizes = {1, 2, 4}
  MaxLines = 7
  LogFaults = 3
  SrvAnswers <- TwoAnswers
  BAKED_IN_MIRRORS <- Baked
  Settings <- AheadOrBehind
  Ttl = 2
  MaxMirrorsTried = 3
  Horizon = 4
  MaxAsks = 3
  MirrorFaults = 2
SYMMETRY Interchangeable
INVARIANTS SavesAreResumed LogIsKept StationsAreFound
CHECK_DEADLOCK FALSE
