SPECIFICATION FairSpec
CONSTANTS
  Clients = {c1, c2}
  MaxProcesses = 4
  MaxAttempts = 3
  MaxFaults = 1
  MaxVerbs = 1
  Punctual = TRUE
INVARIANTS NamesAreKept HangsUpUnlocked
PROPERTIES LaunchSucceeds Reconnects
CHECK_DEADLOCK FALSE
