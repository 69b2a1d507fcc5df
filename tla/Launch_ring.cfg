SPECIFICATION FairSpec
CONSTANTS
  Clients = {c1}
  MaxProcesses = 2
  MaxAttempts = 2
  MaxFaults = 1
  MaxVerbs = 1
  Punctual = TRUE
PROPERTY TapsItsDaemon
CHECK_DEADLOCK FALSE
