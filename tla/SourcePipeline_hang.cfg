SPECIFICATION FairSpec
CONSTANTS
  VerbKinds = {"radio"}
  MaxCommands = 1
PROPERTY ShutdownCompletes
CHECK_DEADLOCK FALSE
