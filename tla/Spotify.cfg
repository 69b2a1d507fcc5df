SPECIFICATION FairSpec
CONSTANTS
  MaxTokens = 2
  MaxFlows = 2
  MaxRuns = 1
INVARIANTS TokensAreKept ClientsKnow
PROPERTIES NobodyWaitsForEver
CHECK_DEADLOCK FALSE
