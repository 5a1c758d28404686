SPECIFICATION FairSpec
CONSTANTS
  r1 = r1
  r2 = r2
  chan = chan
  logs = logs
  Runner <- MCRunner
  Reliable = {r2}
  Type <- OneType
  MaxTask = 1
  Legacy <- NoLegacy
  MaxFaults = 2
  MaxPurges = 0
  PromptClaim = TRUE
PROPERTIES PendingEnds
CHECK_DEADLOCK FALSE
