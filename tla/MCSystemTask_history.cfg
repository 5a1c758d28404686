SPECIFICATION Spec
CONSTANTS
  r1 = r1
  r2 = r2
  chan = chan
  logs = logs
  Runner = {r1}
  Reliable = {r1}
  Type <- TwoTypes
  MaxTask = 2
  Legacy <- NoLegacy
  MaxFaults = 0
  MaxPurges = 2
  PromptClaim = TRUE
PROPERTIES PurgeKeepsLatest
CHECK_DEADLOCK FALSE
