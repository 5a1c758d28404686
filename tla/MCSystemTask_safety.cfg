SPECIFICATION Spec
CONSTANTS
  r1 = r1
  r2 = r2
  chan = chan
  logs = logs
  Runner <- MCRunner
  Reliable = {r2}
  Type <- OneType
  MaxTask = 2
  Legacy <- OneLegacy
  MaxFaults = 1
  MaxPurges = 0
  PromptClaim = TRUE
INVARIANTS TypeOK ActiveKeyExact DispatchedOnce RunningHasLease
PROPERTIES TerminalIsFinal LiveLeaseIsKept
CHECK_DEADLOCK FALSE
