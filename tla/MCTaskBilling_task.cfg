SPECIFICATION TaskFairSpec
CONSTANTS
  p1 = p1
  p2 = p2
  Pollers <- TwoPollers
  MaxPrice = 2
  MaxCalls = 1
  MaxFaults = 1
  TxSaves = TRUE
  LiveFetch = TRUE
  TimesOut = TRUE
  KeepsEnd = TRUE
INVARIANTS TaskTypeOK TaskReconciled SettlesAlone RefundedOnce
PROPERTIES TaskEnds
CHECK_DEADLOCK FALSE
