SPECIFICATION Spec
CONSTANTS
  MaxPrice = 1
  MaxCalls = 1
  MaxFaults = 1
  TxSaves = FALSE
INVARIANTS RefundedOnce
CHECK_DEADLOCK FALSE
