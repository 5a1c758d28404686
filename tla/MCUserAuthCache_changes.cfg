SPECIFICATION FairSpec
CONSTANTS
  p1 = p1
  p2 = p2
  Proc <- TwoProc
  MaxVersion = 4
  MaxFaults = 2
  PromptTx = TRUE
  PromptFill = TRUE
INVARIANTS TypeOK NoStaleAnswer StaleIsFenced FloorIsCommitted
PROPERTIES LockoutEnds
CHECK_DEADLOCK FALSE
