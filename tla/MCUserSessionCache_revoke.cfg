SPECIFICATION Spec
CONSTANTS
  p1 = p1
  p2 = p2
  NoProc = NoProc
  Proc <- TwoProc
  CacheTTL = 2
  ExpiresAt = 5
  MaxVersion = 2
  MaxTime = 5
  MaxFaults = 1
SYMMETRY Symmetry
INVARIANTS TypeOK BoundedStaleness SealedIsFinal
CHECK_DEADLOCK FALSE
