SPECIFICATION Spec
CONSTANTS
  p1 = p1
  p2 = p2
  Proc <- TwoProc
  Quota = 1
  PromptFence = TRUE
  MaxOps = 2
  MaxVersion = 1
  MaxFaults = 1
SYMMETRY Symmetry
INVARIANTS TypeOK Balanced NoOverspend NoStaleToken
CHECK_DEADLOCK FALSE
