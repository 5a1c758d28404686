CONSTANTS
  MaxSends = 3
  MaxPieces = 3
  MaxChanges = 1
  MaxPages = 2
  MaxStored = 3
  Text <- Answers
SPECIFICATION Spec
CHECK_DEADLOCK FALSE
INVARIANTS OwnAnswer Settled Saved
