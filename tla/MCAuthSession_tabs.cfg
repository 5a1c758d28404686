CONSTANTS
  t1 = t1
  t2 = t2
  s1 = s1
  s2 = s2
  NoSid = NoSid
  Tabs <- TwoTabs
  Sids <- TwoSids
  LockModes <- Locked
  PromptRetry = TRUE
  Turns = 2
SPECIFICATION Spec
CHECK_DEADLOCK FALSE
SYMMETRY TabSymmetry
INVARIANTS TypeOK TabsKeepSession NeverBack
