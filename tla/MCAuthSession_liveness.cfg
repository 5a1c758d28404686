CONSTANTS
  t1 = t1
  t2 = t2
  s1 = s1
  s2 = s2
  NoSid = NoSid
  Tabs <- TwoTabs
  Sids <- OneSid
  LockModes <- AnyLocks
  PromptRetry = FALSE
  Turns = 1
SPECIFICATION FairSpec
CHECK_DEADLOCK FALSE
PROPERTIES RefreshEnds LogoutEnds SignedOutWhereUsed
