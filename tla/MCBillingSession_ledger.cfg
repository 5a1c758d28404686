SPECIFICATION FairSpec
CONSTANTS
  MaxPrice = 3
  MaxCalls = 3
  MaxFaults = 3
  TxSaves = TRUE
INVARIANTS TypeOK Reconciled
PROPERTIES FundingImplementsLedger TokenImplementsLedger FailureIsFree
CHECK_DEADLOCK FALSE
