SPECIFICATION FairSpec
CONSTANTS
  NONE = NONE
  Branches <- TwoBranches
  Deposits <- TwoDeposits
  Returns = FALSE
  MaxLag = 1
  MaxFaults = 1
INVARIANTS TypeOK AbsentIsScanned RecordedOnChain
PROPERTIES ConfirmedIsDeep EventuallyApproved
CHECK_DEADLOCK FALSE
