SPECIFICATION FairSpec
CONSTANTS
  deposit = deposit
  withdrawal = withdrawal
  Events = {deposit, withdrawal}
  Deposits = {deposit}
  Target <- TwoAndOne
  MaxTip = 2
  MaxStamp = 3
  MaxFaults = 1
INVARIANT NoTransferStranded
PROPERTY KeepsPromise
CHECK_DEADLOCK FALSE
