SPECIFICATION FairSpec
CONSTANTS
  t1 = t1
  t2 = t2
  Nobody = Nobody
  Transfers = {t1, t2}
  FeeCap = 3
  MinRaise = 2
  MaxNonce = 4
  MaxSends = 4
  MaxMoves = 1
  MaxFaults = 1
INVARIANTS TypeOK NoTransferLost PaidOnce
PROPERTY EveryTransferIncluded
CHECK_DEADLOCK FALSE
