SPECIFICATION FairSpec
CONSTANTS
  o1 = o1
  o2 = o2
  o3 = o3
  o4 = o4
  t1 = t1
  t2 = t2
  NoTransfer = NoTransfer
  Outpoints = {o1, o2, o3, o4}
  Initial = {o1, o2, o3}
  Transfers = {t1, t2}
  Need = 2
  MaxFaults = 1
INVARIANTS TypeOK NoDoubleSelection PhantomsAreFlagged NoOutpointForgotten
PROPERTY EveryTransferLands
CHECK_DEADLOCK FALSE
