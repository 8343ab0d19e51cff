SPECIFICATION FairSpec
CONSTANTS
  m1 = m1
  m2 = m2
  NoMsg = NoMsg
  Msgs = {m1, m2}
  NumChains = 2
  ChainOf <- FirstChain
  AlreadySent <- ZeroAndOne
  WorkerCount = 2
  MaxNonce = 8
  MaxFaults = 3
INVARIANTS TypeOK UniqueSinceResync ReservedFromSyncedCounter HolesAccounted
PROPERTY EveryMessageLeaves
CHECK_DEADLOCK FALSE
