SPECIFICATION FairSpec
CONSTANTS
    v1 = v1
    v2 = v2
    tx = tx
    Requests = {r1}
    Vaas = {v1, v2}
    Ours = {v1, v2}
    Txs = {tx}
    Log <- MCLog
    Targets <- MCTargets
    Home <- MCHome
    Programs = {"bridge", "other"}
    Bridge = "bridge"
    Asked <- MCAsked
    HasFallback = TRUE
    MaxStream = 2
    MaxFaults = 3
INVARIANTS TypeOK
PROPERTIES NoSilentGap AvailableIsServed SpyReturns
