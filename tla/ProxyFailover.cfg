SPECIFICATION FairSpec
CONSTANTS
    a = a
    b = b
    Requests = {r1, r2}
    Endpoints = {a, b}
    Paths <- MCPaths
    Tables <- MCTables
    MaxReloads = 1
    MaxFailures = 2
    MaxFaults = 2
INVARIANTS TypeOK FailuresAreOwn
PROPERTIES CountsAcrossReloads PrimaryReturns
CHECK_DEADLOCK FALSE
