SPECIFICATION FairSpec
CONSTANTS
  init = init
  sign = sign
  junk = junk
  t1 = t1
  t2 = t2
  w1 = w1
  w2 = w2
  Events = {init, junk}
  Indexed = {init, junk}
  Undecodable = {junk}
  Produces <- TwoStages
  Transfer <- TransferOf
  Workers = {w1}
  FirstStart = FALSE
  MaxSeq = 3
  MaxCopies = 1
  MaxFaults = 1
PROPERTY KeepsPromise
CHECK_DEADLOCK FALSE
