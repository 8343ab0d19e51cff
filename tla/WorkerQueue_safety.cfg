SPECIFICATION Spec
CONSTANTS
  init = init
  sign = sign
  junk = junk
  t1 = t1
  t2 = t2
  w1 = w1
  w2 = w2
  Events = {init, sign}
  Indexed = {init, sign}
  Undecodable = {}
  Produces <- TwoStages
  Transfer <- TransferOf
  Workers = {w1, w2}
  FirstStart = TRUE
  MaxSeq = 2
  MaxCopies = 2
  MaxFaults = 1
INVARIANTS TypeOK HandedOn LeavesForAReason
PROPERTY FeeOutlivesRetries
SYMMETRY Permits
