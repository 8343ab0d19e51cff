SPECIFICATION FairSpec
CONSTANTS
  Permits = 2
  Quotes <- MCQuotes
  Fees <- MCFees
  Discount = 10
  Trusted = {"hyper"}
  MaxTrouble = 2
INVARIANTS
  TypeOK
  QuoteHonoured
  FeeKeysCleaned
PROPERTY TransfersComplete
CHECK_DEADLOCK FALSE
