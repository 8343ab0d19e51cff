SPECIFICATION FairSpec
CONSTANTS
  OmniEvents <- Mixed
  NoEvent = NoEvent
  Malformed <- Broken
  Undecodable <- Garbage
  UtxoCount = 2
  MaxDeliver = 2
  MaxBuffer = 1
  MaxStream = 6
  MaxFaults = 2
INVARIANTS TypeOK NothingSkipped QueuedOnce
PROPERTY NoEventBlocks
CHECK_DEADLOCK FALSE
