SPECIFICATION Spec
CONSTANTS
  OmniEvents <- Starknet
  NoEvent = NoEvent
  Malformed = {}
  Undecodable = {}
  UtxoCount = 2
  MaxDeliver = 2
  MaxBuffer = 2
  MaxStream = 5
  MaxFaults = 0
INVARIANT EveryItemQueued
CHECK_DEADLOCK FALSE
