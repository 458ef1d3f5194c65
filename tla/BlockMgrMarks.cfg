SPECIFICATION WorkloadSpec
CONSTANTS
  Blocks = {1, 2, 3, 4, 5, 6, 7, 8, 9, 10, 11, 12}
  PagesPerBlock = 6
  LPN <- Addresses
  Threshold = 1
  TurnLimit = 2
  CopyLimit = 2
  Meta = FALSE
  NoBlock = NoBlock
  NoLPN = NoLPN
INVARIANTS
  VictimCounted
CHECK_DEADLOCK FALSE
