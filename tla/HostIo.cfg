SPECIFICATION FairSpec
CONSTANTS
  Requests = {1, 2}
  MaxCount = 2
  Commands <- MCCommands
  BufCount = 4
  OthersMax = 1
  UnitCount = 2
  LpnPerUnit = 3
  FilCount = 1
  FifoSize = 3
  OverflowSize = 2
INVARIANTS
  QueuesMatchStatus
  BuffersHeld
  TransferCheckExact
PROPERTIES
  EveryCommandEnds
