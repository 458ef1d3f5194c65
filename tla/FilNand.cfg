\* One die that shares its controller with another way, a pool of two requests.
SPECIFICATION NandFairSpec
CONSTANTS
  Requests = {r1, r2}
  DieCount = 1
  Blocks = {b1}
  PagesPerBlock = 1
  ChannelCount = 1
  Neighbours = {n1}
  FIL_READ_RETRY = 1
  NotReady = {"early"}
  NoOp = NoOp
INVARIANTS
  FreeWayIsQuiet
  WorkingArrayUndisturbed
PROPERTIES
  ImplementsQueue
  EveryRequestEnds
