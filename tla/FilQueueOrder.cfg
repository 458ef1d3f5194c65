\* One die, blocks of three pages, three requests.
SPECIFICATION Spec
CONSTANTS
  Requests = {r1, r2, r3}
  DieCount = 1
  Blocks = {b1, b2}
  PagesPerBlock = 3
  NoOp = NoOp
SYMMETRY RequestSymmetry
INVARIANTS
  TypeOK
  RequestsInQueues
  OneOperationPerDie
  NoOverwrite
  ReadFindsPage
  PagesInOrder
