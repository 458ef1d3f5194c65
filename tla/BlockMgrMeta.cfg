SPECIFICATION Spec
CONSTANTS
  Blocks = {b1, b2, b3, b4}
  PagesPerBlock = 2
  LPN = {n1, n2, n3}
  Threshold = 1
  TurnLimit = 2
  CopyLimit = 2
  Meta = TRUE
  NoBlock = NoBlock
  NoLPN = NoLPN
SYMMETRY Symmetry
INVARIANTS
  ListsPartition
  ActiveMarked
