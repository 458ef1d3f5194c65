SPECIFICATION Spec
CONSTANTS
  Blocks = {b1, b2, b3, b4, b5, b6, b7}
  PagesPerBlock = 3
  LPN = {n1, n2, n3, n4, n5, n6, n7}
  Threshold = 1
  TurnLimit = 1
  CopyLimit = 1
  Meta = FALSE
  NoBlock = NoBlock
  NoLPN = NoLPN
VIEW BlockView
INVARIANTS
  TypeOK
  CountsMatchMapping
  CurrentPageErased
  SpaceLeft
  CopyIsCurrent
  CollectionCounted
