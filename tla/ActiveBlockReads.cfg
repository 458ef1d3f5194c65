\* Two dies and two requests, three units a slot, blocks of four units of two
\* pages: the rings and the blocks wrap at different places.
SPECIFICATION Spec
CONSTANTS
  x = x
  y = y
  LPN = {x, y}
  Buckets = {0, 1}
  Bucket <- MCBucket
  UnitCount = 3
  LpnPerUnit = 2
  UnitsPerBlock = 4
  Dies = 2
  RequestCount = 2
  Unmapped = Unmapped
  Left = Left
  NoUnit = NoUnit
  NoHit = NoHit
INVARIANTS
  TypeOK
  HitIsCurrent
  HostMissIsIssued
  SlotIsFree
  HashExact
