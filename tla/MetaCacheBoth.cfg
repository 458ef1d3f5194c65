\* Both collectors and the host, one cache entry that all fight for.
SPECIFICATION FairSpec
CONSTANTS
  e1 = e1
  e2 = e2
  e3 = e3
  Entries <- OneEntry
  Requests = {1}
  MetaPageCount = 2
  L2VPerMetaPage = 1
  VPPN = {"a"}
  HilDepth = 1
  MaxLPNCount = 1
  GcDepth = 1
  GcTypes = {"GC", "META"}
  MaxExcess = 1
  Invalid = Invalid
  NoPage = NoPage
  NoEntry = NoEntry
  NoContent = NoContent
INVARIANTS
  UserPagesCounted
PROPERTIES
  CollectionEnds
