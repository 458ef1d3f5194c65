\* Host requests and a user GC compete for the cache.  As many meta requests as
\* cache entries: the pool never runs out.  One address: only whether a mapping
\* is there matters.
SPECIFICATION Spec
CONSTANTS
  e1 = e1
  e2 = e2
  e3 = e3
  Entries <- TwoEntries
  Requests = {1, 2}
  MetaPageCount = 3
  L2VPerMetaPage = 1
  VPPN = {"a"}
  HilDepth = 1
  MaxLPNCount = 1
  GcDepth = 1
  GcTypes = {"GC"}
  MaxExcess = 1
  Invalid = Invalid
  NoPage = NoPage
  NoEntry = NoEntry
  NoContent = NoContent
INVARIANTS
  PointersSound
  QueuesMatchStatus
  ListsSound
  OnePagePerEntry
PROPERTIES
  BusyEntryKeepsPage
