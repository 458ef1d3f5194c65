\* Host requests only, some of two LPNs, three meta pages through two entries.
SPECIFICATION FairSpec
CONSTANTS
  e1 = e1
  e2 = e2
  e3 = e3
  Entries <- TwoEntries
  Requests = {1, 2}
  MetaPageCount = 3
  L2VPerMetaPage = 1
  VPPN = {"a"}
  HilDepth = 1
  MaxLPNCount = 2
  GcDepth = 0
  GcTypes = {}
  MaxExcess = 0
  Invalid = Invalid
  NoPage = NoPage
  NoEntry = NoEntry
  NoContent = NoContent
INVARIANTS
  MappingKept
  DirtyUntilStored
PROPERTIES
  HostServed
