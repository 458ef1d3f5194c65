\* A user GC maps a page while its meta page is being flushed.
SPECIFICATION Spec
CONSTANTS
  e1 = e1
  e2 = e2
  e3 = e3
  Entries <- TwoEntries
  Requests = {1, 2}
  MetaPageCount = 3
  L2VPerMetaPage = 1
  VPPN = {"a", "b"}
  HilDepth = 1
  MaxLPNCount = 1
  GcDepth = 1
  GcTypes = {"GC"}
  MaxExcess = 0
  Invalid = Invalid
  NoPage = NoPage
  NoEntry = NoEntry
  NoContent = NoContent
INVARIANTS
  DirtyUntilStored
