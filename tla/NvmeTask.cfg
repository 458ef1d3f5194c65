SPECIFICATION FairSpec
CONSTANTS
  QueueCount = 2
  Patient = TRUE
INVARIANTS
  FreshWhenEnabled
  ReadyIsServed
PROPERTIES
  RequestsServed
