CONSTANTS
  c1 = c1
  c2 = c2
  m1 = m1
  m2 = m2
  m3 = m3
  Collection <- MCCollection
  Manifest <- MCManifest
  Root = c1
  Documents <- EditedDocuments
  None = None
  Legacy <- OneLegacy
  Workers = 2
SPECIFICATION Spec
INVARIANTS
  WorkIsDiscovered
  DoneMeansDisposed
  FreshRereadsTheRoot
PROPERTIES
  FailureOutlivesRetry
  ImplementsLedger
