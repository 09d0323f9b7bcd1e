CONSTANTS
  c1 = c1
  c2 = c2
  c3 = c3
  m1 = m1
  m2 = m2
  m3 = m3
  Collection <- MCCollection
  Manifest <- MCManifest
  Root = c1
  Documents <- MCDocuments
  None = None
SPECIFICATION FrontierSpec
INVARIANTS NothingListedIsLost YieldedOnlyWhatIsSaved
PROPERTIES EverythingSavedIsYielded FileOnlyGrows WalkEnds
