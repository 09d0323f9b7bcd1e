SPECIFICATION FairSpec
CONSTANTS
  a = a
  b = b
  a1 = a1
  a2 = a2
  b1 = b1
  None = None
  Mixed = Mixed
  Image = {a, b}
  Service = {a, b}
  ServiceOf <- MCServiceOf
  Editions <- MCEditions
  Scans <- MCScans
  Size = {1}
  SizeOf <- MCSizeOf
  MaxPages = 2
  MaxLosses = 1
INVARIANTS CommittedIsWhole PagesMatchIfOneDraft PyramidShowsPage
PROPERTIES SnapshotStands ImplementsSnapshot FirstAcquisitionCompletes
