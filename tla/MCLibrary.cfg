SPECIFICATION Spec
CONSTANTS
  h1 = h1
  h2 = h2
  codex = codex
  roll = roll
  x = x
  y = y
  t = t
  n = n
  m = m
  p = p
  q = q
  u = u
  v = v
  Blank = Blank
  None = None
  Tick = Tick
  Bundle = {codex, roll}
  Text = {y}
  Tag = {t}
  Editions = 1
  Refresher = {Tick, r1}
  Handler = {h1, h2}
  NoteId = {n, m}
  Body = {x, y}
  Comparison = {p, q, u, v}
  NameOf <- MCNameOf
  DocsOf <- MCDocsOf
  InitialOf <- MCInitialOf
  CanvasIds <- MCCanvasIds
  MaxSaved = 2
  ArchiveFields <- MCArchiveFields
  ArchiveNotes <- MCArchiveNotes
  ArchiveComparisons = {q}
  MaxStarts = 2
  MaxRequests = 2
  MaxChurn = 1
  MaxFaults = 1
INVARIANTS NothingSavedIsLost AnnotationsKept ComparisonsKept
PROPERTIES EntriesMoveForward
CONSTRAINTS OnlyCodexChanges EndsAtTotalLoss
SYMMETRY MCSymmetry
