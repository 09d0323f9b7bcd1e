SPECIFICATION Spec
CONSTANTS
  first = first
  next = next
  dataset = dataset
  extra = extra
  None = None
  Resource = {first, next, dataset, extra}
  Named = {first}
  Editions <- MCEditions
  Served <- MCServed
  Bound = 3
  MaxLosses = 1
INVARIANTS GapsAreReported
PROPERTIES CommitAccountsForAll
