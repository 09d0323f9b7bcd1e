CONSTANTS
  u1 = u1
  u10 = u10
  URL <- MCURL
  Torn <- MCTorn
  Garbage = Garbage
  Nothing = Nothing
  ShortWrites = {TRUE, FALSE}
  MaxLines = 4
SPECIFICATION Spec
INVARIANTS NoPoisonedRecord OnlyAttemptedIsDone
PROPERTY ImplementsJournal
