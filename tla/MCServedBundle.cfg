SPECIFICATION FairSpec
CONSTANTS
  Request = {1, 2}
  MaxEdition = 2
  MaxCommits = 2
INVARIANTS CacheIsCurrent BodyIsOneEdition EntryIsCurrent
PROPERTIES EntryCatchesUp
