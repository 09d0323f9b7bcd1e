SPECIFICATION FairSpec
CONSTANTS
  manifest = manifest
  item = item
  None = None
  Call = {1, 2}
  Url = {manifest, item}
  Asked = {manifest}
  ItemOf <- MCItemOf
  Slots = {1, 2}
  MaxAttempts = 2
  MaxVersion = 2
  MaxCalls = 3
INVARIANTS BodyIsTheServers DerivationIsTrue
PROPERTIES EveryFetchEnds
