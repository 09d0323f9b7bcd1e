SPECIFICATION InputSpec
CONSTANTS
  NoInput = NoInput
  MaxSide = 9
  MinTileSize = 1
  MaxTileSize = 3
  Entries <- MCEntries
  MaxEntries = 2
  Queries <- MCQueries
INVARIANTS PyramidIsComplete DateDecidesByYears ExcludedOnlyOnData
