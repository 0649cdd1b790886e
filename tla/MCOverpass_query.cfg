CONSTANTS
  Importers = {i1, i2}
  Queries <- MCQueries
  RegionOrder <- MCRegions
  Worlds <- MCWorlds
  Attempts = 2
  Nowhere = Nowhere
  Folded <- MCFolded
SPECIFICATION Spec
INVARIANT TypeOK
INVARIANT ImportedAsAsked
INVARIANT KeepsBestMappings
PROPERTY EveryCallEnds
