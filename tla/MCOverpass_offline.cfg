CONSTANTS
  Importers = {i1}
  Queries <- MCOneQuery
  RegionOrder <- MCTwoRegions
  Worlds <- MCTwoTowns
  Attempts = 2
  Nowhere = Nowhere
  Folded <- MCFolded
SPECIFICATION Spec
INVARIANT ReplaysWhatWasSaid
