CONSTANTS
  Importers = {i1, i2}
  Queries <- MCQueries
  RegionOrder <- MCRegions
  Objects = {"town", "school", "edge", "zone30"}
  Kind <- MCKind
  InBox <- MCInBox
  Returned <- MCReturned
  Covers <- MCCovers
  Garbage = "<html>"
  MaxRuns = 3
  MaxNow = 3
SPECIFICATION Spec
SYMMETRY Symmetry
INVARIANT TypeOK
INVARIANT SucceededIsApplied
PROPERTY NothingElseIsLost
PROPERTY QuietImportIsExact
PROPERTY QuietTownsAreCurrent
