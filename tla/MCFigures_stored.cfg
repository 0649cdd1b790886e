CONSTANTS
  Accidents = {"a1", "a2", "a3"}
  YearOf <- MCYearOf
  Institutions = {"s1"}
  Places = {"gate", "field"}
  Nearby <- MCNearby
  Recomputers = {"r1", "r2"}
  School = "s1"
  Filters <- MCTwoFilters
  NotCounted = null
  Nobody = "nobody"
SPECIFICATION Spec
INVARIANT TypeOK
INVARIANT OneAnswer
INVARIANT OverviewCoversHotspots
INVARIANT StatedRangeCoversSummary
PROPERTY QuietRunIsCurrent
