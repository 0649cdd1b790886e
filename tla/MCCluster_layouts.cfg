CONSTANTS
  Accidents = {1,2,3,4,5}
  Layouts <- MCLayouts
  Radius = 3
  MinAccidents = 2
SPECIFICATION Spec
INVARIANT TypeOK
INVARIANT GridIsExact
INVARIANT CountedOnce
INVARIANT StaysAPlace
INVARIANT ReportedRadiusBounded
INVARIANT NothingLeftOut
PROPERTY ImplementsGreedy
PROPERTY Terminates
CHECK_DEADLOCK FALSE
