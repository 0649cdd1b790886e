CONSTANTS
  Importers = {i1, i2}
  Years = {2016}
  Editions <- MCTwoEditions
  Number <- MCNumber
  Pointed <- MCPointed
  Degrees <- MCDegrees
  Matches <- MCMatches
  MaxRuns = 3
SPECIFICATION Spec
SYMMETRY Symmetry
INVARIANT ConfirmedIsCurrent
