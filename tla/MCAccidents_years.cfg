CONSTANTS
  Importers = {i1}
  Years = {2016, 2017}
  Editions <- MCEditions
  Number <- MCNumber
  Pointed <- MCPointed
  Degrees <- MCDegrees
  Matches <- MCMatches
  MaxRuns = 3
SPECIFICATION Spec
INVARIANT TypeOK
INVARIANT CountsWhatWasServed
INVARIANT SucceededIsCounted
INVARIANT DoneIsComplete
PROPERTY RepublishedIsNotNew
PROPERTY ImplementsStore
