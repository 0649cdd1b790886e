CONSTANTS
  Processes = {"first", "mended", "edited"}
  Files <- MCFiles
  Broken = {"bad"}
  NoProcess = "nobody"
SPECIFICATION FairSpec
INVARIANT TypeOK
INVARIANT RecordedIffApplied
INVARIANT NoRace
INVARIANT SuccessMeansCurrent
PROPERTY AppliedInOrder
PROPERTY CallsEnd
