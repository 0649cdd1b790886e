CONSTANTS
  Ids = {r1, r2, r3}
  Workers = {w1, w2}
  Addresses = {"home-1", "home-2", "school"}
  Network <- MCNetwork
  Moderators = {"anna", "visitor"}
  Presented <- MCPresented
  ModerationToken = ""
  NoToken = ""
  SaltConfigured = TRUE
  RateLimit = 2
  RateWindow = 2
  QueueLimit = 1
  MaxNow = 2
  MaxSalts = 1
SPECIFICATION Spec
SYMMETRY Symmetry
INVARIANT TypeOK
INVARIANT OvershootBounded
INVARIANT OneConfirmationEach
INVARIANT UnmoderatedStaysHidden
