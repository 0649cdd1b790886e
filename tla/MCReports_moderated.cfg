CONSTANTS
  Ids = {r1, r2}
  Workers = {w1}
  Addresses = {"home-1"}
  Network <- MCNetwork
  Moderators = {"anna", "ben"}
  Presented <- MCPresented
  ModerationToken = "secret"
  NoToken = ""
  SaltConfigured = FALSE
  RateLimit = 3
  RateWindow = 2
  QueueLimit = 1
  MaxNow = 2
  MaxSalts = 1
SPECIFICATION Spec
SYMMETRY Symmetry
INVARIANT PublicWasReviewed
INVARIANT OldestReviewedFirst
