CONSTANTS
  Ids = {r1, r2, r3}
  Workers = {w1, w2}
  Addresses = {"home-1"}
  Network <- MCNetwork
  Moderators = {}
  Presented <- MCPresented
  ModerationToken = "secret"
  NoToken = ""
  SaltConfigured = TRUE
  RateLimit = 2
  RateWindow = 2
  QueueLimit = 1
  MaxNow = 2
  MaxSalts = 0
SPECIFICATION Spec
SYMMETRY Symmetry
INVARIANT LimitPerSender
