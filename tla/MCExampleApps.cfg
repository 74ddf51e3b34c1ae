SPECIFICATION Spec
CONSTANTS
  Browsers = {b1}
  Idps = {"idp1", "idp2"}
  SpEntity = "sp"
  Users <- MCUsers
  ForceEncrypt = TRUE
  Providers <- MCProviders
  Registry <- MCRegistry
  OtherRequests <- MCOtherRequests
  MAX_ATTEMPTS = 2
  Guesses = {"pw", "typo"}
  SESSION_TTL = 1
  PENDING_STALE_AFTER = 2
  MAX_PENDING = 2
  TRACKER_STALE_AFTER = 1
  MAX_TRACKERS = 1
  MaxRequestAge = 1
  AssertionLifetime = 1
  ClockSkew = 0
  MaxClock = 3
  MaxLogins = 2
  MaxLogouts = 2
  MaxSignIns = 6
  MaxLandings = 1
  MaxResends = 1
  MaxActs = 4
INVARIANTS
  SessionEarned
  PromptHonoured
  SignedOutMeansPerformed
PROPERTIES
  NothingForgotten
  Wired
CHECK_DEADLOCK FALSE
