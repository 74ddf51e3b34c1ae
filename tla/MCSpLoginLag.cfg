SPECIFICATION LagSpec
CONSTANTS
  c1 = c1
  c2 = c2
  c3 = c3
  a1 = a1
  a2 = a2
  k0 = k0
  d1 = d1
  b1 = b1
  l1 = l1
  l2 = l2
  k1 = k1
  k2 = k2
  k3 = k3
  Idp = {"idp1"}
  CertsOf <- OneCert
  Login = {}
  Aid = {a1, a2}
  Call = {c1, c2, c3}
  Acs <- OneAcs
  Route <- OneAcs
  NameId <- Transient
  RequestedFormat <- AskNone
  OneTimeUse = {TRUE, FALSE}
  Mode = {"All"}
  AllowUnsolicited = TRUE
  WantResponse = FALSE
  WantAssertions = TRUE
  MaxAge = 2
  Lifetime = 1
  Skew = 1
  Capacity = 2
  MaxTime = 2
  MaxLag = 1
  MaxMessages = 2
SYMMETRY MCSymmetry
INVARIANT SingleUse
CHECK_DEADLOCK FALSE
