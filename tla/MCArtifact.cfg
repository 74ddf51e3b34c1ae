SPECIFICATION Spec
CONSTANTS
  l1 = l1
  l2 = l2
  h1 = h1
  h2 = h2
  g1 = g1
  g2 = g2
  c1 = c1
  c2 = c2
  Idp = {"i1", "i2"}
  Provider = {"s1", "s2"}
  IdpCerts <- Certs1
  SpCerts <- SpKeys
  Ars <- Configured
  IdpMetadata <- Metadata
  SpMetadata <- KeySets
  Login = {l1, l2}
  Handle = {h1, h2}
  Call = {c1, c2}
  CallSp <- CallsOfS1
  Handler = {g1, g2}
  Sign <- SignWith
  RequireSigned = TRUE
  Verify <- VerifyAlways
  Lifetime = 2
  Skew = 1
  Capacity = 2
  MaxTime = 2
  MaxForeign = 1
SYMMETRY Sym
CONSTRAINT Scenario
INVARIANT DisclosedToAddressee
INVARIANT ResolveOnce
INVARIANT ReplayIsOwn
INVARIANT ArtifactStaysHome
INVARIANT ResolvedIsPresented
INVARIANT OwnExchangeCompletes
CHECK_DEADLOCK FALSE
