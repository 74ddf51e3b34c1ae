SPECIFICATION Spec
CONSTANTS
  f1 = f1
  f2 = f2
  k1 = k1
  k2 = k2
  a1 = a1
  a2 = a2
  x1 = x1
  x2 = x2
  Transaction = {x1, x2}
  Flow = {f1, f2}
  Supported = {"Transient", "Email"}
  DefaultFormat = "Transient"
  EncryptAssertions = TRUE
  CtxLifetime = 2
  CodecMaxAge = 3
  Lifetime = 2
  SessionLifetime = 1
  Skew = 1
  Capacity = 2
  Deployment <- Deployments
SYMMETRY Sym
INVARIANT OneFlowPerTransaction
INVARIANT RelayBound
INVARIANT NeverOutlivesUpstream
INVARIANT NonDowngrade
CHECK_DEADLOCK FALSE
