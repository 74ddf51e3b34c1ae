SPECIFICATION Spec
CONSTANTS
  r1 = r1
  r2 = r2
  Name = {"idp", "sp1", "sp2"}
  Configurations <- RedirectDeployment
  Request = {r1, r2}
  Binding = {"HttpRedirect"}
  Status = {"Success"}
SYMMETRY Requests
INVARIANT SignedBothWays
CHECK_DEADLOCK FALSE
