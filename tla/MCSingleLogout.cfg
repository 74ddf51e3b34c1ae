SPECIFICATION Spec
CONSTANTS
  r1 = r1
  r2 = r2
  Name = {"idp", "sp1", "sp2"}
  Configurations <- PostDeployments
  Request = {r1, r2}
  Binding = {"HttpPost", "HttpRedirect", "Soap"}
  Status = {"Success", "RequestDenied"}
SYMMETRY Requests
INVARIANT OutcomeTruthful
INVARIANT EndedOnRequest
INVARIANT SignedBothWays
CHECK_DEADLOCK FALSE
