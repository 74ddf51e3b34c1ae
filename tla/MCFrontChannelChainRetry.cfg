SPECIFICATION Spec
CONSTANTS
  Idp <- MCIdp
  Targets <- MCTargets
  ReplyBinding <- PostOnly
  Reply = {"Success"}
  MaxFaults = 1
INVARIANT ParallelShaped
CHECK_DEADLOCK FALSE
