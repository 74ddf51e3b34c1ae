SPECIFICATION FairSpec
CONSTANTS
  Idp <- MCIdp
  Targets <- MCTargets
  ReplyBinding <- RedirectToo
  Reply = {"Success", "RequestDenied"}
  MaxFaults = 1
INVARIANT Truthful
INVARIANT SurplusOutcomes
INVARIANT PostAnswersVerified
PROPERTY ChainCompletes
CHECK_DEADLOCK FALSE
