SPECIFICATION MCSpec
CONSTANTS
  FamilySkew = 1
  Horizon = 5
  CustomRefs = {"urn:custom:a", "urn:custom:b"}
  Lexicon <- MC_Lexicon
  Limits <- MC_Limits
  MaxDecoded = 80
  Key <- MCKey
  Batches <- MCBatches
  Capacity = 2
  MaxTime = 3
  MaxLag = 0
INVARIANT AuthenticatedAndBound
INVARIANT AcceptanceStable
INVARIANT ContextMeansWhatItSays
INVARIANT MessageDelivered
INVARIANT MetadataFaithful
INVARIANT CanonicalFaithful
INVARIANT InstantsFaithful
INVARIANT TombstoneRetained
PROPERTY FullOnlyWhenLive
PROPERTY ImplementsContract
CHECK_DEADLOCK FALSE
