SPECIFICATION Spec
CONSTANTS
  SpConfig <- MCSpConfig
  Descriptors <- MCDescriptors
  IdpConfig <- MCIdpConfig
  Login = {"la", "lb"}
  LoginOf <- MCLoginOf
  Start <- MCStart
  Transport = {"HttpRedirect", "HttpPost"}
  RelayState <- MCRelayState
  Unsolicited <- MCUnsolicited
  Stray <- MCStray
  h1 = h1
  h2 = h2
  Handle = {h1, h2}
  Subject <- MCSubject
  ForceEncrypt <- MCForce
  Lifetime = 2
  ConfirmationLifetime = 2
  MaxTime = 2
  MaxIssued = 1
SYMMETRY Handles
INVARIANT RequestAuthentic
INVARIANT IssuedBound
INVARIANT EncryptionKept
INVARIANT RoundTrip
CHECK_DEADLOCK FALSE
