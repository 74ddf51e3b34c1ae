----------------------- MODULE MCFrontChannelChain -----------------------
(* A chain of three targets that sign, answering an IdP that wants its     *)
(* responses signed over POST; the second may answer over Redirect too.    *)
EXTENDS FrontChannelChain

At(url, binding) == [url |-> url, binding |-> binding]

Party(entity, role, slo) ==
  [entity |-> entity, role |-> role, slo |-> slo,
   sign_requests |-> TRUE, sign_responses |-> TRUE,
   want_requests |-> TRUE, want_responses |-> TRUE]

MCIdp == Party("idp", "idp", <<At("idp/slo", "HttpPost"), At("idp/slo", "HttpRedirect")>>)

Sp(entity) == Party(entity, "sp", <<At(entity, "HttpRedirect"), At(entity, "HttpPost")>>)

MCTargets == <<Sp("sp1"), Sp("sp2"), Sp("sp3")>>

PostOnly == [i \in DOMAIN MCTargets |-> {"HttpPost"}]
RedirectToo == [PostOnly EXCEPT ![2] = {"HttpPost", "HttpRedirect"}]
=============================================================================
