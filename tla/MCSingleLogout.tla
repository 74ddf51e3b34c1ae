-------------------------- MODULE MCSingleLogout --------------------------
(* One IdP and two SPs that sign everything, in three deployments: over    *)
(* POST and Redirect without demanding signatures, over POST and SOAP and  *)
(* over Redirect alone with every message demanded signed, as in the       *)
(* crate's quick start.                                                    *)
EXTENDS SingleLogout, TLC

CONSTANTS r1, r2

Requests == Permutations({r1, r2})

At(url, binding) == [url |-> url, binding |-> binding]

Party(entity, role, slo, signs, wants) ==
  [entity |-> entity, role |-> role, slo |-> slo,
   sign_requests |-> signs, sign_responses |-> signs,
   want_requests |-> wants, want_responses |-> wants]

FrontChannel ==
  <<Party("idp", "idp", <<At("idp/slo", "HttpPost"), At("idp/slo", "HttpRedirect")>>,
          TRUE, FALSE),
    Party("sp1", "sp", <<At("sp1/slo", "HttpRedirect"), At("sp1/slo", "HttpPost")>>,
          TRUE, FALSE),
    Party("sp2", "sp", <<At("sp2/slo", "HttpPost")>>, TRUE, FALSE)>>

PostAndSoap ==
  <<Party("idp", "idp", <<At("idp/slo", "HttpPost"), At("idp/soap", "Soap")>>, TRUE, TRUE),
    Party("sp1", "sp", <<At("sp1/slo", "HttpPost"), At("sp1/soap", "Soap")>>, TRUE, TRUE),
    Party("sp2", "sp", <<At("sp2/slo", "HttpPost")>>, TRUE, TRUE)>>

RedirectOnly ==
  <<Party("idp", "idp", <<At("idp/slo", "HttpRedirect")>>, TRUE, TRUE),
    Party("sp1", "sp", <<At("sp1/slo", "HttpRedirect")>>, TRUE, TRUE),
    Party("sp2", "sp", <<At("sp2/slo", "HttpRedirect")>>, TRUE, TRUE)>>

Deployment(parties) ==
  [n \in {"idp", "sp1", "sp2"} |-> CHOOSE p \in {parties[i] : i \in 1..3} : p.entity = n]

PostDeployments == {Deployment(FrontChannel), Deployment(PostAndSoap)}
RedirectDeployment == {Deployment(RedirectOnly)}
=============================================================================
