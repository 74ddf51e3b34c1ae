--------------------------- MODULE MCExampleApps ---------------------------
(***************************************************************************)
(* The demo SP with two providers. The first is the example IdP as it is   *)
(* configured out of the box. The second prefers POST for logout; its IdP, *)
(* played by the same program, knows the SP's Redirect endpoint only. The  *)
(* first also serves another SP, whose request over POST asks for a fresh  *)
(* login.                                                                  *)
(***************************************************************************)
EXTENDS ExampleApps

IdpSlo == <<[url |-> "idp1", binding |-> "HttpPost"], [url |-> "idp1", binding |-> "HttpRedirect"]>>

MCProviders ==
  <<[id |-> "p1", idp |-> "idp1", slo |-> IdpSlo, prefer |-> {}, format |-> {}],
    [id |-> "p2", idp |-> "idp2", prefer |-> {"HttpPost"}, format |-> {"EmailAddress"},
     slo |-> <<[url |-> "idp2", binding |-> "HttpPost"],
               [url |-> "idp2", binding |-> "HttpRedirect"]>>]>>

Descriptor(entity, slo) ==
  [entity |-> entity, enc |-> {entity}, certs |-> {entity}, signed |-> TRUE, slo |-> slo,
   acs |-> <<[url |-> entity, binding |-> "HttpPost", index |-> {0}, is_default |-> TRUE]>>]

MCRegistry ==
  [i \in {"idp1", "idp2"} |->
     IF i = "idp1" THEN {Descriptor("sp", Sp!SpSlo), Descriptor("sp2", <<>>)}
     ELSE {Descriptor("sp", <<[url |-> "sp", binding |-> "HttpRedirect"]>>)}]

ForcedRequest ==
  [id |-> 0, issuer |-> "sp2", issue_instant |-> 1, destination |-> {"idp1"}, acs_index |-> {},
   acs_url |-> {}, protocol_binding |-> {}, format |-> {}, requested |-> {}, force_authn |-> TRUE,
   sig |-> {[cert |-> "sp2", covers |-> "AuthnRequest", intact |-> TRUE]}]

MCOtherRequests ==
  {Request("idp1", "/saml/sso", [xml |-> ForcedRequest, relay_state |-> {}, binding |-> "HttpPost",
                                 detached |-> {}])}

MCUsers == {[id |-> "u", email |-> "u@", password |-> "pw"]}

(* Under these constants nothing may be forgotten.                         *)
ASSUME EverybodyServed == Servable
=============================================================================
