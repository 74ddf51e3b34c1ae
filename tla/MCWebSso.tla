------------------------------ MODULE MCWebSso ------------------------------
(* Two service providers with a common ACS URL. The first registers two    *)
(* bindings at one URL and a default that is not its first endpoint; its   *)
(* descriptor at the IdP may lack the encryption key or be out of date.    *)
EXTENDS WebSso, TLC

CONSTANTS h1, h2

Handles == Permutations({h1, h2})

At(url, binding, index, is_default) ==
  [url |-> url, binding |-> binding, index |-> {index}, is_default |-> is_default]

EndpointsA == <<At("a/acs", "HttpPost", 0, FALSE), At("a/acs", "HttpArtifact", 1, FALSE),
                At("shared/acs", "HttpPost", 2, TRUE)>>
StaleA == <<At("a/acs", "HttpPost", 0, TRUE), At("shared/acs", "HttpPost", 2, FALSE)>>
EndpointsB == <<At("shared/acs", "HttpPost", 0, FALSE)>>

Config(entity, endpoints, signs, unsolicited) ==
  [entity |-> entity, endpoints |-> endpoints,
   acs |-> {[url |-> endpoints[n].url, binding |-> endpoints[n].binding] :
              n \in DOMAIN endpoints},
   sign_authn_requests |-> signs, allow_unsolicited |-> unsolicited,
   want_response |-> FALSE, want_assertions |-> TRUE, skew |-> 0,
   keys |-> {entity \o "-enc"}]

MCSpConfig == [s \in {"spA", "spB"} |->
  IF s = "spA" THEN Config("spA", EndpointsA, TRUE, FALSE)
               ELSE Config("spB", EndpointsB, TRUE, TRUE)]

Descriptor(entity, acs, enc) ==
  [entity |-> entity, acs |-> acs, enc |-> enc, certs |-> {entity}, signed |-> FALSE]

MCDescriptors == [s \in {"spA", "spB"} |->
  IF s = "spA" THEN {Descriptor("spA", EndpointsA, {"spA-enc"}),
                     Descriptor("spA", StaleA, {})}
               ELSE {Descriptor("spB", EndpointsB, {})}]

Idp(wants, responses, encrypt) ==
  [entity |-> "idp", sso |-> {"idp/sso"}, supported |-> {"Transient", "Persistent"},
   default_format |-> "Transient", want_signed |-> wants, sign_responses |-> responses,
   sign_assertions |-> TRUE, encrypt |-> encrypt, max_age |-> 0, skew |-> 0]

MCIdpConfig == {Idp(TRUE, FALSE, TRUE), Idp(FALSE, TRUE, FALSE)}

MCLoginOf == [l \in {"la", "lb"} |-> IF l = "la" THEN "spA" ELSE "spB"]

MCRelayState == {{}, {"rs"}}

AtLeastMfa == [comparison |-> "Minimum", class_refs |-> {"MultiFactorAuth"}]
Anything == [format |-> {}, requested |-> {}]
Strong == [format |-> {"Persistent"}, requested |-> {AtLeastMfa}]

Options(index, url, binding, relay_state, ask) ==
  [pick |-> [acs_index |-> index, acs_url |-> url], binding |-> binding,
   relay_state |-> relay_state, ask |-> ask]

MCStart == [l \in {"la", "lb"} |->
  IF l = "la" THEN {Options({}, {}, "HttpRedirect", {"rs"}, Strong),
                    Options({1}, {}, "HttpRedirect", {}, Anything),
                    Options({}, {"a/acs"}, "HttpPost", {}, Anything)}
              ELSE {Options({}, {}, "HttpRedirect", {}, Anything)}]

MCUnsolicited == {{}, {"Persistent"}}

MCStray == {[id |-> "x", issuer |-> "spA", issue_instant |-> 1, destination |-> {},
             acs_index |-> {2}, acs_url |-> {"a/acs"}, protocol_binding |-> {},
             format |-> {}, requested |-> {}, sig |-> {}]}

Signed(format, class_ref) ==
  [name_id |-> [format |-> format, sp_name_qualifier |-> {}], class_ref |-> class_ref,
   hok |-> {}]
MCSubject == {Signed("Transient", "Password"),
              [Signed("Persistent", "MultiFactorAuth") EXCEPT !.hok = {"p"}]}

MCForce == {{}, {TRUE}, {FALSE}}
=============================================================================
