----------------------------- MODULE WebSsoProofs -----------------------------
(***************************************************************************)
(* Proofs about Web Browser SSO, for any service providers, descriptors,   *)
(* logins, requests in other hands and sign-ins, any number of requests    *)
(* the IdP works on at a time and of responses, and any lifetimes.         *)
(***************************************************************************)
EXTENDS WebSso, TLAPS

-----------------------------------------------------------------------------
(* The inductive invariant.                                                *)

(* The state is what the operations take it for.                           *)
Shaped ==
  /\ clock \in Nat /\ idp \in IdpConfig
  /\ \A s \in Sps : descriptor[s] \in Descriptors[s]
  /\ descriptor = [s \in Sps |-> descriptor[s]]
  /\ tracker = [l \in Login |-> tracker[l]]
  /\ \A l \in Login : \A t \in tracker[l] : tracker[l] = {t}
  /\ parsed = [h \in Handle |-> parsed[h]]

(* What start_login puts into a request and into the tracker of its login. *)
Asked(xml, t, l) ==
  LET sp == SpConfig[LoginOf[l]] IN
  /\ xml.id = l /\ xml.issuer = sp.entity /\ xml.issue_instant = t.issued_at
  /\ t.issued_at \in Nat
  /\ xml.format = t.format /\ xml.requested = t.requested
  /\ IsOption(xml.acs_index) /\ IsOption(xml.acs_url) /\ IsOption(xml.format)
  /\ xml.acs_index = {} \/ xml.acs_url = {}
  /\ t.request_id = l /\ t.idp = idp.entity /\ t.certs = {idp.entity}
  /\ \E acs \in OwnAcs(sp.endpoints, xml.acs_index, xml.acs_url) :
       t.acs = [url |-> acs.url, binding |-> acs.binding]

(* A request in a browser comes from start_login, together with what it    *)
(* signed, or is unsigned.                                                 *)
FromLogin(m) ==
  \E l \in Login : \E t \in tracker[l] :
    /\ Asked(m.xml, t, l)
    /\ \A s \in m.detached : s.xml = m.xml /\ s.relay_state = t.relay_state

Sent ==
  \A m \in sent : FromLogin(m) \/ (m.xml \in Stray /\ m.detached = {})

(* A call of consume_authn_request that succeeded, on a request and a      *)
(* signed query that were in a browser.                                    *)
Received(x) ==
  /\ RequestVerdict(idp, x) = "Ok" /\ x.binding \in Transport /\ x.now \in Nat
  /\ \E m \in sent : x.xml = m.xml
  /\ \A d \in x.detached : \E m \in sent : d \in m.detached

Parsed ==
  \A h \in Handle : \A p \in parsed[h] :
    /\ parsed[h] = {p} /\ Received(p.call)
    /\ p = [call |-> p.call, held |-> p.held]
    /\ p.held = [public |-> p.held.public, validated |-> Provenance(p.call)]

(* A response is issued on what the library kept of its request.           *)
Answer(m, q) ==
  LET held == consume_authn_request(q) IN
  \/ /\ IssueVerdict(idp, held, m.input) = "Ok"
     /\ m.form = issue_response(idp, held, m.input)
  \/ /\ ErrorVerdict(held, m.input.sp) = "Ok"
     /\ m.form = issue_error_response(idp, held)

Offer(m) ==
  \E url \in Urls, format \in Unsolicited :
    /\ UnsolicitedVerdict(idp, url, format, m.input) = "Ok"
    /\ m.form = issue_unsolicited(idp, url, {}, m.input)

(* What every response was issued with, whatever it answers.               *)
Supplied(m) ==
  /\ \E s \in Sps : m.input.sp \in Descriptors[s]
  /\ m.input.force \in {{}, {TRUE}, {FALSE}}
  /\ {"format", "sp_name_qualifier"} \subseteq DOMAIN m.input.name_id
  /\ m.input.now \in Nat /\ m.input.now <= clock
  /\ m.input.lifetime = Lifetime /\ m.input.confirmation_lifetime = ConfirmationLifetime

Issued ==
  \A m \in issued :
    /\ Supplied(m)
    /\ \A q \in m.query : Received(q) /\ Answer(m, q)
    /\ m.query = {} => Offer(m)

SsoInv == Shaped /\ Sent /\ Parsed /\ Issued

-----------------------------------------------------------------------------
(* What a request that passes consume_authn_request tells.                 *)

LEMMA BothOk ==
  ASSUME NEW a, NEW b
  PROVE  (a && b) = "Ok" <=> a = "Ok" /\ b = "Ok"
BY DEF &&

LEMMA ReceivedFacts ==
  ASSUME NEW x, Received(x)
  PROVE  /\ x.xml.issuer = x.sp.entity
         /\ ResolveAcs(x.xml, x.sp) # {}
         /\ ~(x.now - x.xml.issue_instant > idp.max_age + idp.skew)
<1>1. /\ validate_authn_request(idp, x) = "Ok" /\ Freshness(idp, x) = "Ok"
  BY BothOk DEF Received, RequestVerdict
<1>2. x.xml.issuer = x.sp.entity /\ ResolveAcs(x.xml, x.sp) # {}
  BY <1>1, BothOk DEF validate_authn_request, Reject
<1>3. Reject(x.now - x.xml.issue_instant > idp.max_age + idp.skew, "StaleAuthnRequest") = "Ok"
  BY <1>1, BothOk DEF Freshness
<1>4. QED
  BY <1>2, <1>3 DEF Reject

(* A signature that is required is there, and what it signs is the request *)
(* at hand.                                                                *)
LEMMA SignedFacts ==
  ASSUME NEW x, Received(x), idp.want_signed \/ x.sp.signed
  PROVE  \/ /\ x.binding = "HttpRedirect" /\ x.detached # {}
            /\ \A s \in x.detached : s.xml = x.xml /\ s.relay_state = x.relay_state
         \/ x.binding # "HttpRedirect" /\ x.xml.sig # {}
<1>1. RequestSignature(idp, x) = "Ok" /\ x.binding \in Transport
  BY BothOk DEF Received, RequestVerdict
<1>2. CASE x.binding = "HttpRedirect"
  <2>1. /\ verify_redirect_request_signature(TRUE, x) = "Ok"
        /\ ensure_signed_query_matches(x) = "Ok"
    BY <1>1, <1>2, BothOk DEF RequestSignature
  <2>2. x.detached # {}
    BY <2>1, BothOk DEF verify_redirect_request_signature, Reject
  <2>3. QED
    BY <1>2, <2>1, <2>2 DEF ensure_signed_query_matches, Reject
<1>3. CASE x.binding \in {"HttpPost", "Soap"}
  <2>1. verify_envelope_signature(TRUE, x) = "Ok"
    BY <1>1, <1>3 DEF RequestSignature
  <2>2. QED
    BY <1>3, <2>1, BothOk DEF verify_envelope_signature, VerifyRequired, Reject
<1>4. x.binding # "HttpArtifact"
  BY <1>1 DEF RequestSignature
<1>5. QED
  BY <1>1, <1>2, <1>3, <1>4, WebSsoAssumption

(* The endpoint it resolves to is one the descriptor lists: the one of the *)
(* index, or else of the URL.                                              *)
LEMMA AcsFacts ==
  ASSUME NEW xml, NEW d, ResolveAcs(xml, d) # {},
         IsOption(xml.acs_index), IsOption(xml.acs_url),
         NEW e, e = CHOOSE acs \in ResolveAcs(xml, d) : TRUE
  PROVE  /\ \E n \in DOMAIN d.acs : e = d.acs[n]
         /\ \A index \in xml.acs_index : \E n \in DOMAIN d.acs :
              index \in d.acs[n].index /\ e = d.acs[n]
         /\ xml.acs_index = {} => \A url \in xml.acs_url : e.url = url
<1>1. e \in ResolveAcs(xml, d)
  OBVIOUS
<1>2. CASE xml.acs_index # {}
  <2>1. PICK index \in xml.acs_index : e \in acs_endpoint_by_index(d, index)
    BY <1>1, <1>2 DEF ResolveAcs
  <2>2. \E n \in DOMAIN d.acs : index \in d.acs[n].index /\ e = d.acs[n]
    BY <2>1 DEF acs_endpoint_by_index, FirstOf
  <2>3. QED
    BY <1>2, <2>2 DEF IsOption
<1>3. CASE xml.acs_index = {} /\ xml.acs_url # {}
  <2>1. PICK url \in xml.acs_url : e \in acs_endpoint_by_url(d, url)
    BY <1>1, <1>3 DEF ResolveAcs
  <2>2. \E n \in DOMAIN d.acs : d.acs[n].url = url /\ e = d.acs[n]
    BY <2>1 DEF acs_endpoint_by_url, FirstOf
  <2>3. QED
    BY <1>3, <2>2 DEF IsOption
<1>4. CASE xml.acs_index = {} /\ xml.acs_url = {}
  <2>1. e \in default_acs(d)
    BY <1>1, <1>4 DEF ResolveAcs
  <2>2. \E n \in DOMAIN d.acs : e = d.acs[n]
    BY <2>1 DEF default_acs, FirstOf
  <2>3. QED
    BY <1>4, <2>2
<1>5. QED
  BY <1>2, <1>3, <1>4

-----------------------------------------------------------------------------
(* The initial state and the steps.                                        *)

LEMMA InitInv == Init => SsoInv
<1> SUFFICES ASSUME Init PROVE SsoInv
  OBVIOUS
<1>1. /\ \A l \in Login : tracker[l] = {}
      /\ \A h \in Handle : parsed[h] = {}
      /\ clock \in Nat
  BY DEF Init, Minute
<1>2. Shaped
  BY <1>1 DEF Init, Shaped
<1>3. QED
  BY <1>1, <1>2 DEF Init, SsoInv, Sent, Parsed, Issued

(* The steps, the receipt of a request among them with what it may be      *)
(* given: any request, with any signature seen.                            *)
LEMMA NextCases ==
  ASSUME [Next]_vars
  PROVE  \/ Tick \/ UNCHANGED vars
         \/ \E s \in Sps : \E d \in Descriptors[s] : DescriptorRefresh(s, d)
         \/ \E l \in Login : \E o \in Start[l] :
              start_login(l, o.pick, o.binding, o.relay_state, o.ask)
         \/ \E xml \in Stray : StrayRequest(xml)
         \/ \E h \in Handle : \E x :
              /\ ConsumeRequest(h, x)
              /\ x.binding \in Transport /\ x.now = clock
              /\ \E m \in sent : x.xml = m.xml
              /\ x.detached = {} \/ \E m \in sent : x.detached = m.detached
         \/ \E h \in Handle : \E g \in Handle : MixUp(h, g)
         \/ \E h \in Handle, s \in Sps, subject \in Subject, force \in ForceEncrypt :
              IssueResponse(h, Input(s, subject, force))
         \/ \E h \in Handle, s \in Sps : IssueErrorResponse(h, Input(s, Nobody, {}))
         \/ \E url \in Urls, s \in Sps, subject \in Subject, format \in Unsolicited :
              IssueUnsolicited(url, {}, format, Input(s, subject, {}))
<1>1. ASSUME NEW h \in Handle, NEW m \in sent, NEW signed \in sent, NEW rs \in RelayState,
             NEW s \in Sps, NEW b \in Transport, Arrive(h, m, signed, rs, s, b)
      PROVE  \E x : /\ ConsumeRequest(h, x)
                    /\ x.binding \in Transport /\ x.now = clock
                    /\ \E n \in sent : x.xml = n.xml
                    /\ x.detached = {} \/ \E n \in sent : x.detached = n.detached
  <2>1. PICK detached \in IF b = "HttpPost" THEN {{}} ELSE {{}, signed.detached} :
          ConsumeRequest(h, [xml |-> m.xml, relay_state |-> rs, binding |-> b,
                             detached |-> detached, sp |-> descriptor[s],
                             destination |-> "idp/sso", now |-> clock])
    BY <1>1 DEF Arrive
  <2>2. PICK x : x = [xml |-> m.xml, relay_state |-> rs, binding |-> b,
                      detached |-> detached, sp |-> descriptor[s],
                      destination |-> "idp/sso", now |-> clock]
    OBVIOUS
  <2>3. x.xml = m.xml /\ x.binding = b /\ x.detached = detached /\ x.now = clock
    BY <2>2
  <2>4. ConsumeRequest(h, x)
    BY <2>1, <2>2
  <2>5. QED
    BY <2>3, <2>4
<1>2. CASE Step
  BY <1>1, <1>2 DEF Step
<1>3. QED
  BY <1>2 DEF Next

(* Nothing that was known is forgotten.                                    *)
LEMMA StepKeeps ==
  ASSUME Shaped, [Next]_vars
  PROVE  /\ idp' = idp /\ clock' \in Nat /\ clock' >= clock
         /\ \A m \in sent : m \in sent'
         /\ \A l \in Login : \A t \in tracker[l] : tracker'[l] = tracker[l]
<1>1. CASE Tick
  BY <1>1 DEF Tick, Shaped
<1>2. ASSUME NEW l \in Login, NEW o,
             start_login(l, o.pick, o.binding, o.relay_state, o.ask)
      PROVE  /\ idp' = idp /\ clock' = clock
             /\ \A m \in sent : m \in sent'
             /\ \A k \in Login : \A t \in tracker[k] : tracker'[k] = tracker[k]
  <2>1. PICK new, message : /\ tracker' = [tracker EXCEPT ![l] = new]
                            /\ sent' = sent \cup {message}
    BY <1>2 DEF start_login
  <2>2. tracker[l] = {} /\ idp' = idp /\ clock' = clock
    BY <1>2 DEF start_login
  <2>3. QED
    BY <2>1, <2>2 DEF Shaped
<1>3. \/ Tick
      \/ \E l \in Login : \E o : start_login(l, o.pick, o.binding, o.relay_state, o.ask)
      \/ UNCHANGED <<idp, clock, tracker>> /\ (sent' = sent \/ \E m : sent' = sent \cup {m})
  BY NextCases DEF vars, DescriptorRefresh, StrayRequest, ConsumeRequest, MixUp,
       IssueResponse, IssueErrorResponse, IssueUnsolicited, Deliver
<1>4. CASE UNCHANGED <<idp, clock, tracker>> /\ (sent' = sent \/ \E m : sent' = sent \cup {m})
  BY <1>4 DEF Shaped
<1>5. QED
  BY <1>1, <1>2, <1>3, <1>4 DEF Shaped

(* A request and the tracker made with it.                                 *)
LEMMA StartFacts ==
  ASSUME Shaped, NEW l \in Login, NEW o \in Start[l],
         start_login(l, o.pick, o.binding, o.relay_state, o.ask)
  PROVE  \E t, m : /\ tracker' = [tracker EXCEPT ![l] = {t}] /\ sent' = sent \cup {m}
                   /\ Asked(m.xml, t, l)
                   /\ \A s \in m.detached : s.xml = m.xml /\ s.relay_state = t.relay_state
<1> DEFINE sp == SpConfig[LoginOf[l]]
<1>1. PICK acs \in OwnAcs(sp.endpoints, o.pick.acs_index, o.pick.acs_url) :
        /\ tracker' = [tracker EXCEPT ![l] =
             {[request_id |-> l, issued_at |-> clock, idp |-> idp.entity,
               acs |-> [url |-> acs.url, binding |-> acs.binding], certs |-> {idp.entity},
               format |-> o.ask.format, requested |-> o.ask.requested,
               relay_state |-> o.relay_state]}]
        /\ sent' = sent \cup
             {Dispatch(sp, AuthnRequest(l, sp, o.pick, acs, o.ask), o.binding, o.relay_state)}
  BY DEF start_login
<1>2. PICK t : t = [request_id |-> l, issued_at |-> clock, idp |-> idp.entity,
                    acs |-> [url |-> acs.url, binding |-> acs.binding], certs |-> {idp.entity},
                    format |-> o.ask.format, requested |-> o.ask.requested,
                    relay_state |-> o.relay_state]
  OBVIOUS
<1>3. PICK xml : xml = AuthnRequest(l, sp, o.pick, acs, o.ask)
  OBVIOUS
<1>4. PICK m : m = Dispatch(sp, xml, o.binding, o.relay_state)
  OBVIOUS
<1>5. PICK sig : m.xml = [xml EXCEPT !.sig = sig] /\ (o.binding = "HttpRedirect" => sig = {})
  BY <1>4 DEF Dispatch
<1>6. \A s \in m.detached :
        o.binding = "HttpRedirect" /\ s.xml = xml /\ s.relay_state = o.relay_state
  BY <1>4 DEF Dispatch
<1>7. /\ xml.id = l /\ xml.issuer = sp.entity /\ xml.issue_instant = clock
      /\ xml.acs_index = o.pick.acs_index /\ xml.acs_url = o.pick.acs_url
      /\ xml.format = o.ask.format /\ xml.requested = o.ask.requested
      /\ xml = [id |-> xml.id, issuer |-> xml.issuer, issue_instant |-> xml.issue_instant,
                destination |-> xml.destination, acs_index |-> xml.acs_index,
                acs_url |-> xml.acs_url, protocol_binding |-> xml.protocol_binding,
                format |-> xml.format, requested |-> xml.requested, sig |-> {}]
  BY <1>3 DEF AuthnRequest
<1>8. /\ m.xml.id = l /\ m.xml.issuer = sp.entity /\ m.xml.issue_instant = clock
      /\ m.xml.acs_index = o.pick.acs_index /\ m.xml.acs_url = o.pick.acs_url
      /\ m.xml.format = o.ask.format /\ m.xml.requested = o.ask.requested
  BY <1>5, <1>7
<1>9. o.binding = "HttpRedirect" => m.xml = xml
  BY <1>5, <1>7
<1>10. /\ t.request_id = l /\ t.issued_at = clock /\ t.idp = idp.entity
       /\ t.acs = [url |-> acs.url, binding |-> acs.binding] /\ t.certs = {idp.entity}
       /\ t.format = o.ask.format /\ t.requested = o.ask.requested
       /\ t.relay_state = o.relay_state
  BY <1>2
<1>11. /\ IsOption(o.pick.acs_index) /\ IsOption(o.pick.acs_url) /\ IsOption(o.ask.format)
       /\ o.pick.acs_index = {} \/ o.pick.acs_url = {}
  BY WebSsoAssumption DEF start_login
<1> HIDE DEF sp
<1>12. Asked(m.xml, t, l)
  BY <1>8, <1>10, <1>11 DEF Asked, sp, Shaped
<1>13. \A s \in m.detached : s.xml = m.xml /\ s.relay_state = t.relay_state
  BY <1>6, <1>9, <1>10
<1>14. tracker' = [tracker EXCEPT ![l] = {t}] /\ sent' = sent \cup {m}
  BY <1>1, <1>2, <1>3, <1>4 DEF sp
<1>15. QED
  BY <1>12, <1>13, <1>14

LEMMA StepShaped ==
  ASSUME Shaped, [Next]_vars
  PROVE  Shaped'
<1>1. \A l \in Login : \A t \in tracker'[l] : tracker'[l] = {t}
  <2>1. ASSUME NEW l \in Login, NEW o \in Start[l],
               start_login(l, o.pick, o.binding, o.relay_state, o.ask)
        PROVE  \A k \in Login : \A t \in tracker'[k] : tracker'[k] = {t}
    <3>1. PICK t : tracker' = [tracker EXCEPT ![l] = {t}]
      BY <2>1, StartFacts
    <3>2. QED
      BY <3>1 DEF Shaped
  <2>2. CASE tracker' = tracker
    BY <2>2 DEF Shaped
  <2>3. QED
    BY <2>1, <2>2, NextCases DEF Tick, DescriptorRefresh, StrayRequest, ConsumeRequest, MixUp,
         IssueResponse, IssueErrorResponse, IssueUnsolicited, Deliver, vars
<1>2. tracker' = [l \in Login |-> tracker'[l]]
  <2>1. tracker' = tracker \/ \E l, new : tracker' = [tracker EXCEPT ![l] = new]
    BY NextCases DEF Tick, DescriptorRefresh, StrayRequest, ConsumeRequest, MixUp, start_login,
         IssueResponse, IssueErrorResponse, IssueUnsolicited, Deliver, vars
  <2>2. QED
    BY <2>1 DEF Shaped
<1>3. parsed' = [h \in Handle |-> parsed'[h]]
  <2>1. parsed' = parsed \/ \E h, new : parsed' = [parsed EXCEPT ![h] = new]
    BY NextCases DEF Tick, DescriptorRefresh, StrayRequest, ConsumeRequest, MixUp, start_login,
         IssueResponse, IssueErrorResponse, IssueUnsolicited, Deliver, vars
  <2>2. QED
    BY <2>1 DEF Shaped
<1>4. /\ \A s \in Sps : descriptor'[s] \in Descriptors[s]
      /\ descriptor' = [s \in Sps |-> descriptor'[s]]
  <2>1. \/ descriptor' = descriptor
        \/ \E s \in Sps : \E d \in Descriptors[s] : descriptor' = [descriptor EXCEPT ![s] = d]
    BY NextCases DEF Tick, DescriptorRefresh, StrayRequest, ConsumeRequest, MixUp, start_login,
         IssueResponse, IssueErrorResponse, IssueUnsolicited, Deliver, vars
  <2>2. QED
    BY <2>1 DEF Shaped
<1>5. QED
  BY <1>1, <1>2, <1>3, <1>4, StepKeeps DEF Shaped

LEMMA StepSent ==
  ASSUME Shaped, Sent, [Next]_vars
  PROVE  Sent'
<1>1. ASSUME NEW m, FromLogin(m)
      PROVE  FromLogin(m)'
  BY <1>1, StepKeeps DEF FromLogin, Asked
<1>2. ASSUME NEW l \in Login, NEW o \in Start[l],
             start_login(l, o.pick, o.binding, o.relay_state, o.ask)
      PROVE  Sent'
  <2>1. PICK t, n : /\ tracker' = [tracker EXCEPT ![l] = {t}] /\ sent' = sent \cup {n}
                    /\ Asked(n.xml, t, l)
                    /\ \A s \in n.detached : s.xml = n.xml /\ s.relay_state = t.relay_state
    BY <1>2, StartFacts
  <2>2. tracker'[l] = {t} /\ idp' = idp
    BY <2>1, StepKeeps DEF Shaped
  <2>3. FromLogin(n)'
    BY <2>1, <2>2 DEF FromLogin, Asked
  <2>4. QED
    BY <1>1, <2>1, <2>3 DEF Sent
<1>3. ASSUME NEW xml \in Stray, StrayRequest(xml)
      PROVE  Sent'
  BY <1>1, <1>3 DEF StrayRequest, Sent
<1>4. CASE sent' = sent
  BY <1>1, <1>4 DEF Sent
<1>5. QED
  BY <1>2, <1>3, <1>4, NextCases DEF Tick, DescriptorRefresh, ConsumeRequest, MixUp,
       IssueResponse, IssueErrorResponse, IssueUnsolicited, Deliver, vars

LEMMA ReceivedStays ==
  ASSUME Shaped, [Next]_vars, NEW x, Received(x)
  PROVE  Received(x)'
BY StepKeeps DEF Received

LEMMA StepParsed ==
  ASSUME Shaped, Parsed, [Next]_vars
  PROVE  Parsed'
<1>1. ASSUME NEW h \in Handle, NEW x, ConsumeRequest(h, x), x.binding \in Transport, x.now = clock,
             \E m \in sent : x.xml = m.xml,
             x.detached = {} \/ \E m \in sent : x.detached = m.detached
      PROVE  Parsed'
  <2>1. Received(x)
    BY <1>1 DEF Received, ConsumeRequest, Shaped
  <2>2. PICK p : p = [call |-> x, held |-> consume_authn_request(x)]
    OBVIOUS
  <2>3. /\ p.call = x /\ p = [call |-> p.call, held |-> p.held]
        /\ p.held = [public |-> p.held.public, validated |-> Provenance(x)]
    BY <2>2 DEF consume_authn_request
  <2>4. parsed' = [parsed EXCEPT ![h] = {p}]
    BY <1>1, <2>2 DEF ConsumeRequest
  <2>5. \A g \in Handle : parsed'[g] = IF g = h THEN {p} ELSE parsed[g]
    BY <2>4 DEF Shaped
  <2>6. QED
    BY <2>1, <2>3, <2>5, ReceivedStays DEF Parsed
<1>2. ASSUME NEW h \in Handle, NEW g \in Handle, MixUp(h, g)
      PROVE  Parsed'
  <2>1. PICK p \in parsed[h], o \in parsed[g] :
          parsed' = [parsed EXCEPT ![h] = {[p EXCEPT !.held.public = o.held.public]}]
    BY <1>2 DEF MixUp
  <2>2. PICK n : n = [p EXCEPT !.held.public = o.held.public]
    OBVIOUS
  <2>3. /\ n.call = p.call /\ n = [call |-> n.call, held |-> n.held]
        /\ n.held = [public |-> n.held.public, validated |-> Provenance(p.call)]
    <3>1. /\ p = [call |-> p.call, held |-> p.held]
          /\ p.held = [public |-> p.held.public, validated |-> Provenance(p.call)]
      BY DEF Parsed
    <3>2. PICK call, public, validated :
            p = [call |-> call, held |-> [public |-> public, validated |-> validated]]
      BY <3>1
    <3>3. n = [call |-> call, held |-> [public |-> o.held.public, validated |-> validated]]
      BY <2>2, <3>2
    <3>4. p.call = call /\ p.held.validated = validated
      BY <3>2
    <3>5. Provenance(p.call) = validated
      BY <3>1, <3>4
    <3>6. QED
      BY <3>3, <3>4, <3>5
  <2>4. \A k \in Handle : parsed'[k] = IF k = h THEN {n} ELSE parsed[k]
    BY <2>1, <2>2 DEF Shaped
  <2>5. Received(n.call)'
    BY <2>3, ReceivedStays DEF Parsed
  <2>6. ASSUME NEW k \in Handle, k # h, NEW r \in parsed[k]
        PROVE  Received(r.call)'
    BY ReceivedStays DEF Parsed
  <2>7. QED
    BY <2>3, <2>4, <2>5, <2>6 DEF Parsed
<1>3. CASE parsed' = parsed
  BY <1>3, ReceivedStays DEF Parsed
<1>4. QED
  BY <1>1, <1>2, <1>3, NextCases DEF Tick, DescriptorRefresh, start_login, StrayRequest,
       IssueResponse, IssueErrorResponse, IssueUnsolicited, Deliver, vars

(* Issuance reads nothing of a request but what the library kept.          *)
LEMMA IssueReads ==
  ASSUME NEW held, NEW q, NEW i, held.validated = Provenance(q)
  PROVE  /\ IssueVerdict(idp, held, i) = IssueVerdict(idp, consume_authn_request(q), i)
         /\ issue_response(idp, held, i) = issue_response(idp, consume_authn_request(q), i)
         /\ ErrorVerdict(held, i.sp) = ErrorVerdict(consume_authn_request(q), i.sp)
         /\ issue_error_response(idp, held) =
              issue_error_response(idp, consume_authn_request(q))
<1>1. PICK other : other = consume_authn_request(q)
  OBVIOUS
<1>2. other.validated = held.validated
  BY <1>1 DEF consume_authn_request
<1>3. IssueVerdict(idp, held, i) = IssueVerdict(idp, other, i)
  BY <1>2 DEF IssueVerdict, ensure_request_belongs_to_sp, ensure_sp_key_material_matches,
       ensure_authn_context_satisfies_request
<1>4. issue_response(idp, held, i) = issue_response(idp, other, i)
  BY <1>2 DEF issue_response
<1>5. ErrorVerdict(held, i.sp) = ErrorVerdict(other, i.sp)
  BY <1>2 DEF ErrorVerdict, ensure_request_belongs_to_sp
<1>6. issue_error_response(idp, held) = issue_error_response(idp, other)
  BY <1>2 DEF issue_error_response
<1>7. QED
  BY <1>1, <1>3, <1>4, <1>5, <1>6

LEMMA StepIssued ==
  ASSUME Shaped, Parsed, Issued, [Next]_vars
  PROVE  Issued'
<1>1. ASSUME NEW m \in issued
      PROVE  /\ Supplied(m)' /\ (m.query = {} => Offer(m)')
             /\ \A q \in m.query : Received(q)' /\ Answer(m, q)'
  <2>1. Supplied(m) /\ (m.query = {} => Offer(m)) /\ \A q \in m.query : Received(q) /\ Answer(m, q)
    BY DEF Issued
  <2>2. Supplied(m)'
    <3>1. clock \in Nat /\ clock' \in Nat /\ clock <= clock'
      BY StepKeeps DEF Shaped
    <3>2. m.input.now \in Nat /\ m.input.now <= clock
      BY <2>1 DEF Supplied
    <3>3. m.input.now <= clock'
      BY <3>1, <3>2
    <3>4. QED
      BY <2>1, <3>3 DEF Supplied
  <2>3. \A q \in m.query : Received(q)'
    BY <2>1, ReceivedStays
  <2>4. /\ \A q \in m.query : Answer(m, q)'
        /\ m.query = {} => Offer(m)'
    BY <2>1, StepKeeps DEF Answer, Offer
  <2>5. QED
    BY <2>2, <2>3, <2>4
<1>2. ASSUME NEW m, Supplied(m)', m.query = {} => Offer(m)',
             \A q \in m.query : Received(q)' /\ Answer(m, q)', issued' = issued \cup {m}
      PROVE  Issued'
  BY <1>1, <1>2 DEF Issued
<1>3. ASSUME NEW s \in Sps, NEW subject \in Subject, NEW force \in {{}, {TRUE}, {FALSE}}, NEW m,
             m.input = Input(s, subject, force), UNCHANGED <<clock, idp>>
      PROVE  Supplied(m)'
  <2>1. PICK i : i = Input(s, subject, force)
    OBVIOUS
  <2>2. /\ i.sp = descriptor[s] /\ i.force = force /\ i.now = clock /\ i.name_id = subject.name_id
        /\ i.lifetime = Lifetime /\ i.confirmation_lifetime = ConfirmationLifetime
    BY <2>1 DEF Input
  <2>3. descriptor[s] \in Descriptors[s] /\ clock \in Nat /\ clock <= clock
    BY DEF Shaped
  <2>4. {"format", "sp_name_qualifier"} \subseteq DOMAIN subject.name_id
    BY WebSsoAssumption
  <2>5. QED
    BY <1>3, <2>1, <2>2, <2>3, <2>4 DEF Supplied
<1>4. ASSUME NEW h \in Handle, NEW s \in Sps, NEW subject \in Subject,
             NEW force \in {{}, {TRUE}, {FALSE}},
             \/ IssueResponse(h, Input(s, subject, force))
             \/ IssueErrorResponse(h, Input(s, subject, force))
      PROVE  Issued'
  <2>1. PICK i : i = Input(s, subject, force)
    OBVIOUS
  <2>2. PICK p \in parsed[h] : \E form :
          /\ \/ IssueVerdict(idp, p.held, i) = "Ok" /\ form = issue_response(idp, p.held, i)
             \/ ErrorVerdict(p.held, i.sp) = "Ok" /\ form = issue_error_response(idp, p.held)
          /\ Deliver(form, {p.call}, i)
    BY <1>4, <2>1 DEF IssueResponse, IssueErrorResponse
  <2>3. PICK form :
          /\ \/ IssueVerdict(idp, p.held, i) = "Ok" /\ form = issue_response(idp, p.held, i)
             \/ ErrorVerdict(p.held, i.sp) = "Ok" /\ form = issue_error_response(idp, p.held)
          /\ Deliver(form, {p.call}, i)
    BY <2>2
  <2>4. PICK m : m = [form |-> form, query |-> {p.call}, input |-> i]
    OBVIOUS
  <2>5. m.form = form /\ m.query = {p.call} /\ m.input = i
    BY <2>4
  <2>6. issued' = issued \cup {m} /\ UNCHANGED <<clock, idp>>
    BY <2>3, <2>4 DEF Deliver
  <2>7. Received(p.call)' /\ p.held.validated = Provenance(p.call)
    <3>1. /\ Received(p.call)
          /\ p.held = [public |-> p.held.public, validated |-> Provenance(p.call)]
      BY DEF Parsed
    <3>2. QED
      BY <3>1, ReceivedStays
  <2>8. Answer(m, p.call)
    BY <2>3, <2>5, <2>7, IssueReads DEF Answer
  <2>9. Answer(m, p.call)'
    BY <2>6, <2>8 DEF Answer
  <2>10. QED
    BY <1>2, <1>3, <2>1, <2>5, <2>6, <2>7, <2>9
<1>5. ASSUME NEW url \in Urls, NEW s \in Sps, NEW subject \in Subject, NEW format \in Unsolicited,
             IssueUnsolicited(url, {}, format, Input(s, subject, {}))
      PROVE  Issued'
  <2>1. PICK i : i = Input(s, subject, {})
    OBVIOUS
  <2>2. PICK m : m = [form |-> issue_unsolicited(idp, url, {}, i), query |-> {}, input |-> i]
    OBVIOUS
  <2>3. m.form = issue_unsolicited(idp, url, {}, i) /\ m.query = {} /\ m.input = i
    BY <2>2
  <2>4. issued' = issued \cup {m} /\ UNCHANGED <<clock, idp>>
    BY <1>5, <2>1, <2>2 DEF IssueUnsolicited, Deliver
  <2>5. Offer(m)
    BY <1>5, <2>1, <2>3 DEF Offer, IssueUnsolicited
  <2>6. Offer(m)'
    BY <2>4, <2>5 DEF Offer
  <2>7. QED
    BY <1>2, <1>3, <2>1, <2>3, <2>4, <2>6
<1>6. CASE issued' = issued
  BY <1>1, <1>6 DEF Issued
<1>7. ForceEncrypt \subseteq {{}, {TRUE}, {FALSE}} /\ Nobody \in Subject
  BY WebSsoAssumption DEF Nobody
<1>8. QED
  BY <1>4, <1>5, <1>6, <1>7, NextCases DEF Tick, DescriptorRefresh, start_login, StrayRequest,
       ConsumeRequest, MixUp, vars

LEMMA StepInv == SsoInv /\ [Next]_vars => SsoInv'
BY StepShaped, StepSent, StepParsed, StepIssued DEF SsoInv

-----------------------------------------------------------------------------
(* What the invariant says of a request and of its answer.                 *)

(* A required signature leads back to start_login.                         *)
LEMMA Authentic ==
  ASSUME Sent, NEW x, Received(x), idp.want_signed \/ x.sp.signed
  PROVE  \E l \in Login : \E t \in tracker[l] :
           Asked(x.xml, t, l) /\ (x.binding = "HttpRedirect" => x.relay_state = t.relay_state)
<1>1. CASE x.binding = "HttpRedirect"
  <2>1. PICK s \in x.detached : s.xml = x.xml /\ s.relay_state = x.relay_state
    BY <1>1, SignedFacts
  <2>2. PICK m \in sent : s \in m.detached
    BY DEF Received
  <2>3. FromLogin(m)
    BY <2>2 DEF Sent
  <2>4. QED
    BY <2>1, <2>2, <2>3 DEF FromLogin
<1>2. CASE x.binding # "HttpRedirect"
  <2>1. x.xml.sig # {}
    BY <1>2, SignedFacts
  <2>2. PICK m \in sent : x.xml = m.xml
    BY DEF Received
  <2>3. FromLogin(m)
    BY <2>1, <2>2, WebSsoAssumption DEF Sent
  <2>4. QED
    BY <1>2, <2>2, <2>3 DEF FromLogin
<1>3. QED
  BY <1>1, <1>2

LEMMA RequestOptions ==
  ASSUME Sent, NEW x, Received(x)
  PROVE  IsOption(x.xml.acs_index) /\ IsOption(x.xml.acs_url)
<1>1. PICK m \in sent : x.xml = m.xml
  BY DEF Received
<1>2. CASE FromLogin(m)
  BY <1>1, <1>2 DEF FromLogin, Asked
<1>3. CASE m.xml \in Stray
  BY <1>1, <1>3, WebSsoAssumption
<1>4. QED
  BY <1>2, <1>3 DEF Sent

(* What m says as an answer to q, with the endpoint acs it resolves to.    *)
Replies(m, q, acs) ==
  LET irt == {q.xml.id}
      a == build_assertion(idp, acs, irt, m.input)
  IN  /\ m.input.sp.entity = q.sp.entity
      /\ m.form.relay_state = q.relay_state
      /\ \/ /\ IssueVerdict(idp, consume_authn_request(q), m.input) = "Ok"
            /\ m.form.name_id = QualifiedNameId(m.input)
            /\ m.form.response = build_response(idp, acs, irt, TRUE, <<a>>)
         \/ m.form.response = build_response(idp, acs, irt, FALSE, <<>>)

LEMMA AnswerParts ==
  ASSUME NEW m, NEW q, Answer(m, q), NEW acs, acs = CHOOSE e \in ResolveAcs(q.xml, q.sp) : TRUE
  PROVE  Replies(m, q, acs)
<1>1. PICK held : held = consume_authn_request(q)
  OBVIOUS
<1>2. PICK v : v = Provenance(q)
  OBVIOUS
<1>3. held.validated = v
  BY <1>1, <1>2 DEF consume_authn_request
<1>4. v.sp = q.sp.entity /\ v.acs = acs /\ v.id = q.xml.id /\ v.relay_state = q.relay_state
  BY <1>2 DEF Provenance
<1>5. /\ held.validated.acs = acs /\ held.validated.id = q.xml.id
      /\ held.validated.relay_state = q.relay_state
  BY <1>3, <1>4
<1>6. CASE /\ IssueVerdict(idp, held, m.input) = "Ok"
           /\ m.form = issue_response(idp, held, m.input)
  <2>1. ensure_request_belongs_to_sp(held, m.input.sp) = "Ok"
    BY <1>6, BothOk DEF IssueVerdict
  <2>2. m.input.sp.entity = q.sp.entity
    BY <1>3, <1>4, <2>1 DEF ensure_request_belongs_to_sp, Reject
  <2>3. /\ m.form.relay_state = q.relay_state /\ m.form.name_id = QualifiedNameId(m.input)
        /\ m.form.response = build_response(idp, acs, {q.xml.id}, TRUE,
                               <<build_assertion(idp, acs, {q.xml.id}, m.input)>>)
    <3>1. /\ m.form.relay_state = held.validated.relay_state
          /\ m.form.name_id = QualifiedNameId(m.input)
          /\ m.form.response =
               build_response(idp, held.validated.acs, {held.validated.id}, TRUE,
                 <<build_assertion(idp, held.validated.acs, {held.validated.id}, m.input)>>)
      BY <1>6 DEF issue_response
    <3>2. QED
      BY <3>1, <1>5
  <2>4. QED
    BY <1>1, <1>6, <2>2, <2>3 DEF Replies
<1>7. CASE /\ ErrorVerdict(held, m.input.sp) = "Ok"
           /\ m.form = issue_error_response(idp, held)
  <2>1. ensure_request_belongs_to_sp(held, m.input.sp) = "Ok"
    BY <1>7, BothOk DEF ErrorVerdict
  <2>2. m.input.sp.entity = q.sp.entity
    BY <1>3, <1>4, <2>1 DEF ensure_request_belongs_to_sp, Reject
  <2>3. /\ m.form.relay_state = q.relay_state
        /\ m.form.response = build_response(idp, acs, {q.xml.id}, FALSE, <<>>)
    <3>1. /\ m.form.relay_state = held.validated.relay_state
          /\ m.form.response =
               build_response(idp, held.validated.acs, {held.validated.id}, FALSE, <<>>)
      BY <1>7 DEF issue_error_response
    <3>2. QED
      BY <3>1, <1>5
  <2>4. QED
    BY <2>2, <2>3 DEF Replies
<1>8. QED
  BY <1>1, <1>6, <1>7 DEF Answer

(* What issue_response has checked.                                        *)
LEMMA IssueFacts ==
  ASSUME NEW q, NEW i, IssueVerdict(idp, consume_authn_request(q), i) = "Ok"
  PROVE  /\ i.force = {TRUE} \/ (i.force = {} /\ idp.encrypt) => q.sp.enc = i.sp.enc
         /\ \A ask \in q.xml.requested : is_satisfied(ask, i.class_ref)
         /\ NameIdPolicy(idp, q.xml.format, i) = "Ok" /\ AssertionCheck(i) = "Ok"
<1>1. PICK held : held = consume_authn_request(q)
  OBVIOUS
<1>2. PICK v : v = Provenance(q)
  OBVIOUS
<1>3. held.validated = v
  BY <1>1, <1>2 DEF consume_authn_request
<1>4. v.enc = q.sp.enc /\ v.requested = q.xml.requested /\ v.format = q.xml.format
  BY <1>2 DEF Provenance
<1>5. /\ ensure_sp_key_material_matches(idp, held, i) = "Ok"
      /\ ensure_authn_context_satisfies_request(held, i) = "Ok"
      /\ NameIdPolicy(idp, held.validated.format, i) = "Ok" /\ AssertionCheck(i) = "Ok"
  BY <1>1, BothOk DEF IssueVerdict
<1>6. i.force = {TRUE} \/ (i.force = {} /\ idp.encrypt) => q.sp.enc = i.sp.enc
  BY <1>3, <1>4, <1>5 DEF ensure_sp_key_material_matches, Reject
<1>7. \A ask \in q.xml.requested : is_satisfied(ask, i.class_ref)
  BY <1>3, <1>4, <1>5 DEF ensure_authn_context_satisfies_request, Reject
<1>8. QED
  BY <1>3, <1>4, <1>5, <1>6, <1>7

-----------------------------------------------------------------------------
(* The two roles agree.                                                    *)

LEMMA FirstUnique ==
  ASSUME NEW s, NEW hits, DOMAIN s = 1..Len(s), hits \subseteq DOMAIN s,
         NEW a \in FirstOf(s, hits), NEW b \in FirstOf(s, hits)
  PROVE  a = b
<1>1. PICK i \in hits : a = s[i] /\ \A j \in hits : i <= j
  BY DEF FirstOf
<1>2. PICK j \in hits : b = s[j] /\ \A k \in hits : j <= k
  BY DEF FirstOf
<1>3. i <= j /\ j <= i /\ i \in DOMAIN s /\ j \in DOMAIN s
  BY <1>1, <1>2
<1>4. i \in Int /\ j \in Int
  <2>1. \A n \in 1..Len(s) : n \in Int
    OBVIOUS
  <2>2. QED
    BY <1>3, <2>1
<1>5. i = j
  BY <1>3, <1>4
<1>6. QED
  BY <1>1, <1>2, <1>5

(* Both resolve the endpoint of a request alike, as long as the IdP knows  *)
(* the endpoints of the service provider.                                  *)
LEMMA SameAcs ==
  ASSUME NEW xml, NEW d, DOMAIN d.acs = 1..Len(d.acs),
         IsOption(xml.acs_index), IsOption(xml.acs_url), xml.acs_index = {} \/ xml.acs_url = {},
         NEW own \in OwnAcs(d.acs, xml.acs_index, xml.acs_url), NEW e \in ResolveAcs(xml, d)
  PROVE  own = e
<1>1. CASE xml.acs_index # {}
  <2>1. PICK index \in xml.acs_index : e \in acs_endpoint_by_index(d, index)
    BY <1>1 DEF ResolveAcs
  <2>2. PICK hits : hits = {n \in DOMAIN d.acs : index \in d.acs[n].index}
    OBVIOUS
  <2>3. e \in FirstOf(d.acs, hits)
    BY <2>1, <2>2 DEF acs_endpoint_by_index
  <2>4. xml.acs_index = {index}
    BY DEF IsOption
  <2>5. {n \in DOMAIN d.acs : xml.acs_index \cap d.acs[n].index # {}} = hits
    BY <2>2, <2>4
  <2>6. own \in FirstOf(d.acs, hits)
    BY <1>1, <2>5 DEF OwnAcs
  <2>7. QED
    BY <2>2, <2>3, <2>6, FirstUnique
<1>2. CASE xml.acs_index = {} /\ xml.acs_url # {}
  <2>1. PICK url \in xml.acs_url : e \in acs_endpoint_by_url(d, url)
    BY <1>2 DEF ResolveAcs
  <2>2. PICK hits : hits = {n \in DOMAIN d.acs : d.acs[n].url = url}
    OBVIOUS
  <2>3. e \in FirstOf(d.acs, hits)
    BY <2>1, <2>2 DEF acs_endpoint_by_url
  <2>4. xml.acs_url = {url}
    BY DEF IsOption
  <2>5. {n \in DOMAIN d.acs : d.acs[n].url \in xml.acs_url} = hits
    BY <2>2, <2>4
  <2>6. own \in FirstOf(d.acs, hits)
    BY <1>2, <2>5 DEF OwnAcs
  <2>7. QED
    BY <2>2, <2>3, <2>6, FirstUnique
<1>3. CASE xml.acs_index = {} /\ xml.acs_url = {}
  <2>1. PICK flagged : flagged = {n \in DOMAIN d.acs : d.acs[n].is_default}
    OBVIOUS
  <2>2. PICK hits : hits = IF flagged # {} THEN flagged ELSE DOMAIN d.acs
    OBVIOUS
  <2>3. hits \subseteq DOMAIN d.acs
    BY <2>1, <2>2
  <2>4. e \in FirstOf(d.acs, hits)
    BY <1>3, <2>1, <2>2 DEF ResolveAcs, default_acs
  <2>5. own \in FirstOf(d.acs, hits)
    BY <1>3, <2>1, <2>2 DEF OwnAcs
  <2>6. QED
    BY <2>3, <2>4, <2>5, FirstUnique
<1>4. QED
  BY <1>1, <1>2, <1>3

(* A signature made by the IdP is accepted by who trusts its key.          *)
LEMMA OwnSignature ==
  ASSUME NEW on \in BOOLEAN, NEW element, NEW certs, idp.entity \in certs,
         NEW sigs, sigs = maybe_sign(idp, on, element)
  PROVE  /\ VerifyPresent(sigs, certs, element) = "Ok"
         /\ on => VerifyRequired(sigs, certs, element) = "Ok"
         /\ on <=> sigs # {}
<1>1. PICK sig : sig = [cert |-> idp.entity, covers |-> element, intact |-> TRUE]
  OBVIOUS
<1>2. sigs = IF on THEN {sig} ELSE {}
  BY <1>1 DEF maybe_sign
<1>3. verify_signature(sig, certs, element) = "Ok"
  BY <1>1 DEF verify_signature, Reject
<1>4. VerifyPresent(sigs, certs, element) = "Ok"
  BY <1>2, <1>3 DEF VerifyPresent
<1>5. on => VerifyRequired(sigs, certs, element) = "Ok"
  BY <1>2, <1>4, BothOk DEF VerifyRequired, Reject
<1>6. QED
  BY <1>2, <1>4, <1>5

(* A response the IdP issues passes the gate of a service provider that    *)
(* does not demand more signatures than it makes, and has the key.         *)
LEMMA GatePasses ==
  ASSUME NEW r, NEW a, NEW cx, NEW sp, SignaturesSuffice(sp),
         idp.sign_responses \in BOOLEAN, idp.sign_assertions \in BOOLEAN,
         r.sig = maybe_sign(idp, idp.sign_responses, "Response"),
         a.sig = maybe_sign(idp, idp.sign_assertions, "Assertion"),
         idp.entity \in cx.certs, a.enc \subseteq cx.decryption_keys,
         cx.want_response = sp.want_response, cx.want_assertions = sp.want_assertions
  PROVE  SignatureGate(r, a, cx) = "Ok"
<1>1. /\ VerifyPresent(r.sig, cx.certs, "Response") = "Ok"
      /\ idp.sign_responses => VerifyRequired(r.sig, cx.certs, "Response") = "Ok"
      /\ idp.sign_responses <=> r.sig # {}
  BY OwnSignature
<1>2. /\ VerifyPresent(a.sig, cx.certs, "Assertion") = "Ok"
      /\ idp.sign_assertions => VerifyRequired(a.sig, cx.certs, "Assertion") = "Ok"
      /\ idp.sign_assertions <=> a.sig # {}
  BY OwnSignature
<1>3. /\ sp.want_response => idp.sign_responses
      /\ sp.want_assertions => idp.sign_assertions
      /\ idp.sign_responses \/ idp.sign_assertions
  BY DEF SignaturesSuffice
<1>4. verify_response_and_or_assertion(r, a, cx) = "Ok"
  BY <1>1, <1>2, <1>3, BothOk DEF verify_response_and_or_assertion
<1>5. CASE a.enc # {}
  <2>1. decrypt_encrypted_assertion(a.enc, cx) = "Ok"
    BY <1>5 DEF decrypt_encrypted_assertion, Reject
  <2>2. handle_encrypted(r, a, cx) = "Ok"
    BY <1>1, <1>2, <1>3, <2>1, BothOk DEF handle_encrypted, Reject
  <2>3. QED
    BY <1>5, <2>2 DEF SignatureGate
<1>6. QED
  BY <1>4, <1>5 DEF SignatureGate

(* What an assertion and its confirmation say, field by field.             *)
Says(a, acs, irt, i) ==
  /\ a.issuer = idp.entity /\ a.encrypted_id = {}
  /\ a.enc = IF ShouldEncrypt(idp, i) THEN {CHOOSE k \in i.sp.enc : TRUE} ELSE {}
  /\ a.sig = maybe_sign(idp, idp.sign_assertions, "Assertion")
  /\ a.not_before = {i.now - Minute} /\ a.not_on_or_after = {i.now + i.lifetime}
  /\ a.audiences = {{i.sp.entity}} /\ a.class_ref = {i.class_ref}
  /\ a.has_statement = TRUE /\ a.session_end = {}

Confirms(sc, acs, irt, i) ==
  /\ sc.method = IF i.hok = {} THEN "bearer" ELSE "hok"
  /\ sc.recipient = {acs.url} /\ sc.in_response_to = irt
  /\ sc.not_on_or_after = {i.now + i.confirmation_lifetime}
  /\ sc.not_before = {} /\ sc.keys = i.hok

LEMMA AssertionFields ==
  ASSUME NEW acs, NEW irt, NEW i
  PROVE  Says(build_assertion(idp, acs, irt, i), acs, irt, i)
BY DEF build_assertion, Says

LEMMA ConfirmationFields ==
  ASSUME NEW acs, NEW irt, NEW i
  PROVE  \E sc : /\ build_assertion(idp, acs, irt, i).confirmations = <<sc>>
                 /\ Confirms(sc, acs, irt, i)
<1>1. PICK sc : sc = [method |-> IF i.hok = {} THEN "bearer" ELSE "hok",
                      recipient |-> {acs.url},
                      not_on_or_after |-> {i.now + i.confirmation_lifetime},
                      not_before |-> {}, in_response_to |-> irt, keys |-> i.hok]
  OBVIOUS
<1>2. build_assertion(idp, acs, irt, i).confirmations = <<sc>>
  BY <1>1 DEF build_assertion
<1>3. Confirms(sc, acs, irt, i)
  BY <1>1 DEF Confirms
<1>4. QED
  BY <1>2, <1>3

(* The service provider that reads an assertion of the input i, issued to  *)
(* endpoint acs in answer to irt.                                          *)
Reader(cx, s, acs, irt, i) ==
  /\ s \in Sps /\ cx.sp = SpConfig[s].entity /\ cx.sp = i.sp.entity
  /\ cx.idp = idp.entity /\ idp.entity \in cx.certs
  /\ cx.destination = acs.url /\ cx.tracker = irt /\ cx.now = clock
  /\ irt = {} => cx.allow_unsolicited
  /\ cx.want_response = SpConfig[s].want_response
  /\ cx.want_assertions = SpConfig[s].want_assertions
  /\ cx.skew = SpConfig[s].skew /\ cx.presenter = i.hok
  /\ cx.decryption_keys = SpConfig[s].keys
  /\ \A ask \in cx.requested : is_satisfied(ask, i.class_ref)

(* It holds the key that an assertion for it is encrypted to.              *)
LEMMA KeyHeld ==
  ASSUME NEW cx, NEW s, NEW acs, NEW irt, NEW i, Reader(cx, s, acs, irt, i),
         \E r \in Sps : i.sp \in Descriptors[r], i.force \in {{}, {TRUE}, {FALSE}},
         AssertionCheck(i) = "Ok",
         NEW a, a = build_assertion(idp, acs, irt, i)
  PROVE  a.enc \subseteq cx.decryption_keys
<1>1. a.enc = IF ShouldEncrypt(idp, i) THEN {CHOOSE k \in i.sp.enc : TRUE} ELSE {}
  BY AssertionFields DEF Says
<1>2. ShouldEncrypt(idp, i) => i.sp.enc # {}
  <2>1. Reject(i.force = {TRUE} /\ i.sp.enc = {}, "InvalidConfiguration") = "Ok"
    BY BothOk DEF AssertionCheck
  <2>2. ~(i.force = {TRUE} /\ i.sp.enc = {})
    BY <2>1 DEF Reject
  <2>3. QED
    BY <2>2 DEF ShouldEncrypt
<1>3. i.sp.enc \subseteq SpConfig[s].keys
  <2>1. PICK r \in Sps : i.sp \in Descriptors[r]
    OBVIOUS
  <2>2. i.sp.entity = SpConfig[r].entity /\ i.sp.enc \subseteq SpConfig[r].keys
    BY <2>1, WebSsoAssumption DEF Sps
  <2>3. SpConfig[r].entity = SpConfig[s].entity /\ s \in Sps
    BY <2>2 DEF Reader
  <2>4. r = s
    BY <2>3, WebSsoAssumption DEF Sps
  <2>5. QED
    BY <2>2, <2>4
<1>4. cx.decryption_keys = SpConfig[s].keys
  BY DEF Reader
<1>5. a.enc \subseteq i.sp.enc
  BY <1>1, <1>2
<1>6. QED
  BY <1>3, <1>4, <1>5

(* Its confirmation is one the reader tries, and accepts.                  *)
LEMMA ConfirmationFound ==
  ASSUME NEW cx, NEW s, NEW acs, NEW irt, NEW i, Reader(cx, s, acs, irt, i),
         i.now \in Nat, i.confirmation_lifetime \in Nat, clock \in Nat, SpConfig[s].skew \in Nat,
         clock < i.now + i.confirmation_lifetime + SpConfig[s].skew,
         NEW a, a = build_assertion(idp, acs, irt, i)
  PROVE  find_valid_subject_confirmation(a, cx) = "Ok"
<1>1. PICK sc : a.confirmations = <<sc>> /\ Confirms(sc, acs, irt, i)
  BY ConfirmationFields
<1>2. ~Over(sc.not_on_or_after, cx)
  <2>1. cx.now = clock /\ cx.skew = SpConfig[s].skew
    BY DEF Reader
  <2>2. ~(i.now + i.confirmation_lifetime <= clock - SpConfig[s].skew)
    OBVIOUS
  <2>3. QED
    BY <1>1, <2>1, <2>2 DEF Over, Confirms
<1>3. ~NotYet(sc.not_before, cx)
  BY <1>1 DEF NotYet, Confirms
<1>4. /\ sc.recipient = {cx.destination} /\ sc.in_response_to = cx.tracker
      /\ sc.not_on_or_after # {}
      /\ sc.method = "hok" => cx.presenter \cap sc.keys # {}
  BY <1>1 DEF Reader, Confirms
<1>5. ConfirmationVerdict(sc, cx) = "Ok"
  BY <1>2, <1>3, <1>4, BothOk DEF ConfirmationVerdict, Reject
<1>6. 1 \in DOMAIN a.confirmations /\ a.confirmations[1] = sc
  BY <1>1
<1>7. 1 \in Candidates(a, cx)
  BY <1>1, <1>6 DEF Candidates, Reader, Confirms
<1>8. 1 \in Satisfying(a, cx)
  BY <1>5, <1>6, <1>7 DEF Satisfying
<1>9. QED
  BY <1>7, <1>8 DEF find_valid_subject_confirmation

(* A response issued to a reader is valid to it for as long as it lasts.   *)
LEMMA ValidAnswer ==
  ASSUME NEW cx, NEW s, NEW acs, NEW irt, NEW i, Reader(cx, s, acs, irt, i),
         idp \in IdpConfig, clock \in Nat, i.now \in Nat, i.now <= clock,
         i.lifetime = Lifetime, i.confirmation_lifetime = ConfirmationLifetime,
         clock < i.now + Lifetime + SpConfig[s].skew,
         clock < i.now + ConfirmationLifetime + SpConfig[s].skew,
         SignaturesSuffice(SpConfig[s]),
         \E r \in Sps : i.sp \in Descriptors[r], i.force \in {{}, {TRUE}, {FALSE}},
         AssertionCheck(i) = "Ok",
         NEW a, a = build_assertion(idp, acs, irt, i),
         NEW r, r = build_response(idp, acs, irt, TRUE, <<a>>)
  PROVE  validate_response(r, cx) = "Ok"
<1>1. /\ r.destination = {acs.url} /\ r.issuer = {idp.entity} /\ r.in_response_to = irt
      /\ r.success = TRUE /\ r.stray_signature = FALSE
      /\ r.sig = maybe_sign(idp, idp.sign_responses, "Response") /\ r.assertions = <<a>>
  BY DEF build_response
<1>2. Len(r.assertions) = 1 /\ r.assertions[1] = a
  <2>1. Len(<<a>>) = 1 /\ <<a>>[1] = a
    BY ONLY TRUE
  <2>2. QED
    BY <1>1, <2>1, Zenon
<1>3. Says(a, acs, irt, i)
  BY AssertionFields
<1>4. ResponseChecks(r, cx) = "Ok"
  <2>1. InResponseTo(r.in_response_to, cx) = "Ok"
    BY <1>1 DEF InResponseTo, Reject, Reader
  <2>2. r.destination \subseteq {cx.destination} /\ r.issuer = {cx.idp}
    BY <1>1 DEF Reader
  <2>3. /\ Reject(Len(r.assertions) > 1, "XmlParse") = "Ok"
        /\ Reject(Len(r.assertions) = 0, "XmlParse") = "Ok"
    <3>1. PICK n : n = Len(r.assertions)
      OBVIOUS
    <3>2. ~(n > 1) /\ n # 0
      BY ONLY <1>2, <3>1
    <3>3. QED
      BY <3>1, <3>2 DEF Reject
  <2>4. Reject(~r.success, "StatusNotSuccess") = "Ok" /\ enforce_signature_positions(r) = "Ok"
    BY <1>1 DEF enforce_signature_positions, Reject
  <2>5. /\ Reject(~(r.destination \subseteq {cx.destination}), "DestinationMismatch") = "Ok"
        /\ Reject(r.issuer # {cx.idp}, "IssuerMismatch") = "Ok"
    BY <2>2 DEF Reject
  <2>6. QED
    BY ONLY <2>1, <2>3, <2>4, <2>5, BothOk DEF ResponseChecks
<1>5. SignatureGate(r, a, cx) = "Ok"
  <2>1. a.enc \subseteq cx.decryption_keys
    BY KeyHeld
  <2>2. a.sig = maybe_sign(idp, idp.sign_assertions, "Assertion")
    BY <1>3 DEF Says
  <2>3. idp.sign_responses \in BOOLEAN /\ idp.sign_assertions \in BOOLEAN
    BY WebSsoAssumption
  <2>4. /\ idp.entity \in cx.certs /\ cx.want_response = SpConfig[s].want_response
        /\ cx.want_assertions = SpConfig[s].want_assertions
    BY DEF Reader
  <2>5. r.sig = maybe_sign(idp, idp.sign_responses, "Response")
    BY <1>1
  <2>6. QED
    BY <2>1, <2>2, <2>3, <2>4, <2>5, GatePasses, Zenon
<1>6. AssertionChecks(a, cx) = "Ok"
  <2>1. /\ a.issuer = idp.entity /\ a.encrypted_id = {}
        /\ a.not_before = {i.now - Minute} /\ a.not_on_or_after = {i.now + i.lifetime}
        /\ a.audiences = {{i.sp.entity}} /\ a.class_ref = {i.class_ref}
        /\ a.has_statement = TRUE /\ a.session_end = {}
    BY <1>3 DEF Says
  <2>2. /\ Lifetime \in Nat /\ ConfirmationLifetime \in Nat /\ SpConfig[s].skew \in Nat
        /\ cx.now = clock /\ cx.skew = SpConfig[s].skew
    BY WebSsoAssumption DEF Reader, Sps
  <2>3. decrypt_subject_encrypted_id(a, cx) = "Ok" /\ a.issuer = cx.idp
    BY <2>1 DEF decrypt_subject_encrypted_id, Reader
  <2>4. ConditionsWindow(a, cx) = "Ok"
    <3>1. ~(i.now - Minute > clock + SpConfig[s].skew)
      BY <2>2 DEF Minute
    <3>2. ~(i.now + i.lifetime <= clock - SpConfig[s].skew)
      BY <2>2
    <3>3. ~NotYet(a.not_before, cx) /\ ~Over(a.not_on_or_after, cx)
      BY <2>1, <2>2, <3>1, <3>2 DEF NotYet, Over
    <3>4. QED
      BY <2>1, <3>3, BothOk DEF ConditionsWindow, Reject
  <2>5. AudienceCheck(a, cx) = "Ok"
    BY <2>1 DEF AudienceCheck, Reject, Reader
  <2>6. find_valid_subject_confirmation(a, cx) = "Ok"
    BY <2>2, ConfirmationFound
  <2>7. check_authn_context(a, cx) = "Ok"
    BY <2>1 DEF check_authn_context, Reject, Reader
  <2>8. SessionCheck(a, cx) = "Ok"
    BY <2>1 DEF SessionCheck, Over, Reject
  <2>9. QED
    BY <2>3, <2>4, <2>5, <2>6, <2>7, <2>8, BothOk DEF AssertionChecks, Reject
<1>7. QED
  BY ONLY <1>2, <1>4, <1>5, <1>6, BothOk DEF validate_response

(* The NameID of a response is of the format picked, and a Persistent one  *)
(* is qualified with the service provider it is for.                       *)
LEMMA NameIdKept ==
  ASSUME NEW requested, NEW i, NameIdPolicy(idp, requested, i) = "Ok",
         {"format", "sp_name_qualifier"} \subseteq DOMAIN i.name_id,
         NEW n, n = QualifiedNameId(i)
  PROVE  /\ n.format = i.name_id.format
         /\ n.format = "Persistent" => n.sp_name_qualifier \subseteq {i.sp.entity}
         /\ requested # {} => i.name_id.format \in requested
<1> DEFINE format == IF requested = {} THEN i.name_id.format # idp.default_format
                                      ELSE i.name_id.format \notin requested
           unqualified == /\ i.name_id.format = "Persistent"
                          /\ ~(i.name_id.sp_name_qualifier \subseteq {i.sp.entity})
<1>1. /\ Reject(format, "NameIdFormatMismatch") = "Ok"
      /\ Reject(unqualified, "NameIdSpQualifierMismatch") = "Ok"
  <2>1. NameIdPolicy(idp, requested, i) =
          ((Reject(~(requested \subseteq idp.supported), "UnsupportedNameIdPolicy")
              && Reject(format, "NameIdFormatMismatch"))
             && Reject(unqualified, "NameIdSpQualifierMismatch"))
    BY DEF NameIdPolicy
  <2> HIDE DEF format, unqualified
  <2>2. QED
    BY <2>1, BothOk
<1>2. requested # {} => i.name_id.format \in requested
  BY <1>1 DEF Reject
<1>3. i.name_id.format = "Persistent" => i.name_id.sp_name_qualifier \subseteq {i.sp.entity}
  BY <1>1 DEF Reject
<1>4. CASE i.name_id.format = "Persistent" /\ i.name_id.sp_name_qualifier = {}
  <2>1. n = [i.name_id EXCEPT !.sp_name_qualifier = {i.sp.entity}]
    BY <1>4 DEF QualifiedNameId
  <2>2. n.format = i.name_id.format /\ n.sp_name_qualifier = {i.sp.entity}
    BY <2>1
  <2>3. QED
    BY <1>2, <2>2
<1>5. CASE ~(i.name_id.format = "Persistent" /\ i.name_id.sp_name_qualifier = {})
  BY <1>2, <1>3, <1>5 DEF QualifiedNameId
<1>6. QED
  BY <1>4, <1>5

(* What the service provider reads a response with.                        *)
ReadsWith(cx, sp, x, hok) ==
  /\ cx.idp = x.idp /\ cx.certs = ValidationCerts(x) /\ cx.sp = sp.entity
  /\ cx.destination = x.route.url /\ cx.tracker = TrackedRequest(x)
  /\ cx.allow_unsolicited = sp.allow_unsolicited
  /\ cx.want_response = sp.want_response /\ cx.want_assertions = sp.want_assertions
  /\ cx.now = x.now /\ cx.skew = sp.skew
  /\ cx.requested = UNION {t.requested : t \in x.tracker}
  /\ cx.presenter = hok /\ cx.decryption_keys = sp.keys

LEMMA ContextFields ==
  ASSUME NEW sp, NEW x, NEW hok
  PROVE  ReadsWith([Context(sp, x) EXCEPT !.decryption_keys = sp.keys, !.presenter = hok],
                   sp, x, hok)
<1>1. PICK c : c = Context(sp, x)
  OBVIOUS
<1>2. PICK cx : cx = [c EXCEPT !.decryption_keys = sp.keys, !.presenter = hok]
  OBVIOUS
<1>3. c = [idp |-> x.idp, certs |-> ValidationCerts(x), sp |-> sp.entity,
           destination |-> x.route.url, tracker |-> TrackedRequest(x),
           allow_unsolicited |-> sp.allow_unsolicited, want_response |-> sp.want_response,
           want_assertions |-> sp.want_assertions, now |-> x.now, skew |-> sp.skew,
           requested |-> UNION {t.requested : t \in x.tracker}, presenter |-> {},
           decryption_keys |-> {}]
  BY <1>1 DEF Context
<1>4. ReadsWith(cx, sp, x, hok)
  BY <1>2, <1>3 DEF ReadsWith
<1>5. QED
  BY <1>1, <1>2, <1>4

(* m is a successful response to endpoint acs, in answer to irt, and the   *)
(* service provider s receives it at its endpoint e with the tracker of    *)
(* the request.                                                            *)
Arrived(m, s, acs, irt, tracked, e) ==
  /\ Supplied(m) /\ s \in Sps /\ m.input.sp.entity = SpConfig[s].entity
  /\ SignaturesSuffice(SpConfig[s]) /\ InTime(m, SpConfig[s])
  /\ m.form.response = build_response(idp, acs, irt, TRUE,
                         <<build_assertion(idp, acs, irt, m.input)>>)
  /\ m.form.name_id = QualifiedNameId(m.input) /\ AssertionCheck(m.input) = "Ok"
  /\ \E requested : NameIdPolicy(idp, requested, m.input) = "Ok"
  /\ e.url = acs.url /\ e.url \in {a.url : a \in SpConfig[s].acs}
  /\ irt = {t.request_id : t \in tracked} /\ (irt = {} => SpConfig[s].allow_unsolicited)
  /\ \A t \in tracked :
       /\ t.idp = idp.entity /\ t.certs = {idp.entity}
       /\ t.acs.url = e.url /\ t.acs.binding = e.binding
       /\ \A ask \in t.requested : is_satisfied(ask, m.input.class_ref)
       /\ \A f \in t.format : f = m.input.name_id.format

LEMMA Accepted ==
  ASSUME Shaped, NEW m, NEW s, NEW acs, NEW irt, NEW tracked, NEW e,
         Arrived(m, s, acs, irt, tracked, e)
  PROVE  SpVerdict(SpConfig[s], tracked, m.form, e, m.input.hok) = "Ok"
<1> DEFINE sp == SpConfig[s]
<1>1. PICK x : x = [msg |-> m.form, tracker |-> tracked, idp |-> idp.entity, roots |-> {idp.entity},
                    route |-> e, mode |-> "All", now |-> clock]
  OBVIOUS
<1>2. PICK cx : cx = [Context(sp, x) EXCEPT !.decryption_keys = sp.keys,
                                            !.presenter = m.input.hok]
  OBVIOUS
<1>3. PICK i : i = m.input
  OBVIOUS
<1>4. /\ x.msg = m.form /\ x.tracker = tracked /\ x.idp = idp.entity /\ x.roots = {idp.entity}
      /\ x.route = e /\ x.now = clock
  BY <1>1
<1>5. validate_tracker_context(sp, x) = "Ok"
  <2>1. x.route.url \in {a.url : a \in sp.acs}
    BY <1>4 DEF Arrived
  <2>2. \A k \in x.tracker : /\ k.idp = x.idp /\ k.acs.url = x.route.url
                             /\ k.acs.binding = x.route.binding /\ k.certs \cap x.roots # {}
    BY <1>4 DEF Arrived
  <2>3. QED
    BY <2>1, <2>2, BothOk DEF validate_tracker_context, Reject
<1>6. validate_response(m.form.response, cx) = "Ok"
  <2>1. ReadsWith(cx, sp, x, m.input.hok)
    BY <1>2, ContextFields
  <2>2. idp.entity \in cx.certs
    BY <1>4, <2>1 DEF ReadsWith, ValidationCerts, Arrived
  <2>3. cx.tracker = irt
    BY <1>4, <2>1 DEF ReadsWith, TrackedRequest, Arrived
  <2>4. \A ask \in cx.requested : is_satisfied(ask, i.class_ref)
    BY <1>3, <1>4, <2>1 DEF ReadsWith, Arrived
  <2>5. Reader(cx, s, acs, irt, i)
    BY <1>3, <1>4, <2>1, <2>2, <2>3, <2>4 DEF Reader, ReadsWith, Arrived
  <2>6. /\ idp \in IdpConfig /\ clock \in Nat /\ i.now \in Nat /\ i.now <= clock
        /\ i.lifetime = Lifetime /\ i.confirmation_lifetime = ConfirmationLifetime
        /\ \E r \in Sps : i.sp \in Descriptors[r]
        /\ i.force \in {{}, {TRUE}, {FALSE}}
    BY <1>3 DEF Shaped, Supplied, Arrived
  <2>7. /\ clock < i.now + Lifetime + SpConfig[s].skew
        /\ clock < i.now + ConfirmationLifetime + SpConfig[s].skew
    BY <1>3 DEF InTime, Arrived
  <2>8. PICK a : a = build_assertion(idp, acs, irt, i)
    OBVIOUS
  <2>9. PICK r : r = build_response(idp, acs, irt, TRUE, <<a>>)
    OBVIOUS
  <2>10. m.form.response = r
    BY <1>3, <2>8, <2>9 DEF Arrived
  <2>11. validate_response(r, cx) = "Ok"
    <3>1. SignaturesSuffice(SpConfig[s]) /\ AssertionCheck(i) = "Ok"
      BY <1>3 DEF Arrived
    <3>2. QED
      BY ONLY <2>5, <2>6, <2>7, <2>8, <2>9, <3>1, ValidAnswer, Zenon
  <2>12. QED
    BY <2>10, <2>11
<1>7. NameIdCheck(sp, x) = "Ok"
  <2>1. PICK n : n = QualifiedNameId(i)
    OBVIOUS
  <2>2. {"format", "sp_name_qualifier"} \subseteq DOMAIN i.name_id
    BY <1>3 DEF Supplied, Arrived
  <2>3. /\ n.format = i.name_id.format
        /\ n.format = "Persistent" => n.sp_name_qualifier \subseteq {i.sp.entity}
    <3>1. PICK requested : NameIdPolicy(idp, requested, i) = "Ok"
      BY <1>3 DEF Arrived
    <3>2. QED
      BY <2>1, <2>2, <3>1, NameIdKept
  <2>4. x.msg.name_id = n /\ i.sp.entity = sp.entity
    BY <1>3, <1>4, <2>1 DEF Arrived
  <2>5. \A k \in x.tracker : \A f \in k.format : f = n.format
    BY <1>3, <1>4, <2>3 DEF Arrived
  <2>6. QED
    BY <2>3, <2>4, <2>5, BothOk DEF NameIdCheck, Reject
<1>8. SpVerdict(sp, tracked, m.form, e, m.input.hok) =
        ((validate_tracker_context(sp, x) && validate_response(m.form.response, cx))
           && NameIdCheck(sp, x))
  BY <1>1, <1>2 DEF SpVerdict
<1>9. QED
  BY ONLY <1>5, <1>6, <1>7, <1>8, BothOk

LEMMA AnswerAccepted ==
  ASSUME SsoInv, NEW m \in issued, NEW q \in m.query, NEW s \in Sps,
         NEW l \in Login, l = q.xml.id, NEW t \in tracker[l],
         m.input.sp.entity = SpConfig[s].entity, m.form.response.success,
         SignaturesSuffice(SpConfig[s]), InTime(m, SpConfig[s]), InSync(s, q.sp)
  PROVE  SpVerdict(SpConfig[s], {t}, m.form, t.acs, m.input.hok) = "Ok"
<1>1. /\ Shaped /\ Supplied(m) /\ Received(q) /\ Answer(m, q)
      /\ tracker[l] = {t}
  BY DEF SsoInv, Issued, Shaped
<1>2. Asked(q.xml, t, l)
  <2>1. PICK n \in sent : q.xml = n.xml
    BY <1>1 DEF Received
  <2>2. n.xml \notin Stray
    BY <2>1, WebSsoAssumption
  <2>3. FromLogin(n)
    BY <2>2 DEF SsoInv, Sent
  <2>4. PICK k \in Login : \E u \in tracker[k] : Asked(q.xml, u, k)
    BY <2>1, <2>3 DEF FromLogin
  <2>5. k = l
    BY <2>4 DEF Asked
  <2>6. QED
    BY <1>1, <2>4, <2>5
<1>3. PICK e : e = CHOOSE acs \in ResolveAcs(q.xml, q.sp) : TRUE
  OBVIOUS
<1>4. /\ q.xml.issuer = q.sp.entity /\ ResolveAcs(q.xml, q.sp) # {}
  BY <1>1, ReceivedFacts
<1>5. /\ IssueVerdict(idp, consume_authn_request(q), m.input) = "Ok"
      /\ m.input.sp.entity = q.sp.entity
      /\ m.form.name_id = QualifiedNameId(m.input)
      /\ m.form.response = build_response(idp, e, {l}, TRUE,
                             <<build_assertion(idp, e, {l}, m.input)>>)
  <2>1. PICK r : r = build_response(idp, e, {l}, FALSE, <<>>)
    OBVIOUS
  <2>2. r.success = FALSE
    BY <2>1 DEF build_response
  <2>3. m.form.response # r
    BY <2>2
  <2>4. Replies(m, q, e) /\ {q.xml.id} = {l}
    BY <1>1, <1>3, AnswerParts
  <2>5. QED
    BY <2>1, <2>3, <2>4 DEF Replies
<1>6. LoginOf[l] = s
  <2>1. LoginOf[l] \in Sps
    BY WebSsoAssumption DEF Sps
  <2>2. SpConfig[LoginOf[l]].entity = SpConfig[s].entity
    BY <1>2, <1>4, <1>5 DEF Asked
  <2>3. QED
    BY <2>1, <2>2, WebSsoAssumption DEF Sps
<1>7. PICK own \in OwnAcs(q.sp.acs, q.xml.acs_index, q.xml.acs_url) :
        t.acs = [url |-> own.url, binding |-> own.binding]
  BY <1>2, <1>6 DEF Asked, InSync
<1>8. e \in ResolveAcs(q.xml, q.sp)
  BY <1>3, <1>4
<1>9. /\ IsOption(q.xml.acs_index) /\ IsOption(q.xml.acs_url) /\ IsOption(q.xml.format)
      /\ q.xml.acs_index = {} \/ q.xml.acs_url = {}
      /\ q.xml.format = t.format /\ q.xml.requested = t.requested
      /\ t.request_id = l /\ t.idp = idp.entity /\ t.certs = {idp.entity}
  BY <1>2 DEF Asked
<1>10. own = e
  <2>1. DOMAIN q.sp.acs = 1..Len(q.sp.acs)
    BY WebSsoAssumption DEF InSync, Sps
  <2>2. PICK xml, d : xml = q.xml /\ d = q.sp
    OBVIOUS
  <2>3. QED
    BY ONLY ZenonT(40), <1>7, <1>8, <1>9, <2>1, <2>2, SameAcs
<1>11. t.acs.url = e.url /\ t.acs.binding = e.binding
  BY <1>7, <1>10
<1>12. t.acs.url \in {a.url : a \in SpConfig[s].acs}
  <2>1. PICK n \in DOMAIN q.sp.acs : e = q.sp.acs[n]
    BY <1>3, <1>4, <1>9, AcsFacts
  <2>2. q.sp.acs = SpConfig[s].endpoints
    BY DEF InSync
  <2>3. SpConfig[s].acs = {[url |-> SpConfig[s].endpoints[k].url,
                            binding |-> SpConfig[s].endpoints[k].binding] :
                             k \in DOMAIN SpConfig[s].endpoints}
    BY WebSsoAssumption DEF Sps
  <2>4. t.acs \in SpConfig[s].acs
    BY <1>7, <1>10, <2>1, <2>2, <2>3
  <2>5. QED
    BY <2>4
<1>13. /\ \A ask \in t.requested : is_satisfied(ask, m.input.class_ref)
       /\ NameIdPolicy(idp, q.xml.format, m.input) = "Ok" /\ AssertionCheck(m.input) = "Ok"
  BY ZenonT(40), <1>5, <1>9, IssueFacts
<1>14. \A f \in t.format : f = m.input.name_id.format
  <2>1. {"format", "sp_name_qualifier"} \subseteq DOMAIN m.input.name_id
    BY <1>1 DEF Supplied
  <2>2. q.xml.format # {} => m.input.name_id.format \in q.xml.format
    BY <1>13, <2>1, NameIdKept
  <2>3. QED
    BY <1>9, <2>2 DEF IsOption
<1>15. {l} = {k.request_id : k \in {t}}
  BY <1>9
<1>16. \A k \in {t} : /\ k.idp = idp.entity /\ k.certs = {idp.entity}
                      /\ k.acs.url = t.acs.url /\ k.acs.binding = t.acs.binding
                      /\ \A ask \in k.requested : is_satisfied(ask, m.input.class_ref)
                      /\ \A f \in k.format : f = m.input.name_id.format
  BY <1>9, <1>13, <1>14
<1>17. Arrived(m, s, e, {l}, {t}, t.acs)
  <2>1. {l} # {}
    OBVIOUS
  <2>2. QED
    BY <1>1, <1>5, <1>11, <1>12, <1>13, <1>15, <1>16, <2>1 DEF Arrived
<1>18. QED
  BY <1>1, <1>17, Accepted

LEMMA OfferAccepted ==
  ASSUME SsoInv, NEW m \in issued, m.query = {}, NEW s \in Sps,
         m.input.sp.entity = SpConfig[s].entity,
         SignaturesSuffice(SpConfig[s]), InTime(m, SpConfig[s]), SpConfig[s].allow_unsolicited,
         NEW e \in SpConfig[s].acs, e.url \in m.form.response.destination
  PROVE  SpVerdict(SpConfig[s], {}, m.form, e, m.input.hok) = "Ok"
<1>1. Shaped /\ Supplied(m) /\ Offer(m)
  BY DEF SsoInv, Issued
<1>2. PICK url \in Urls, format \in Unsolicited :
        /\ UnsolicitedVerdict(idp, url, format, m.input) = "Ok"
        /\ m.form = issue_unsolicited(idp, url, {}, m.input)
  BY <1>1 DEF Offer
<1>3. PICK acs : acs = CHOOSE a \in acs_endpoint_by_url(m.input.sp, url) : TRUE
  OBVIOUS
<1>4. /\ m.form.name_id = QualifiedNameId(m.input)
      /\ m.form.response = build_response(idp, acs, {}, TRUE,
                             <<build_assertion(idp, acs, {}, m.input)>>)
  BY <1>2, <1>3 DEF issue_unsolicited
<1>5. NameIdPolicy(idp, format, m.input) = "Ok" /\ AssertionCheck(m.input) = "Ok"
  <2>1. PICK found : UnsolicitedVerdict(idp, url, format, m.input) =
          ((found && NameIdPolicy(idp, format, m.input)) && AssertionCheck(m.input))
    BY DEF UnsolicitedVerdict
  <2>2. QED
    BY <1>2, <2>1, BothOk
<1>6. m.form.response.destination = {acs.url}
  BY <1>4 DEF build_response
<1>7. e.url = acs.url /\ e.url \in {a.url : a \in SpConfig[s].acs}
  BY <1>6
<1>8. {} = {k.request_id : k \in {}}
  OBVIOUS
<1>9. Arrived(m, s, acs, {}, {}, e)
  BY <1>1, <1>4, <1>5, <1>7, <1>8 DEF Arrived
<1>10. QED
  BY <1>1, <1>9, Accepted

-----------------------------------------------------------------------------
(* The theorems.                                                           *)

(* The invariant holds of every reachable state.                           *)
THEOREM SsoInvariant == Spec => []SsoInv
<1>1. Init => SsoInv
  BY InitInv
<1>2. SsoInv /\ [Next]_vars => SsoInv'
  BY StepInv
<1>3. QED
  BY <1>1, <1>2, PTL DEF Spec

(* What the IdP's application holds of a request whose signature was       *)
(* required is what a service provider asked for with start_login,         *)
(* whatever XML, RelayState and signed query were combined in one call of  *)
(* consume_authn_request.                                                  *)
THEOREM SsoRequestAuthentic == Spec => []RequestAuthentic
<1>1. ASSUME SsoInv
      PROVE  RequestAuthentic
  <2> SUFFICES ASSUME NEW h \in Handle, NEW p \in parsed[h], idp.want_signed \/ p.call.sp.signed
               PROVE  /\ p.held.validated.id \in Login
                      /\ \E t \in tracker[p.held.validated.id] :
                           /\ SpConfig[LoginOf[p.held.validated.id]].entity = p.held.validated.sp
                           /\ p.held.validated.format = t.format
                           /\ p.held.validated.requested = t.requested
                           /\ p.call.binding = "HttpRedirect" =>
                                p.held.validated.relay_state = t.relay_state
                           /\ p.call.now - t.issued_at <= idp.max_age + idp.skew
    BY DEF RequestAuthentic
  <2>1. PICK x : x = p.call
    OBVIOUS
  <2>2. Received(x) /\ Sent /\ (idp.want_signed \/ x.sp.signed)
    BY <1>1, <2>1 DEF SsoInv, Parsed
  <2>3. PICK l \in Login : \E t \in tracker[l] :
          Asked(x.xml, t, l) /\ (x.binding = "HttpRedirect" => x.relay_state = t.relay_state)
    BY <2>2, Authentic
  <2>4. PICK t \in tracker[l] :
          Asked(x.xml, t, l) /\ (x.binding = "HttpRedirect" => x.relay_state = t.relay_state)
    BY <2>3
  <2>5. p.held = [public |-> p.held.public, validated |-> Provenance(x)]
    BY <1>1, <2>1 DEF SsoInv, Parsed
  <2>6. PICK v : v = Provenance(x)
    OBVIOUS
  <2>7. /\ v.sp = x.sp.entity /\ v.id = x.xml.id /\ v.format = x.xml.format
        /\ v.requested = x.xml.requested /\ v.relay_state = x.relay_state
    BY <2>6 DEF Provenance
  <2>8. /\ x.xml.issuer = x.sp.entity
        /\ ~(x.now - x.xml.issue_instant > idp.max_age + idp.skew)
    BY <2>2, ReceivedFacts
  <2>9. x.now - t.issued_at <= idp.max_age + idp.skew
    <3>1. x.now \in Nat /\ idp.max_age \in Nat /\ idp.skew \in Nat
      BY <1>1, <2>2, WebSsoAssumption DEF Received, SsoInv, Shaped
    <3>2. t.issued_at \in Nat /\ x.xml.issue_instant = t.issued_at
      BY <2>4 DEF Asked
    <3>3. QED
      BY <2>8, <3>1, <3>2
  <2>10. /\ v.id = l /\ v.sp = SpConfig[LoginOf[l]].entity
         /\ v.format = t.format /\ v.requested = t.requested
    BY <2>7, <2>8, <2>4 DEF Asked
  <2>11. p.held.validated = v
    BY <2>5, <2>6
  <2>12. QED
    BY <2>1, <2>7, <2>9, <2>4, <2>10, <2>11
<1>2. QED
  BY <1>1, SsoInvariant, PTL

(* A response goes to the service provider that made the request, at the   *)
(* endpoint the request resolves to, and says no more than was asked,      *)
(* whatever became of the public fields of the parsed request              *)
(* (issue_response, issue_error_response).                                 *)
THEOREM SsoIssuedBound == Spec => []IssuedBound
<1>1. ASSUME SsoInv
      PROVE  IssuedBound
  <2> SUFFICES ASSUME NEW m \in issued, NEW q \in m.query
               PROVE  LET r == m.form.response IN
                      /\ m.input.sp.entity = q.xml.issuer
                      /\ r.destination \subseteq {q.sp.acs[n].url : n \in DOMAIN q.sp.acs}
                      /\ \A index \in q.xml.acs_index : \E n \in DOMAIN q.sp.acs :
                           index \in q.sp.acs[n].index /\ r.destination = {q.sp.acs[n].url}
                      /\ q.xml.acs_index = {} /\ q.xml.acs_url # {} =>
                           r.destination = q.xml.acs_url
                      /\ r.in_response_to = {q.xml.id}
                      /\ m.form.relay_state = q.relay_state
                      /\ \A n \in DOMAIN r.assertions :
                           /\ r.assertions[n].audiences = {{q.xml.issuer}}
                           /\ \A ask \in q.xml.requested, c \in r.assertions[n].class_ref :
                                is_satisfied(ask, c)
    BY DEF IssuedBound
  <2>1. Received(q) /\ Answer(m, q) /\ Sent
    BY <1>1 DEF SsoInv, Issued
  <2>2. PICK acs : acs = CHOOSE e \in ResolveAcs(q.xml, q.sp) : TRUE
    OBVIOUS
  <2>3. IsOption(q.xml.acs_index) /\ IsOption(q.xml.acs_url)
    BY <2>1, RequestOptions
  <2>4. q.xml.issuer = q.sp.entity /\ ResolveAcs(q.xml, q.sp) # {}
    BY <2>1, ReceivedFacts
  <2>5. /\ \E n \in DOMAIN q.sp.acs : acs = q.sp.acs[n]
        /\ \A index \in q.xml.acs_index : \E n \in DOMAIN q.sp.acs :
             index \in q.sp.acs[n].index /\ acs = q.sp.acs[n]
        /\ q.xml.acs_index = {} => \A url \in q.xml.acs_url : acs.url = url
    BY <2>2, <2>3, <2>4, AcsFacts
  <2>6. PICK r : r = m.form.response
    OBVIOUS
  <2>7. /\ m.input.sp.entity = q.sp.entity /\ m.form.relay_state = q.relay_state
        /\ \/ /\ IssueVerdict(idp, consume_authn_request(q), m.input) = "Ok"
              /\ r = build_response(idp, acs, {q.xml.id}, TRUE,
                       <<build_assertion(idp, acs, {q.xml.id}, m.input)>>)
           \/ r = build_response(idp, acs, {q.xml.id}, FALSE, <<>>)
    <3>1. Replies(m, q, acs)
      BY <2>1, <2>2, AnswerParts
    <3>2. QED
      BY <2>6, <3>1 DEF Replies
  <2>8. r.destination = {acs.url} /\ r.in_response_to = {q.xml.id}
    BY <2>7 DEF build_response
  <2>9. /\ r.destination \subseteq {q.sp.acs[n].url : n \in DOMAIN q.sp.acs}
        /\ \A index \in q.xml.acs_index : \E n \in DOMAIN q.sp.acs :
             index \in q.sp.acs[n].index /\ r.destination = {q.sp.acs[n].url}
    BY <2>5, <2>8
  <2>10. q.xml.acs_index = {} /\ q.xml.acs_url # {} => r.destination = q.xml.acs_url
    BY <2>3, <2>5, <2>8 DEF IsOption
  <2>11. ASSUME NEW n \in DOMAIN r.assertions
         PROVE  /\ r.assertions[n].audiences = {{q.xml.issuer}}
                /\ \A ask \in q.xml.requested, c \in r.assertions[n].class_ref :
                     is_satisfied(ask, c)
    <3>1. PICK a : a = build_assertion(idp, acs, {q.xml.id}, m.input)
      OBVIOUS
    <3>2. r.assertions = <<>> \/ r.assertions = <<a>>
      BY <2>7, <3>1 DEF build_response
    <3>3. r.assertions = <<a>> /\ IssueVerdict(idp, consume_authn_request(q), m.input) = "Ok"
      BY <2>7, <2>11, <3>2 DEF build_response
    <3>4. r.assertions[n] = a
      BY <2>11, <3>3
    <3>5. a.audiences = {{m.input.sp.entity}} /\ a.class_ref = {m.input.class_ref}
      BY <3>1 DEF build_assertion
    <3>6. \A ask \in q.xml.requested : is_satisfied(ask, m.input.class_ref)
      BY <3>3, IssueFacts
    <3>7. QED
      BY <2>4, <2>7, <3>4, <3>5, <3>6
  <2>12. QED
    BY <2>4, <2>6, <2>7, <2>8, <2>9, <2>10, <2>11
<1>2. QED
  BY <1>1, SsoInvariant, PTL

(* An assertion is encrypted to the keys the service provider had when its *)
(* request was validated, or not issued, unless the application asks for   *)
(* plaintext (ensure_sp_key_material_matches).                             *)
THEOREM SsoEncryptionKept == Spec => []EncryptionKept
<1>1. ASSUME SsoInv
      PROVE  EncryptionKept
  <2> SUFFICES ASSUME NEW m \in issued, NEW q \in m.query,
                      idp.encrypt \/ m.input.force = {TRUE},
                      q.sp.enc # {}, m.input.force # {FALSE},
                      NEW n \in DOMAIN m.form.response.assertions
               PROVE  /\ m.form.response.assertions[n].enc # {}
                      /\ m.form.response.assertions[n].enc \subseteq q.sp.enc
    BY DEF EncryptionKept
  <2>1. Answer(m, q) /\ m.input.force \in {{}, {TRUE}}
    BY <1>1 DEF SsoInv, Issued, Supplied
  <2>2. PICK acs : acs = CHOOSE e \in ResolveAcs(q.xml, q.sp) : TRUE
    OBVIOUS
  <2>3. PICK a : a = build_assertion(idp, acs, {q.xml.id}, m.input)
    OBVIOUS
  <2>4. PICK assertions : assertions = m.form.response.assertions
    OBVIOUS
  <2>5. \/ /\ IssueVerdict(idp, consume_authn_request(q), m.input) = "Ok"
           /\ assertions = <<a>>
        \/ assertions = <<>>
    <3>1. PICK r : r = m.form.response
      OBVIOUS
    <3>2. \/ /\ IssueVerdict(idp, consume_authn_request(q), m.input) = "Ok"
             /\ r = build_response(idp, acs, {q.xml.id}, TRUE,
                      <<build_assertion(idp, acs, {q.xml.id}, m.input)>>)
          \/ r = build_response(idp, acs, {q.xml.id}, FALSE, <<>>)
      <4>1. Replies(m, q, acs)
        BY <2>1, <2>2, AnswerParts
      <4>2. QED
        BY <3>1, <4>1 DEF Replies
    <3>3. assertions = r.assertions
      BY <2>4, <3>1
    <3>4. QED
      BY <2>3, <3>2, <3>3 DEF build_response
  <2>6. assertions[n] = a /\ IssueVerdict(idp, consume_authn_request(q), m.input) = "Ok"
    BY <2>4, <2>5
  <2>7. q.sp.enc = m.input.sp.enc
    BY <2>1, <2>6, IssueFacts
  <2>8. ShouldEncrypt(idp, m.input)
    BY <2>1, <2>7 DEF ShouldEncrypt
  <2>9. a.enc = {CHOOSE k \in m.input.sp.enc : TRUE}
    BY <2>3, <2>8 DEF build_assertion
  <2>10. QED
    BY <2>4, <2>6, <2>7, <2>9
<1>2. QED
  BY <1>1, SsoInvariant, PTL

(* A response the IdP issues to a login is accepted by the service         *)
(* provider that started it (consume_response), at the endpoint it named,  *)
(* for as long as it is valid; so is an unsolicited one where they are     *)
(* taken.                                                                  *)
THEOREM SsoRoundTrip == Spec => []RoundTrip
<1>1. ASSUME SsoInv
      PROVE  RoundTrip
  <2>1. ASSUME NEW m \in issued, NEW s \in Sps, NEW q \in m.query,
               NEW l \in {q.xml.id} \cap Login, NEW t \in tracker[l],
               m.input.sp.entity = SpConfig[s].entity, m.form.response.success,
               SignaturesSuffice(SpConfig[s]), InTime(m, SpConfig[s]), InSync(s, q.sp)
        PROVE  SpVerdict(SpConfig[s], {t}, m.form, t.acs, m.input.hok) = "Ok"
    BY <1>1, <2>1, AnswerAccepted
  <2>2. ASSUME NEW m \in issued, m.query = {}, NEW s \in Sps,
               m.input.sp.entity = SpConfig[s].entity,
               SignaturesSuffice(SpConfig[s]), InTime(m, SpConfig[s]),
               SpConfig[s].allow_unsolicited,
               NEW e \in SpConfig[s].acs, e.url \in m.form.response.destination
        PROVE  SpVerdict(SpConfig[s], {}, m.form, e, m.input.hok) = "Ok"
    BY <1>1, <2>2, OfferAccepted
  <2>3. QED
    BY ZenonT(40), <2>1, <2>2 DEF RoundTrip
<1>2. QED
  BY <1>1, SsoInvariant, PTL
=============================================================================
