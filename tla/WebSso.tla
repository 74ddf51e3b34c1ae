------------------------------- MODULE WebSso -------------------------------
(***************************************************************************)
(* Web Browser SSO end to end: service providers and one identity provider *)
(* that both run the crate. start_login (src/src/sp.rs) makes a request,   *)
(* the browser carries it, consume_authn_request (src/src/idp.rs) turns it *)
(* into a ParsedAuthnRequest the application keeps while the user signs    *)
(* in, issue_response answers it, and consume_response judges the answer.  *)
(*                                                                         *)
(* The IdP's application handles several requests at once, passes the      *)
(* XML, the RelayState and the query signature as separate arguments,      *)
(* looks the SP's descriptor up again when it issues, and owns the public  *)
(* fields of every ParsedAuthnRequest.                                     *)
(***************************************************************************)
EXTENDS ConsumeResponse, IdpSso

CONSTANTS
  SpConfig,     \* SpConfig[s]: configuration of service provider s
  Descriptors,  \* Descriptors[s]: SP descriptors the IdP may have of s
  IdpConfig,    \* the configurations the IdP may run with
  Login,        \* request IDs of logins
  LoginOf,      \* LoginOf[l]: the service provider that login l belongs to
  Start,        \* Start[l]: options of start_login for login l: an ACS
                \* nomination [acs_index, acs_url : options], the binding,
                \* the RelayState, and what it asks for
  Transport,    \* bindings requests travel over
  RelayState,   \* options of RelayState
  Unsolicited,  \* options of NameID format for unsolicited responses
  Stray,        \* AuthnRequests no service provider made
  Handle,       \* requests the IdP's application works on at a time
  Subject,      \* what it signs users in with [name_id, class_ref, hok]
  ForceEncrypt, \* options of force_encrypt_assertion
  Lifetime,     \* assertion_lifetime
  ConfirmationLifetime,  \* subject_confirmation_lifetime
  MaxTime,      \* bound on the clock
  MaxIssued     \* bound on the responses issued; when they are out, only
                \* time goes on

IsOption(S) == \A a, b \in S : a = b

(* A service provider goes by one entity ID, and the IdP has that one and  *)
(* only encryption keys it decrypts with; what it registers are its        *)
(* endpoints. Nobody else signs with its key or guesses a request ID.      *)
ASSUME WebSsoAssumption ==
  /\ Lifetime \in Nat /\ ConfirmationLifetime \in Nat
  /\ MaxTime \in Nat /\ MaxIssued \in Nat
  /\ LoginOf \in [Login -> DOMAIN SpConfig]
  /\ \A s \in DOMAIN SpConfig :
       LET endpoints == SpConfig[s].endpoints IN
       /\ DOMAIN endpoints = 1..Len(endpoints) /\ SpConfig[s].skew \in Nat
       /\ SpConfig[s].acs = {[url |-> endpoints[n].url, binding |-> endpoints[n].binding] :
                               n \in DOMAIN endpoints}
       /\ \A d \in Descriptors[s] :
            d.entity = SpConfig[s].entity /\ d.enc \subseteq SpConfig[s].keys
       /\ \A r \in DOMAIN SpConfig : SpConfig[r].entity = SpConfig[s].entity => r = s
  /\ \A c \in IdpConfig :
       /\ c.max_age \in Nat /\ c.skew \in Nat
       /\ c.sign_responses \in BOOLEAN /\ c.sign_assertions \in BOOLEAN
  /\ Subject # {} /\ \A subject \in Subject :
       {"format", "sp_name_qualifier"} \subseteq DOMAIN subject.name_id
  /\ ForceEncrypt \subseteq {{}, {TRUE}, {FALSE}}
  /\ Transport \subseteq {"HttpRedirect", "HttpPost", "Soap", "HttpArtifact"}
  /\ \A xml \in Stray :
       /\ xml.sig = {} /\ xml.id \notin Login
       /\ IsOption(xml.acs_index) /\ IsOption(xml.acs_url)
  /\ \A l \in Login : \A o \in Start[l] :
       IsOption(o.pick.acs_index) /\ IsOption(o.pick.acs_url) /\ IsOption(o.ask.format)

VARIABLES
  clock,
  idp,         \* the IdP's configuration, fixed at start-up
  descriptor,  \* descriptor[s]: the IdP's current metadata of s
  tracker,     \* tracker[l]: option of the LoginTracker of login l
  sent,        \* requests in browsers [xml, relay_state, detached]
  parsed,      \* parsed[h]: option of a ParsedAuthnRequest and its call
  issued       \* responses issued [form, query : option of its parsed, input]

vars == <<clock, idp, descriptor, tracker, sent, parsed, issued>>

Sps == DOMAIN SpConfig

Init ==
  /\ clock = Minute
  /\ idp \in IdpConfig
  /\ descriptor \in [Sps -> UNION {Descriptors[s] : s \in Sps}]
  /\ \A s \in Sps : descriptor[s] \in Descriptors[s]
  /\ tracker = [l \in Login |-> {}]
  /\ sent = {}
  /\ parsed = [h \in Handle |-> {}]
  /\ issued = {}

Going == Cardinality(issued) < MaxIssued

Tick ==
  /\ clock < MaxTime
  /\ clock' = clock + 1
  /\ UNCHANGED <<idp, descriptor, tracker, sent, parsed, issued>>

DescriptorRefresh(s, d) ==
  /\ d # descriptor[s]
  /\ descriptor' = [descriptor EXCEPT ![s] = d]
  /\ UNCHANGED <<clock, idp, tracker, sent, parsed, issued>>

-----------------------------------------------------------------------------
(* The service provider.                                                   *)

(* start_login resolves the ACS in the SP's own configuration.             *)
OwnAcs(endpoints, index, url) ==
  LET all == DOMAIN endpoints
      flagged == {n \in all : endpoints[n].is_default}
  IN  FirstOf(endpoints,
        IF index # {} THEN {n \in all : index \cap endpoints[n].index # {}}
        ELSE IF url # {} THEN {n \in all : endpoints[n].url \in url}
        ELSE IF flagged # {} THEN flagged
        ELSE all)

(* build_authn_request_xml, before it is signed.                           *)
AuthnRequest(l, sp, pick, acs, ask) ==
  [id |-> l, issuer |-> sp.entity, issue_instant |-> clock,
   destination |-> {"idp/sso"}, acs_index |-> pick.acs_index, acs_url |-> pick.acs_url,
   protocol_binding |-> {acs.binding}, format |-> ask.format,
   requested |-> ask.requested, sig |-> {}]

(* The request encoded for its binding: POST signs the XML, Redirect the   *)
(* query string with the XML and the RelayState in it.                     *)
Dispatch(sp, xml, binding, rs) ==
  LET enveloped == {[cert |-> sp.entity, covers |-> "AuthnRequest", intact |-> TRUE]}
      detached == {[cert |-> sp.entity, intact |-> TRUE, xml |-> xml, relay_state |-> rs]}
      Signed(sig, on) == IF sp.sign_authn_requests /\ binding = on THEN sig ELSE {}
  IN  [xml |-> [xml EXCEPT !.sig = Signed(enveloped, "HttpPost")], relay_state |-> rs,
       detached |-> Signed(detached, "HttpRedirect")]

start_login(l, pick, binding, rs, ask) ==
  LET sp == SpConfig[LoginOf[l]] IN
  /\ tracker[l] = {}
  /\ pick.acs_index = {} \/ pick.acs_url = {}
  /\ \E acs \in OwnAcs(sp.endpoints, pick.acs_index, pick.acs_url) :
       /\ tracker' = [tracker EXCEPT ![l] =
            {[request_id |-> l, issued_at |-> clock, idp |-> idp.entity,
              acs |-> [url |-> acs.url, binding |-> acs.binding], certs |-> {idp.entity},
              format |-> ask.format, requested |-> ask.requested, relay_state |-> rs]}]
       /\ sent' = sent \cup {Dispatch(sp, AuthnRequest(l, sp, pick, acs, ask), binding, rs)}
  /\ UNCHANGED <<clock, idp, descriptor, parsed, issued>>

(* Someone else makes a request in a service provider's name.              *)
StrayRequest(xml) ==
  /\ sent' = sent \cup {[xml |-> xml, relay_state |-> {}, detached |-> {}]}
  /\ UNCHANGED <<clock, idp, descriptor, tracker, parsed, issued>>

(* consume_response on a form delivered to endpoint e against tracker t.   *)
SpVerdict(sp, t, form, e, hok) ==
  LET x == [msg |-> form, tracker |-> t, idp |-> idp.entity, roots |-> {idp.entity},
            route |-> e, mode |-> "All", now |-> clock]
      cx == [Context(sp, x) EXCEPT !.decryption_keys = sp.keys, !.presenter = hok]
  IN     validate_tracker_context(sp, x)
      && validate_response(form.response, cx)
      && NameIdCheck(sp, x)

-----------------------------------------------------------------------------
(* The identity provider. A refused call changes nothing.                  *)

ConsumeRequest(h, x) ==
  /\ parsed[h] = {}
  /\ RequestVerdict(idp, x) = "Ok"
  /\ parsed' = [parsed EXCEPT ![h] = {[call |-> x, held |-> consume_authn_request(x)]}]
  /\ UNCHANGED <<clock, idp, descriptor, tracker, sent, issued>>

(* The application writes the public fields of one request into another.   *)
MixUp(h, g) ==
  /\ \E p \in parsed[h], o \in parsed[g] :
       /\ p.held.public # o.held.public
       /\ parsed' = [parsed EXCEPT ![h] = {[p EXCEPT !.held.public = o.held.public]}]
  /\ UNCHANGED <<clock, idp, descriptor, tracker, sent, issued>>

Input(s, subject, force) ==
  [sp |-> descriptor[s], name_id |-> subject.name_id, class_ref |-> subject.class_ref,
   hok |-> subject.hok, force |-> force, now |-> clock, lifetime |-> Lifetime,
   confirmation_lifetime |-> ConfirmationLifetime, aid |-> "a"]

Nobody == CHOOSE subject \in Subject : TRUE

Deliver(form, query, i) ==
  /\ issued' = issued \cup {[form |-> form, query |-> query, input |-> i]}
  /\ UNCHANGED <<clock, idp, descriptor, tracker, sent, parsed>>

IssueResponse(h, i) ==
  \E p \in parsed[h] :
    /\ IssueVerdict(idp, p.held, i) = "Ok"
    /\ Deliver(issue_response(idp, p.held, i), {p.call}, i)

IssueErrorResponse(h, i) ==
  \E p \in parsed[h] :
    /\ ErrorVerdict(p.held, i.sp) = "Ok"
    /\ Deliver(issue_error_response(idp, p.held), {p.call}, i)

IssueUnsolicited(url, rs, format, i) ==
  /\ UnsolicitedVerdict(idp, url, format, i) = "Ok"
  /\ Deliver(issue_unsolicited(idp, url, rs, i), {}, i)

-----------------------------------------------------------------------------

Urls == UNION {{SpConfig[s].endpoints[n].url : n \in DOMAIN SpConfig[s].endpoints} :
                 s \in Sps}

(* The request m arrives, with whatever signed query was seen and any      *)
(* RelayState, and is held against the descriptor of s.                    *)
Arrive(h, m, signed, rs, s, b) ==
  \E detached \in IF b = "HttpPost" THEN {{}} ELSE {{}, signed.detached} :
    ConsumeRequest(h, [xml |-> m.xml, relay_state |-> rs, binding |-> b,
                       detached |-> detached, sp |-> descriptor[s],
                       destination |-> "idp/sso", now |-> clock])

Step ==
  \/ \E s \in Sps : \E d \in Descriptors[s] : DescriptorRefresh(s, d)
  \/ \E l \in Login : \E o \in Start[l] :
       start_login(l, o.pick, o.binding, o.relay_state, o.ask)
  \/ \E xml \in Stray : StrayRequest(xml)
  \/ \E h \in Handle, m, signed \in sent, rs \in RelayState, s \in Sps, b \in Transport :
       Arrive(h, m, signed, rs, s, b)
  \/ \E h, g \in Handle : MixUp(h, g)
  \/ \E h \in Handle, s \in Sps, subject \in Subject, force \in ForceEncrypt :
       IssueResponse(h, Input(s, subject, force))
  \/ \E h \in Handle, s \in Sps : IssueErrorResponse(h, Input(s, Nobody, {}))
  \/ \E url \in Urls, s \in Sps, subject \in Subject, format \in Unsolicited :
       IssueUnsolicited(url, {}, format, Input(s, subject, {}))

Next == Tick \/ (Going /\ Step)

Spec == Init /\ [][Next]_vars

-----------------------------------------------------------------------------

InSync(s, d) == d.acs = SpConfig[s].endpoints

(* A signature the IdP requires is worth something: the request the        *)
(* application holds is one the named SP made with start_login, no older   *)
(* than allowed, asking for what the SP asked for, and on the Redirect     *)
(* binding it comes with the RelayState the SP signed - whatever XML,      *)
(* RelayState and signed query are combined in one call.                   *)
RequestAuthentic ==
  \A h \in Handle : \A p \in parsed[h] :
    idp.want_signed \/ p.call.sp.signed =>
      LET v == p.held.validated IN
      /\ v.id \in Login
      /\ \E t \in tracker[v.id] :
           /\ SpConfig[LoginOf[v.id]].entity = v.sp
           /\ v.format = t.format /\ v.requested = t.requested
           /\ p.call.binding = "HttpRedirect" => v.relay_state = t.relay_state
           /\ p.call.now - t.issued_at <= idp.max_age + idp.skew

(* An answer goes where the request it answers asked for it, whatever the  *)
(* application did to the public fields of the requests it holds: to the   *)
(* SP that made the request, at an endpoint that SP registers - the one of *)
(* the index it gave, or else of the URL - naming that request, with its   *)
(* RelayState, and at no weaker an authentication.                         *)
IssuedBound ==
  \A m \in issued : \A q \in m.query :
    LET r == m.form.response IN
    /\ m.input.sp.entity = q.xml.issuer
    /\ r.destination \subseteq {q.sp.acs[n].url : n \in DOMAIN q.sp.acs}
    /\ \A index \in q.xml.acs_index : \E n \in DOMAIN q.sp.acs :
         index \in q.sp.acs[n].index /\ r.destination = {q.sp.acs[n].url}
    /\ q.xml.acs_index = {} /\ q.xml.acs_url # {} => r.destination = q.xml.acs_url
    /\ r.in_response_to = {q.xml.id}
    /\ m.form.relay_state = q.relay_state
    /\ \A n \in DOMAIN r.assertions :
         /\ r.assertions[n].audiences = {{q.xml.issuer}}
         /\ \A ask \in q.xml.requested, c \in r.assertions[n].class_ref :
              is_satisfied(ask, c)

(* Opportunistic encryption is never lost on the way: when the SP had      *)
(* encryption keys as its request was validated, an assertion issued       *)
(* without an explicit choice of plaintext is encrypted to one of them,    *)
(* also when the descriptor has changed in between.                        *)
EncryptionKept ==
  \A m \in issued : \A q \in m.query :
    /\ idp.encrypt \/ m.input.force = {TRUE}
    /\ q.sp.enc # {} /\ m.input.force # {FALSE}
    => \A n \in DOMAIN m.form.response.assertions :
         /\ m.form.response.assertions[n].enc # {}
         /\ m.form.response.assertions[n].enc \subseteq q.sp.enc

SignaturesSuffice(sp) ==
  /\ sp.want_response => idp.sign_responses
  /\ sp.want_assertions => idp.sign_assertions
  /\ idp.sign_responses \/ idp.sign_assertions

InTime(m, sp) ==
  /\ clock < m.input.now + Lifetime + sp.skew
  /\ clock < m.input.now + ConfirmationLifetime + sp.skew

(* The two roles agree: a response the IdP issues to a login of an SP is   *)
(* accepted by that SP against the login's tracker at the nominated        *)
(* endpoint for as long as it is valid, provided the IdP's copy of the     *)
(* SP's endpoints was current, it signs what the SP demands, and the       *)
(* status is success. So is an unsolicited one by an SP that takes those.  *)
RoundTrip ==
  \A m \in issued, s \in Sps :
    LET sp == SpConfig[s]
        sound == /\ m.input.sp.entity = sp.entity /\ m.form.response.success
                 /\ SignaturesSuffice(sp) /\ InTime(m, sp)
    IN
    /\ \A q \in m.query : \A l \in {q.xml.id} \cap Login : \A t \in tracker[l] :
         sound /\ InSync(s, q.sp)
           => SpVerdict(sp, {t}, m.form, t.acs, m.input.hok) = "Ok"
    /\ m.query = {} /\ sound /\ sp.allow_unsolicited =>
         \A e \in sp.acs : e.url \in m.form.response.destination =>
           SpVerdict(sp, {}, m.form, e, m.input.hok) = "Ok"
=============================================================================
