------------------------------- MODULE IdpApp -------------------------------
(***************************************************************************)
(* The example identity provider (src/examples/idp): its HTTP handlers as  *)
(* functions of the application state, the request and the browser's       *)
(* cookie. Each yields the set of [app, reply] it may end with (a HashMap  *)
(* is searched in any order).                                              *)
(*                                                                         *)
(* app: [sps : the registered SpDescriptors, pending : store of requests   *)
(*      [parsed, sp], logouts : store of LogoutTrackers [peer]]            *)
(* A descriptor has, besides the fields of IdpSso, slo : its SLO endpoints.*)
(***************************************************************************)
EXTENDS WebApp

(* The user database: [id, email, password].                               *)
CONSTANT Users

(* SAML_IDP_FORCE_ENCRYPT.                                                 *)
CONSTANT ForceEncrypt

EmptyIdp == [sps |-> {}, pending |-> Store!Empty, logouts |-> Store!Empty]

(* build_identity_provider: the role's configuration, as IdpSso and as     *)
(* LogoutMessages read it.                                                 *)
IdpRole(i) ==
  [entity |-> i, sso |-> {i}, supported |-> {"EmailAddress", "Persistent", "Unspecified"},
   default_format |-> "EmailAddress", want_signed |-> TRUE, sign_responses |-> FALSE,
   sign_assertions |-> TRUE, encrypt |-> FALSE, max_age |-> MaxRequestAge, skew |-> ClockSkew]

IdpParty(i) ==
  [entity |-> i, role |-> "idp",
   slo |-> <<[url |-> i, binding |-> "HttpPost"], [url |-> i, binding |-> "HttpRedirect"]>>,
   sign_requests |-> TRUE, sign_responses |-> TRUE, want_requests |-> TRUE,
   want_responses |-> FALSE]

SpParty(d) == [entity |-> d.entity, role |-> "sp", slo |-> d.slo]

sp_by_entity_id(app, entity) == {d \in app.sps : d.entity = entity}

(* PendingStore and LogoutTrackerStore.                                    *)
insert_pending(app, id, request, now) ==
  {[app EXCEPT !.pending = s] : s \in
     Store!Insert(app.pending, id, request, now, PENDING_STALE_AFTER, MAX_PENDING)}

take_pending(app, id) == Store!Take(app.pending, id)

insert_logout_tracker(app, id, peer, now) ==
  {[app EXCEPT !.logouts = s] : s \in
     Store!Insert(app.logouts, id, [peer |-> peer], now, TRACKER_STALE_AFTER, MAX_TRACKERS)}

take_logout_tracker(app, id) == Store!Take(app.logouts, id)

-----------------------------------------------------------------------------
(* UserStore: the name typed is an id, or else an e-mail address; its case *)
(* does not count, so addresses that differ in it only are one value.      *)

lookup(name) ==
  LET by_id == {u \in Users : u.id = name} IN
  IF by_id # {} THEN by_id ELSE {u \in Users : u.email = name}

(* Mutant: whoever exists is let in.                                       *)
AnyPassword(name, password) == lookup(name)

verify_password(name, password) == {u \in lookup(name) : u.password = password}

-----------------------------------------------------------------------------
(* Single sign-on.                                                         *)

resolve_force_encrypt(d) == IF ForceEncrypt /\ d.enc # {} THEN {TRUE} ELSE {}

(* The IssueResponse input. The session's subject travels in the assertion.*)
LoginResponse(d, session, now, aid) ==
  [sp |-> d, name_id |-> [format |-> "EmailAddress", sp_name_qualifier |-> {}],
   class_ref |-> "PasswordProtectedTransport", hok |-> {}, force |-> resolve_force_encrypt(d),
   now |-> now, lifetime |-> AssertionLifetime, confirmation_lifetime |-> AssertionLifetime,
   aid |-> aid]

(* finalize_login, also for a session that is older than the request.      *)
finalize_login(i, d, parsed, session, now, aid) ==
  LET issue == LoginResponse(d, session, now, aid) IN
  IF \/ \A u \in Users : u.id # session.user
     \/ IssueVerdict(IdpRole(i), parsed, issue) # "Ok"
    THEN error_page({parsed.validated.id})
    ELSE Onward(Request(d.entity, "/saml/acs",
                        [form |-> issue_response(IdpRole(i), parsed, issue),
                         subject |-> session]), KeepCookie)

(* Mutant: a session answers every request.                                *)
PromptIgnoringForce(session, xml) == session = {}

(* Whether the user is asked for the password.                             *)
Prompt(session, xml) == session = {} \/ xml.force_authn

(* handle_sso_get and handle_sso_post: the request is stored before the    *)
(* session is looked at, and stays there when it is answered at once.      *)
handle_sso(i, app, q, cookies, now, aid) ==
  LET found == sp_by_entity_id(app, q.xml.issuer)
      session == decode(cookies, i, now)
      call(d) == [xml |-> q.xml, relay_state |-> q.relay_state, binding |-> q.binding,
                  detached |-> q.detached, sp |-> d, destination |-> i, now |-> now]
      refused == \A d \in found : RequestVerdict(IdpRole(i), call(d)) # "Ok"
  IN
  IF refused THEN {[app |-> app, reply |-> error_page({q.xml.id})]}
  ELSE UNION {
    LET parsed == consume_authn_request(call(d)) IN
    {[app |-> a,
      reply |-> IF Prompt(session, q.xml)
                  THEN Onward(Request(i, "/saml/sso/login", [request_id |-> q.xml.id]), KeepCookie)
                  ELSE finalize_login(i, d, parsed, CHOOSE s \in session : TRUE, now, aid)] :
       a \in insert_pending(app, q.xml.id, [parsed |-> parsed, sp |-> d.entity], now)} :
    d \in found}

(* The Set-Cookie of a password login.                                     *)
SessionCookie(session, key) == SetCookie(encode(session, key))

(* handle_login: a fresh session, whoever was signed in before; without a  *)
(* request to go on with, the landing page.                                *)
handle_login(i, app, form, now, index) ==
  LET users == verify_password(form.username, form.password)
      user == CHOOSE u \in users : TRUE
      session == [user |-> user.id, index |-> index, authn_instant |-> now, issued_at |-> now]
  IN {[app |-> app,
       reply |-> IF users = {} THEN Page("login", form.request_id)
                 ELSE [cookie |-> SessionCookie(session, i),
                       go |-> {Request(i, "/saml/sso/continue", [request_id |-> id]) :
                                 id \in form.request_id},
                       page |-> [kind |-> "onward", about |-> {}]]]}

(* finalize_continue: the pending request is taken, whatever follows.      *)
finalize_continue(i, app, id, cookies, now, aid) ==
  LET session == decode(cookies, i, now)
      taken == take_pending(app, id)
      after == [app EXCEPT !.pending = taken.rest]
      sp == UNION {sp_by_entity_id(app, p.sp) : p \in taken.found}
  IN
  IF session = {}
    THEN {[app |-> app, reply |-> Onward(Request(i, "/saml/sso/login",
                                                 [request_id |-> id]), KeepCookie)]}
  ELSE IF taken.found = {} THEN {[app |-> app, reply |-> Page("gone", {id})]}
  ELSE {[app |-> after,
         reply |-> IF sp = {} THEN error_page({id})
                   ELSE finalize_login(i, CHOOSE d \in sp : TRUE, p.parsed,
                                       CHOOSE s \in session : TRUE, now, aid)] :
          p \in taken.found}

-----------------------------------------------------------------------------
(* Single logout.                                                          *)

pick_slo_binding(d) ==
  IF Usable(SpParty(d), {"HttpPost"}) # {} THEN {"HttpPost"}
  ELSE Usable(SpParty(d), {"HttpRedirect"})

handle_logout_self(app) == {[app |-> app, reply |-> Landing("signed-out-locally", {})]}

(* handle_logout_everywhere: any one SP that advertises an SLO endpoint;   *)
(* the cookie stays until that SP answers.                                 *)
handle_logout_everywhere(i, app, cookies, now, id) ==
  LET session == decode(cookies, i, now)
      first_sp_with_slo == {d \in app.sps : pick_slo_binding(d) # {}}
  IN
  IF session = {} THEN {[app |-> app, reply |-> Landing("already-signed-out", {})]}
  ELSE IF first_sp_with_slo = {}
    THEN {[app |-> app, reply |-> Landing("signed-out-locally", {})]}
  ELSE UNION {UNION {
    {[app |-> a,
      reply |-> SendLogout(d.entity, Slo!LogoutRequest(IdpParty(i), SpParty(d), b, id), {},
                           KeepCookie)] :
       a \in insert_logout_tracker(app, id, d.entity, now)} :
    b \in pick_slo_binding(d)} : d \in first_sp_with_slo}

(* handle_slo_get and handle_slo_request_post: the answer is always        *)
(* Success, and the cookie of the browser that carries it is cleared.      *)
handle_slo_request(i, app, m, relay_state, now) ==
  LET found == {d \in sp_by_entity_id(app, m.issuer) :
                  Slo!consume_logout_request(IdpParty(i), SpParty(d), m, i, now, ClockSkew) = "Ok"}
      binding(d) == IF pick_slo_binding(d) = {} THEN "HttpPost"
                    ELSE CHOOSE b \in pick_slo_binding(d) : TRUE
  IN {[app |-> app,
       reply |-> IF \A d \in found : ~Slo!CanRespond(IdpParty(i), SpParty(d), binding(d))
                   THEN error_page({m.id})
                 ELSE LET d == CHOOSE d \in found : TRUE IN
                      SendLogout(d.entity,
                                 Slo!build_logout_response(IdpParty(i), SpParty(d), m, "Success",
                                                           binding(d)),
                                 relay_state, ClearCookie)]}

Everywhere(outcome) ==
  IF outcome \in {"Success", "PartialLogout"} THEN "signed-out" ELSE "signed-out-locally"

(* consume_logout_response_xml: the tracker is taken before the response   *)
(* is validated, and is used up when it is refused.                        *)
consume_logout_response_xml(i, app, m) ==
  LET found == sp_by_entity_id(app, m.issuer)
      id == CHOOSE id \in m.in_response_to : TRUE
      taken == take_logout_tracker(app, id)
      verdict(d) == Slo!consume_logout_response(IdpParty(i), SpParty(d), m, m.binding, m.detached,
                                                i, id)
  IN
  IF found = {} \/ m.in_response_to = {} \/ taken.found = {}
    THEN {[app |-> app, reply |-> error_page({})]}
    ELSE {[app |-> [app EXCEPT !.logouts = taken.rest],
           reply |-> IF verdict(d) # "Ok" THEN error_page({id})
                     ELSE Landing(Everywhere(Slo!to_outcome(m.status)), {id})] : d \in found}
=============================================================================
