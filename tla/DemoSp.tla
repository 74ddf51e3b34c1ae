------------------------------- MODULE DemoSp -------------------------------
(***************************************************************************)
(* The example service provider (src/examples/demo): its HTTP handlers,    *)
(* in the style of IdpApp. One SP serves several identity providers.       *)
(*                                                                         *)
(* app: [providers : sequence of provider, trackers, logouts : stores,     *)
(*      replay : the replay cache]                                         *)
(* provider: [id : slug, idp : entity ID, slo : the IdP's SLO endpoints in *)
(*      its metadata, prefer : option of SLO binding, format : option of   *)
(*      NameID format]                                                     *)
(***************************************************************************)
EXTENDS WebApp

CONSTANT SpEntity

(* InMemoryReplayCache::default().                                         *)
ReplayCapacity == 100000

EmptySp == [providers |-> <<>>, trackers |-> Store!Empty, logouts |-> Store!Empty,
            replay |-> EmptyStore]

(* build_service_provider: the role's configuration.                       *)
Acs == [url |-> SpEntity, binding |-> "HttpPost"]

SpRole ==
  [entity |-> SpEntity, acs |-> {Acs}, allow_unsolicited |-> FALSE, want_response |-> FALSE,
   want_assertions |-> TRUE, skew |-> ClockSkew]

SpSlo == <<[url |-> SpEntity, binding |-> "HttpRedirect"],
           [url |-> SpEntity, binding |-> "HttpPost"]>>

SpParty ==
  [entity |-> SpEntity, role |-> "sp", slo |-> SpSlo, sign_requests |-> TRUE,
   sign_responses |-> TRUE, want_requests |-> FALSE, want_responses |-> FALSE]

IdpParty(p) == [entity |-> p.idp, role |-> "idp", slo |-> p.slo]

(* AppState::new: slugs are unique; of two providers with one entity ID    *)
(* the later one is found.                                                 *)
by_id(app, slug) ==
  {app.providers[n] : n \in {n \in DOMAIN app.providers : app.providers[n].id = slug}}

by_entity_id(app, entity) ==
  LET hits == {n \in DOMAIN app.providers : app.providers[n].idp = entity} IN
  {app.providers[n] : n \in {n \in hits : \A k \in hits : k <= n}}

(* TrackerStore and LogoutTrackerStore.                                    *)
insert_tracker(app, tracker, now) ==
  {[app EXCEPT !.trackers = s] : s \in
     Store!Insert(app.trackers, tracker.request_id, tracker, now,
                  TRACKER_STALE_AFTER, MAX_TRACKERS)}

take_tracker(app, id) == Store!Take(app.trackers, id)

insert_logout_tracker(app, id, peer, now) ==
  {[app EXCEPT !.logouts = s] : s \in
     Store!Insert(app.logouts, id, [peer |-> peer], now, TRACKER_STALE_AFTER, MAX_TRACKERS)}

take_logout_tracker(app, id) == Store!Take(app.logouts, id)

(* find_by_peer: one tracker of the peer, the first in the HashMap's order.*)
find_by_peer(app, peer) == {id \in DOMAIN app.logouts : app.logouts[id].value.peer = peer}

-----------------------------------------------------------------------------
(* Signing in.                                                             *)

AuthnRequest(p, id, now) ==
  [id |-> id, issuer |-> SpEntity, issue_instant |-> now, destination |-> {p.idp},
   acs_index |-> {}, acs_url |-> {}, protocol_binding |-> {"HttpPost"}, format |-> p.format,
   requested |-> {}, sig |-> {}, force_authn |-> FALSE]

LoginTracker(p, id, now) ==
  [request_id |-> id, issued_at |-> now, idp |-> p.idp, acs |-> Acs, certs |-> {p.idp},
   format |-> p.format, requested |-> {}]

(* handle_login: Redirect, signed, with the slug as RelayState.            *)
handle_login(app, slug, now, id) ==
  IF by_id(app, slug) = {} THEN {[app |-> app, reply |-> error_page({id})]}
  ELSE UNION {
    LET xml == AuthnRequest(p, id, now)
        signed == {[cert |-> SpEntity, intact |-> TRUE, xml |-> xml, relay_state |-> {slug}]}
    IN {[app |-> a,
         reply |-> Onward(Request(p.idp, "/saml/sso",
                                  [xml |-> xml, relay_state |-> {slug}, binding |-> "HttpRedirect",
                                   detached |-> signed]), KeepCookie)] :
          a \in insert_tracker(app, LoginTracker(p, id, now), now)} :
    p \in by_id(app, slug)}

(* The call to consume_response, with ReplayMode::All.                     *)
ConsumeForm(p, tracker, form, now) ==
  [msg |-> form, tracker |-> tracker, idp |-> p.idp, roots |-> {p.idp}, route |-> Acs,
   mode |-> "All", now |-> now]

AcsVerdict(x) ==
     validate_tracker_context(SpRole, x)
  && validate_response(x.msg.response, [Context(SpRole, x) EXCEPT !.decryption_keys = {SpEntity}])
  && NameIdCheck(SpRole, x)

Assertion(form) == form.response.assertions[1]

AcsEntries(form) ==
  <<ReplayEntry("Assertion", Assertion(form).id,
                replay_expires_at(CHOOSE t \in Assertion(form).not_on_or_after : TRUE, ClockSkew))>>

SpSession(p, subject, now) ==
  [user |-> subject.user, index |-> subject.index, authn_instant |-> subject.authn_instant,
   issued_at |-> now, idp |-> p.idp, provider |-> p.id]

(* handle_acs: the Issuer selects the provider, the RelayState must be its *)
(* slug, the tracker is taken before the response is validated.            *)
handle_acs(app, form, subject, now) ==
  LET found == UNION {by_entity_id(app, e) : e \in form.response.issuer}
      p == CHOOSE p \in found : TRUE
      taken == [t \in form.response.in_response_to |-> take_tracker(app, t)]
      tracker == UNION {taken[t].found : t \in DOMAIN taken}
      after == IF tracker = {} THEN app
               ELSE [app EXCEPT !.trackers = taken[CHOOSE t \in DOMAIN taken : TRUE].rest]
      about == form.response.in_response_to
      x == ConsumeForm(p, tracker, form, now)
      outcome == Outcome(app.replay, AcsEntries(form), now, ReplayCapacity)
  IN
  IF found = {} \/ ~(form.relay_state \subseteq {p.id})
    THEN {[app |-> app, reply |-> error_page(about)]}
  ELSE IF AcsVerdict(x) # "Ok" THEN {[app |-> after, reply |-> error_page(about)]}
  ELSE {[app |-> [after EXCEPT !.replay =
                    StoreAfter(app.replay, AcsEntries(form), now, ReplayCapacity)],
         reply |-> IF CacheVerdict(outcome, "AssertionReplay") # "accepted" THEN error_page(about)
                   ELSE [Page("dashboard", about) EXCEPT
                           !.cookie = SetCookie(encode(SpSession(p, subject, now), SpEntity))]]}

-----------------------------------------------------------------------------
(* Signing out.                                                            *)

(* Redirect first, unless the provider prefers another one it has.         *)
pick_slo_binding_with_pref(p, prefer) ==
  LET preferred == Usable(IdpParty(p), prefer) IN
  IF preferred # {} THEN preferred
  ELSE IF Usable(IdpParty(p), {"HttpRedirect"}) # {} THEN {"HttpRedirect"}
  ELSE Usable(IdpParty(p), {"HttpPost"})

(* handle_logout: the cookie goes before the IdP is asked.                 *)
handle_logout(app, cookies, now, id) ==
  LET session == decode(cookies, SpEntity, now)
      found == UNION {by_id(app, s.provider) : s \in session}
      bindings == UNION {pick_slo_binding_with_pref(p, p.prefer) : p \in found}
  IN
  IF session = {} THEN {[app |-> app, reply |-> Landing("already-signed-out", {})]}
  ELSE IF found = {} THEN {[app |-> app, reply |-> Landing("signed-out-locally", {})]}
  ELSE IF bindings = {} THEN {[app |-> app, reply |-> Landing("signed-out-locally-no-slo", {})]}
  ELSE UNION {UNION {
    {[app |-> a,
      reply |-> SendLogout(p.idp, Slo!LogoutRequest(SpParty, IdpParty(p), b, id), {p.id},
                           ClearCookie)] :
       a \in insert_logout_tracker(app, id, p.idp, now)} : b \in bindings} : p \in found}

(* Mutant: a response that is refused ends the logout all the same.        *)
BannerIgnoringVerdict(verdict, m) == "signed-out"

Banner(verdict, m) ==
  IF verdict = "Ok" /\ Slo!to_outcome(m.status) \in {"Success", "PartialLogout"}
    THEN "signed-out" ELSE "signed-out-locally"

ResponseVerdict(p, m, id) ==
  Slo!consume_logout_response(SpParty, IdpParty(p), m, m.binding, m.detached, SpEntity, id)

(* handle_slo_response (POST): the tracker is looked up by InResponseTo    *)
(* and taken before the response is validated.                             *)
handle_slo_response(app, m, relay_state) ==
  LET found == UNION {by_id(app, slug) : slug \in relay_state}
      p == CHOOSE p \in found : TRUE
      id == CHOOSE id \in m.in_response_to : TRUE
      taken == take_logout_tracker(app, id)
      verdict == ResponseVerdict(p, m, id)
  IN
  IF found = {} \/ m.in_response_to = {} \/ taken.found = {}
    THEN {[app |-> app, reply |-> Landing("signed-out-locally", m.in_response_to)]}
    ELSE {[app |-> [app EXCEPT !.logouts = taken.rest],
           reply |-> Landing(Banner(verdict, m), {id})]}

(* handle_slo_response_redirect (GET): one tracker of that peer is tried,  *)
(* and dropped only when it was the right one and the outcome is good.     *)
handle_slo_response_redirect(app, m, relay_state) ==
  LET found == UNION {by_id(app, slug) : slug \in relay_state}
      p == CHOOSE p \in found : TRUE
      trackers == UNION {find_by_peer(app, q.idp) : q \in found}
      result(id) == Banner(ResponseVerdict(p, m, id), m)
  IN
  IF trackers = {} THEN {[app |-> app, reply |-> Landing("signed-out-locally", m.in_response_to)]}
  ELSE {[app |-> IF result(id) = "signed-out"
                   THEN [app EXCEPT !.logouts = take_logout_tracker(app, id).rest] ELSE app,
         reply |-> Landing(result(id), m.in_response_to)] : id \in trackers}

(* The provider an inbound LogoutRequest is from: POST reads the Issuer,   *)
(* Redirect tries every provider until one accepts the request.            *)
RequestedBy(app, m, now) ==
  LET routed == IF m.binding = "HttpPost" THEN by_entity_id(app, m.issuer)
                ELSE {app.providers[n] : n \in DOMAIN app.providers}
  IN {p \in routed :
        Slo!consume_logout_request(SpParty, IdpParty(p), m, SpEntity, now, ClockSkew) = "Ok"}

(* handle_slo_request and handle_slo_request_redirect: always Success.     *)
handle_slo_request(app, m, relay_state, now) ==
  LET from == RequestedBy(app, m, now)
      bindings(p) == pick_slo_binding_with_pref(p, {})
  IN
  IF \A p \in from : bindings(p) = {} THEN {[app |-> app, reply |-> error_page({m.id})]}
  ELSE {[app |-> app,
         reply |-> SendLogout(p.idp, Slo!build_logout_response(SpParty, IdpParty(p), m, "Success",
                                        CHOOSE b \in bindings(p) : TRUE), relay_state, ClearCookie)] :
          p \in {p \in from : bindings(p) # {}}}
=============================================================================
