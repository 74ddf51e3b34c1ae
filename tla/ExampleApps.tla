---------------------------- MODULE ExampleApps ----------------------------
(***************************************************************************)
(* The example deployment (src/examples): the demo SP, the identity        *)
(* providers it offers, and the browsers that carry every message between  *)
(* them. Processes boot by fetching each other's metadata; users sign in   *)
(* and out in several tabs, mistype passwords, press the back button and   *)
(* resubmit old forms.                                                     *)
(*                                                                         *)
(* A browser's `tabs` are the requests it is about to make; all of them    *)
(* share its cookies.                                                      *)
(***************************************************************************)
EXTENDS WebApp

CONSTANTS
  Browsers,
  Idps,              \* entity IDs of the identity providers
  SpEntity,          \* entity ID of the demo SP
  Users, ForceEncrypt,
  Guesses,           \* what users type as a password
  Providers,         \* providers.toml: the sequence of provider (see DemoSp)
  Registry,          \* sps.toml of each IdP: set of SP descriptors
  OtherRequests,     \* what SPs that are other programs send to the IdPs
  MAX_ATTEMPTS       \* fetches of one metadata document before giving up

(* Bounds of the model: what users do, one by one and in all, and passwords*)
(* accepted.                                                               *)
CONSTANTS MaxClock, MaxLogins, MaxLogouts, MaxLandings, MaxResends, MaxActs, MaxSignIns

ASSUME ExampleAssumption ==
  /\ MAX_ATTEMPTS \in Nat \ {0}
  /\ {MaxClock, MaxLogins, MaxLogouts, MaxLandings, MaxResends, MaxActs, MaxSignIns}
       \subseteq Nat

(* The SP is none of the IdPs, and not its own provider: every entity ID   *)
(* has one metadata document. Slugs are unique (ProviderIndex::build). What *)
(* other programs send has an ID of its own: IDs are random, so no login of *)
(* the SP has it.                                                           *)
ASSUME ExampleParties ==
  /\ SpEntity \notin Idps /\ IsFiniteSet(Users)
  /\ \A m, n \in DOMAIN Providers : Providers[m].id = Providers[n].id => m = n
  /\ \A n \in DOMAIN Providers : Providers[n].idp # SpEntity
  /\ \A q \in OtherRequests :
       /\ q.path = "/saml/sso" /\ q.to \in Idps
       /\ q.body.xml.issuer # SpEntity /\ q.body.xml.id \notin 1..MaxLogins
       /\ q.body.xml.force_authn \in BOOLEAN
       /\ \A p \in OtherRequests : p.body.xml.id = q.body.xml.id => p.body.xml = q.body.xml

Idp == INSTANCE IdpApp
Sp == INSTANCE DemoSp

VARIABLES
  clock,
  up,       \* the processes that listen
  fetch,    \* per process: [tries : per document, live : documents it has]
  idp,      \* AppState of every identity provider
  sp,       \* AppState of the demo SP
  cookie,   \* per browser and site: option of session cookie
  tabs,     \* per browser: requests about to be made
  count,    \* what users have done [logins, logouts, landings, resends, others];
            \* a landing is a page opened by its address
  log       \* history: see Recorded

vars == <<clock, up, fetch, idp, sp, cookie, tabs, count, log>>

Sites == Idps \cup {SpEntity}

-----------------------------------------------------------------------------
(* Booting.                                                                *)

Documents(site) ==
  IF site = SpEntity THEN {Providers[n].idp : n \in DOMAIN Providers}
                     ELSE {d.entity : d \in Registry[site]}

NoFetch(site) == [tries |-> [d \in Documents(site) |-> 0], live |-> {}]

(* Mutant: an IdP serves nothing until it knows an SP.                     *)
ServesOnceWired(site) == site \in up /\ (site \in Idps => idp[site].sps # {})

(* Programs that are not modelled are always there.                        *)
Serves(site) == site \in up \/ site \notin Sites

FetchOver(site) ==
  \A d \in Documents(site) :
    d \in fetch[site].live \/ fetch[site].tries[d] = MAX_ATTEMPTS

Fetching(site) ==
  IF site = SpEntity THEN site \notin up ELSE site \in up /\ idp[site].sps = {}

(* A bound: no IdP starts after the SP, which would never offer it.        *)
StartIdp(i) ==
  /\ {i, SpEntity} \cap up = {}
  /\ up' = up \cup {i}
  /\ UNCHANGED <<clock, fetch, idp, sp, cookie, tabs, count, log>>

(* One attempt of fetch_one_descriptor or fetch_one_sp_descriptor.         *)
Attempt(site, d) ==
  /\ Fetching(site) /\ d \notin fetch[site].live /\ fetch[site].tries[d] < MAX_ATTEMPTS
  /\ fetch' = IF Serves(d) THEN [fetch EXCEPT ![site].live = @ \cup {d}]
                           ELSE [fetch EXCEPT ![site].tries[d] = @ + 1]
  /\ UNCHANGED <<clock, up, idp, sp, cookie, tabs, count, log>>

(* The SP listens with the providers it could reach, once and for all.     *)
SpListens ==
  /\ Fetching(SpEntity) /\ FetchOver(SpEntity)
  /\ up' = up \cup {SpEntity}
  /\ sp' = [sp EXCEPT !.providers =
              SelectSeq(Providers, LAMBDA p : p.idp \in fetch[SpEntity].live)]
  /\ fetch' = [fetch EXCEPT ![SpEntity] = NoFetch(SpEntity)]
  /\ UNCHANGED <<clock, idp, cookie, tabs, count, log>>

(* The IdP's background task: rounds of fetches until one yields an SP;    *)
(* replace_sps, and the task ends.                                         *)
Registers(i) ==
  /\ Fetching(i) /\ FetchOver(i)
  /\ idp' = [idp EXCEPT ![i].sps = {d \in Registry[i] : d.entity \in fetch[i].live}]
  /\ fetch' = [fetch EXCEPT ![i] = NoFetch(i)]
  /\ UNCHANGED <<clock, up, sp, cookie, tabs, count, log>>

(* A bound: users turn up once everybody knows everybody. Elsewhere their  *)
(* logins end with an error page at once.                                  *)
Ready == sp.providers = Providers /\ \A i \in Idps : idp[i].sps = Registry[i]

Budget(n) ==
  count.logins + count.logouts + count.others + 2 * (count.landings + count.resends) + clock + n
    <= MaxActs + 1

-----------------------------------------------------------------------------
(* What a reply does to the browser, and to the history: the answers the   *)
(* IdPs gave, the sessions the SP granted, the logouts performed for a     *)
(* peer, and the logouts a "signed out everywhere" banner was about.       *)

Recorded(r, gone) ==
  LET sent(path) == {g.body : g \in {g \in r.go : g.path = path}} IN
  [log EXCEPT
     !.answers = @ \cup {[idp |-> CHOOSE e \in a.form.response.issuer : TRUE,
                          request |-> CHOOSE x \in a.form.response.in_response_to : TRUE,
                          index |-> a.subject.index, user |-> a.subject.user,
                          aid |-> a.form.response.assertions[1].id] :
                           a \in sent("/saml/acs")},
     !.granted = @ \o IF r.page.kind # "dashboard" THEN <<>>
                      ELSE LET s == (CHOOSE c \in r.cookie.to : TRUE).payload IN
                           <<[request |-> CHOOSE x \in r.page.about : TRUE, idp |-> s.idp,
                              provider |-> s.provider, index |-> s.index, user |-> s.user]>>,
     !.ended = @ \cup {b.message.id : b \in {b \in sent("/saml/slo") :
                                              b.message.kind = "LogoutResponse"}},
     !.said = @ \cup IF r.page.kind = "signed-out" THEN {gone} ELSE {}]

(* The browser keeps q in a tab when the user will submit it again.        *)
Back(b, site, r, q, again) ==
  /\ again => count.resends < MaxResends /\ Budget(2)
  /\ cookie' = IF r.cookie.change THEN [cookie EXCEPT ![b][site] = r.cookie.to] ELSE cookie
  /\ tabs' = [tabs EXCEPT ![b] = (IF again THEN @ ELSE @ \ q)
                                   \cup {g \in r.go : g.to \in Sites}]

Resent(again) == IF again THEN [count EXCEPT !.resends = @ + 1] ELSE count

AtIdp(b, i, r, q, again) ==
  /\ idp' = [idp EXCEPT ![i] = r.app]
  /\ Back(b, i, r.reply, q, again)
  /\ UNCHANGED <<clock, up, fetch, sp>>

AtSp(b, r, q, again) ==
  /\ sp' = r.app
  /\ Back(b, SpEntity, r.reply, q, again)
  /\ UNCHANGED <<clock, up, fetch, idp>>

Took(before, after) == DOMAIN before \ DOMAIN after

-----------------------------------------------------------------------------
(* Signing in.                                                             *)

(* GET /login/:provider_id on the SP. A provider that was not reachable    *)
(* gives an error page.                                                    *)
Login(b, n) ==
  LET id == count.logins + 1 IN
  /\ id <= MaxLogins /\ Budget(1)
  /\ \E r \in Sp!handle_login(sp, Providers[n].id, clock, id) :
       /\ AtSp(b, r, {}, FALSE)
       /\ count' = [count EXCEPT !.logins = id]
       /\ log' = [Recorded(r.reply, {}) EXCEPT
                    !.started = @ \cup {[request |-> id, idp |-> Providers[n].idp,
                                         provider |-> Providers[n].id]}]

(* The user starts at another SP, which sends the browser to an IdP.       *)
OtherLogin(b, q) ==
  /\ count.others = 0 /\ Budget(1)
  /\ tabs' = [tabs EXCEPT ![b] = @ \cup {q}]
  /\ count' = [count EXCEPT !.others = 1]
  /\ UNCHANGED <<clock, up, fetch, idp, sp, cookie, log>>

(* A browser opens the login page or the continue page by its address, with*)
(* the ID of any request that waits there.                                 *)
Open(b, i, path, id) ==
  /\ i \in up /\ id \in DOMAIN idp[i].pending
  /\ count.landings < MaxLandings /\ Budget(2)
  /\ tabs' = [tabs EXCEPT ![b] = @ \cup {Request(i, path, [request_id |-> id])}]
  /\ count' = [count EXCEPT !.landings = @ + 1]
  /\ log' = [log EXCEPT !.opened = @ \cup {x \in {id} : path = "/saml/sso/continue"}]
  /\ UNCHANGED <<clock, up, fetch, idp, sp, cookie>>

(* /saml/sso on an IdP, by Redirect or POST.                               *)
Sso(b, q, again) ==
  /\ q.path = "/saml/sso" /\ Serves(q.to)
  /\ \E r \in Idp!handle_sso(q.to, idp[q.to], q.body, cookie[b][q.to], clock,
                             Cardinality(log.answers) + 1) :
       /\ AtIdp(b, q.to, r, {q}, again)
       /\ count' = Resent(again)
       /\ log' = [Recorded(r.reply, {}) EXCEPT
                    !.forced = IF ~q.body.xml.force_authn \/ \E f \in @ : f.request = q.body.xml.id
                                 THEN @
                                 ELSE @ \cup {[request |-> q.body.xml.id,
                                               index |-> Cardinality(log.typed)]}]

(* The login form of an IdP, filled in; request is {} on the landing page. *)
TypePassword(b, i, request, name, password) ==
  LET q == {g \in tabs[b] : g.to = i /\ g.path = "/saml/sso/login"
                            /\ {g.body.request_id} = request}
      index == Cardinality(log.typed) + 1
      r == CHOOSE r \in Idp!handle_login(i, idp[i],
                            [request_id |-> request, username |-> name, password |-> password],
                            clock, index) : TRUE
      right == {[idp |-> i, user |-> u.id, index |-> index] :
                  u \in {u \in Users : name \in {u.id, u.email} /\ u.password = password}}
  IN
  /\ i \in up /\ index <= MaxSignIns
  /\ q # {} \/ (request = {} /\ count.landings < MaxLandings /\ Budget(2))
  /\ r.reply.page.kind = "onward"        \* else the form again: nothing changes
  /\ AtIdp(b, i, r, q, FALSE)
  /\ count' = IF request = {} THEN [count EXCEPT !.landings = @ + 1] ELSE count
  /\ log' = [Recorded(r.reply, {}) EXCEPT
               !.typed = @ \cup right \cup {[idp |-> i, user |-> "nobody", index |-> index] :
                                              x \in {y \in {1} : right = {}}}]

(* /saml/sso/continue, whether handle_login sent the browser there or not. *)
Continue(b, q, again) ==
  /\ q.path = "/saml/sso/continue"
  /\ \E r \in Idp!finalize_continue(q.to, idp[q.to], q.body.request_id, cookie[b][q.to], clock,
                                    Cardinality(log.answers) + 1) :
       /\ AtIdp(b, q.to, r, {q}, again)
       /\ count' = Resent(again)
       /\ log' = Recorded(r.reply, {})

(* POST /saml/acs on the SP.                                               *)
ConsumeAnswer(b, q, again) ==
  /\ q.path = "/saml/acs" /\ q.to = SpEntity
  /\ \E r \in Sp!handle_acs(sp, q.body.form, q.body.subject, clock) :
       /\ AtSp(b, r, {q}, again)
       /\ count' = Resent(again)
       /\ log' = Recorded(r.reply, {})

-----------------------------------------------------------------------------
(* Signing out.                                                            *)

(* A fresh ID: no login has it.                                            *)
LogoutId == MaxLogins + count.logouts + 1

(* POST /logout on the SP.                                                 *)
Logout(b) ==
  LET id == LogoutId IN
  /\ count.logouts < MaxLogouts /\ Budget(1)
  /\ \E r \in Sp!handle_logout(sp, cookie[b][SpEntity], clock, id) :
       /\ AtSp(b, r, {}, FALSE)
       /\ count' = [count EXCEPT !.logouts = @ + 1]
       /\ log' = Recorded(r.reply, {})

(* "Sign out of this IdP" and "sign out everywhere" on an IdP.             *)
LogoutHere(b, i) ==
  /\ i \in up /\ cookie[b][i] # {} /\ count.logouts < MaxLogouts /\ Budget(1)
  /\ \E r \in Idp!handle_logout_self(idp[i]) :
       /\ AtIdp(b, i, r, {}, FALSE)
       /\ count' = [count EXCEPT !.logouts = @ + 1]
       /\ log' = Recorded(r.reply, {})

LogoutEverywhere(b, i) ==
  LET id == LogoutId IN
  /\ i \in up /\ count.logouts < MaxLogouts /\ Budget(1)
  /\ \E r \in Idp!handle_logout_everywhere(i, idp[i], cookie[b][i], clock, id) :
       /\ AtIdp(b, i, r, {}, FALSE)
       /\ count' = [count EXCEPT !.logouts = @ + 1]
       /\ log' = Recorded(r.reply, {})

(* /saml/slo on either side, by POST or Redirect.                          *)
SloAtIdp(b, q, again) ==
  LET m == q.body.message IN
  /\ q.path = "/saml/slo" /\ q.to \in Idps
  /\ \E r \in IF m.kind = "LogoutRequest"
                THEN Idp!handle_slo_request(q.to, idp[q.to], m, q.body.relay_state, clock)
                ELSE Idp!consume_logout_response_xml(q.to, idp[q.to], m) :
       /\ AtIdp(b, q.to, r, {q}, again)
       /\ count' = Resent(again)
       /\ log' = Recorded(r.reply, Took(idp[q.to].logouts, r.app.logouts))

SloAtSp(b, q, again) ==
  LET m == q.body.message IN
  /\ q.path = "/saml/slo" /\ q.to = SpEntity
  /\ \E r \in IF m.kind = "LogoutRequest"
                THEN Sp!handle_slo_request(sp, m, q.body.relay_state, clock)
              ELSE IF m.binding = "HttpPost"
                THEN Sp!handle_slo_response(sp, m, q.body.relay_state)
              ELSE Sp!handle_slo_response_redirect(sp, m, q.body.relay_state) :
       /\ AtSp(b, r, {q}, again)
       /\ count' = Resent(again)
       /\ log' = Recorded(r.reply, Took(sp.logouts, r.app.logouts))

-----------------------------------------------------------------------------
Tick ==
  /\ clock < MaxClock /\ Budget(1)
  /\ clock' = clock + 1
  /\ UNCHANGED <<up, fetch, idp, sp, cookie, tabs, count, log>>

Init ==
  /\ clock = 1 /\ up = {}
  /\ fetch = [site \in Sites |-> NoFetch(site)]
  /\ idp = [i \in Idps |-> Idp!EmptyIdp]
  /\ sp = Sp!EmptySp
  /\ cookie = [b \in Browsers |-> [site \in Sites |-> {}]]
  /\ tabs = [b \in Browsers |-> {}]
  /\ count = [logins |-> 0, logouts |-> 0, landings |-> 0, resends |-> 0, others |-> 0]
  /\ log = [started |-> {}, typed |-> {}, forced |-> {}, answers |-> {}, granted |-> <<>>,
            ended |-> {}, said |-> {}, opened |-> {}]

(* A tab goes on: the redirect is followed, the form submits itself.       *)
Follow(b, again) ==
  \E q \in tabs[b] :
    \/ Sso(b, q, again) \/ Continue(b, q, again) \/ ConsumeAnswer(b, q, again)
    \/ SloAtIdp(b, q, again) \/ SloAtSp(b, q, again)

Types(b) ==
  LET forms == {g \in tabs[b] : g.path = "/saml/sso/login"} IN
  \E i \in Idps, u \in Users, p \in Guesses,
     request \in {{}} \cup {{g.body.request_id} : g \in forms} :
    TypePassword(b, i, request, u.email, p)

Opens(b) ==
  \E i \in Idps, path \in {"/saml/sso/login", "/saml/sso/continue"} :
    \E id \in DOMAIN idp[i].pending : Open(b, i, path, id)

Boots(site) ==
  \/ site = SpEntity /\ SpListens
  \/ site \in Idps /\ Registers(site)
  \/ \E d \in Documents(site) : Attempt(site, d)

Next ==
  \/ Tick
  \/ \E i \in Idps : StartIdp(i)
  \/ \E site \in Sites : Boots(site)
  \/ \E b \in Browsers : Ready /\
       \/ \E n \in DOMAIN Providers : Login(b, n)
       \/ \E q \in OtherRequests : OtherLogin(b, q)
       \/ \E again \in BOOLEAN : Follow(b, again)
       \/ Opens(b) \/ Types(b) \/ Logout(b)
       \/ \E i \in Idps : LogoutHere(b, i) \/ LogoutEverywhere(b, i)

(* Processes keep running: their boot tasks make progress.                 *)
Fairness == \A site \in Sites : WF_vars(Boots(site))

Spec == Init /\ [][Next]_vars /\ Fairness

-----------------------------------------------------------------------------
(* A session the SP grants goes back to a login that was started with that *)
(* very provider, and to a password of that user which was typed at that   *)
(* provider's IdP: handle_acs picks the provider by the Issuer, checks it  *)
(* against the RelayState and consumes the tracker that start_login made;  *)
(* the IdP answers only sessions that handle_login minted. And though the  *)
(* IdP may answer one request several times (an old request resubmitted    *)
(* while the user is signed in, a pending request continued after it was   *)
(* answered at once), a login ends in at most one session.                 *)
SessionEarned ==
  /\ \A k \in DOMAIN log.granted :
       LET g == log.granted[k] IN
       /\ [request |-> g.request, idp |-> g.idp, provider |-> g.provider] \in log.started
       /\ [idp |-> g.idp, user |-> g.user, index |-> g.index] \in log.typed
       /\ \E a \in log.answers : a.idp = g.idp /\ a.request = g.request /\ a.index = g.index
  /\ \A j, k \in DOMAIN log.granted :
       log.granted[j].request = log.granted[k].request => j = k

(* ForceAuthn: a request that demands a fresh authentication is answered   *)
(* only with a password typed after the IdP first saw the request, in      *)
(* whatever tab the user is signed in meanwhile. handle_sso looks at the   *)
(* demand; finalize_continue, which answers what handle_sso has stored,    *)
(* does not look at it again.                                              *)
ForceAuthnHonoured ==
  \A a \in log.answers, f \in log.forced : a.request = f.request => a.index > f.index

(* What does hold of the demand: only a browser that opens the continue    *)
(* page of this very request by its address gets round the password.       *)
(* Neither another tab's login or continue page, nor the request submitted *)
(* again, nor a session that ends meanwhile has it answered without one.   *)
PromptHonoured ==
  \A a \in log.answers, f \in log.forced :
    a.request = f.request => a.index > f.index \/ f.request \in log.opened

(* A "signed out everywhere" banner, on either side, closes a logout the   *)
(* application was waiting for, and one the peer has really performed: an  *)
(* old LogoutResponse, or one for another logout, does not produce it.     *)
SignedOutMeansPerformed ==
  \A ids \in log.said : ids # {} /\ ids \subseteq log.ended

(* What a store loses: an entry goes when it is answered, when it is stale,*)
(* or when the store is full and no entry that stays is older; nothing else*)
(* makes a login or a logout in progress unanswerable.                     *)
Kept(before, after, max, stale_after, answered) ==
  \A k \in Took(before, after) :
    \/ k \in answered
    \/ clock - before[k].at >= stale_after
    \/ /\ Cardinality(DOMAIN before) >= max
       /\ \A j \in DOMAIN before \cap DOMAIN after :
            after[j] = before[j] => before[k].at <= before[j].at

NothingForgotten ==
  [][/\ \A i \in Idps :
          /\ Kept(idp[i].pending, idp'[i].pending, MAX_PENDING, PENDING_STALE_AFTER,
                  {a.request : a \in log'.answers})
          /\ Kept(idp[i].logouts, idp'[i].logouts, MAX_TRACKERS, TRACKER_STALE_AFTER, log.ended)
     /\ Kept(sp.trackers, sp'.trackers, MAX_TRACKERS, TRACKER_STALE_AFTER,
             {a.request : a \in log.answers})
     /\ Kept(sp.logouts, sp'.logouts, MAX_TRACKERS, TRACKER_STALE_AFTER, log.ended)]_vars

(* The deployments in which nothing is forgotten: every SP asks for what   *)
(* finalize_login issues (an e-mail address, a password login, an answer   *)
(* over POST), and an IdP knows an SP once. Elsewhere finalize_continue may*)
(* take a request that it then refuses to answer.                          *)
Grantable(xml) ==
  /\ xml.format \subseteq {"EmailAddress"}
  /\ \A c \in xml.requested : Idp!is_satisfied(c, "PasswordProtectedTransport")

Servable ==
  /\ \A i \in Idps : \A d \in Registry[i] :
       /\ \A e \in Registry[i] : e.entity = d.entity => e = d
       /\ \A n \in DOMAIN d.acs : d.acs[n].binding # "HttpArtifact"
  /\ \A n \in DOMAIN Providers : Providers[n].format \subseteq {"EmailAddress"}
  /\ \A q \in OtherRequests : Grantable(q.body.xml)

(* The boot order does not matter to an IdP that runs before the SP asks   *)
(* for its metadata: the SP offers it, and, when the SP is the only one it *)
(* is configured with, it gets to know the SP.                             *)
Wired ==
  \A i \in Documents(SpEntity) \cap Idps :
    (i \in up /\ SpEntity \notin up /\ fetch[SpEntity].tries[i] = 0) ~>
      /\ \E n \in DOMAIN sp.providers : sp.providers[n].idp = i
      /\ Documents(i) = {SpEntity} => idp[i].sps = Registry[i]
=============================================================================
