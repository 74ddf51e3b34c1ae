-------------------------- MODULE ExampleAppsProofs --------------------------
(***************************************************************************)
(* Proofs about the example deployment, for any number of browsers,        *)
(* identity providers, users, providers and registered SPs, any limits of  *)
(* the stores and any bounds.                                              *)
(***************************************************************************)
EXTENDS ExampleApps, TLAPS, FiniteSetTheorems

-----------------------------------------------------------------------------
(* The inductive invariant.                                                *)

Names == {u.id : u \in Users} \cup {"nobody"}
Slugs == {Providers[n].id : n \in DOMAIN Providers}
ProviderIdps == {Providers[n].idp : n \in DOMAIN Providers}

Starts == [request : Nat, idp : ProviderIdps, provider : Slugs]
Typings == [idp : Idps, user : Names, index : Nat]
Grants == [request : Nat, idp : ProviderIdps, provider : Slugs, index : Nat, user : Names]

LogFields == {"started", "typed", "forced", "answers", "granted", "ended", "said",
              "opened"}

(* The shape of the state, as far as the steps take it apart.              *)
Shapes ==
  /\ DOMAIN idp = Idps
  /\ \A i \in Idps : DOMAIN idp[i] = {"sps", "pending", "logouts"}
  /\ DOMAIN sp = {"providers", "trackers", "logouts", "replay"}
  /\ DOMAIN cookie = Browsers /\ \A b \in Browsers : DOMAIN cookie[b] = Sites
  /\ DOMAIN tabs = Browsers
  /\ "logins" \in DOMAIN count /\ count.logins \in Nat
  /\ DOMAIN log = LogFields
  /\ log.started \subseteq Starts /\ log.granted \in Seq(Grants)
  /\ log.typed \subseteq Typings /\ IsFiniteSet(log.typed)

(* A cookie of an IdP stands for a password typed there.                   *)
CookiesEarned ==
  \A b \in Browsers, i \in Idps : \A c \in cookie[b][i] :
    [idp |-> i, user |-> c.payload.user, index |-> c.payload.index] \in log.typed

StartedAt(i, id, relay_state) ==
  \E s \in log.started : s.request = id /\ s.idp = i /\ relay_state = {s.provider}

(* The requests that demand a fresh authentication, and those of them that *)
(* an IdP has seen.                                                        *)
Forced == {q.body.xml.id : q \in {q \in OtherRequests : q.body.xml.force_authn}}

Seen(id) == id \in Forced => \E f \in log.forced : f.request = id

PendingSound ==
  \A i \in Idps : \A id \in DOMAIN idp[i].pending :
    LET known == idp[i].pending[id].value.parsed.validated IN
    /\ known.id = id /\ Seen(id)
    /\ known.sp = SpEntity => StartedAt(i, id, known.relay_state)

(* What a browser carries, by where it takes it.                           *)
RequestSound(q) ==
  /\ q.to \in Idps
  /\ q.body.xml.issuer = SpEntity => StartedAt(q.to, q.body.xml.id, q.body.relay_state)
  /\ q.body.xml.force_authn <=> q.body.xml.id \in Forced

FreshFor(b, q) ==
  \A f \in log.forced, c \in cookie[b][q.to] :
    f.request = q.body.request_id => c.payload.index > f.index \/ f.request \in log.opened

AnswerSound(body) ==
  \E i \in Idps, s \in log.started, a \in log.answers :
    /\ body.form.response.issuer = {i} /\ s.idp = i /\ a.idp = i
    /\ body.form.response.in_response_to = {s.request} /\ a.request = s.request
    /\ body.form.relay_state = {s.provider} /\ a.index = body.subject.index
    /\ [idp |-> i, user |-> body.subject.user, index |-> body.subject.index] \in log.typed

MessageSound(m) ==
  m.kind = "LogoutResponse" => m.in_response_to = {m.id} /\ m.id \in log.ended

TabSound(b, q) ==
  /\ q.path = "/saml/sso" => RequestSound(q)
  /\ q.path = "/saml/sso/login" => q.to \in Idps /\ Seen(q.body.request_id)
  /\ q.path = "/saml/sso/continue" =>
       q.to \in Idps /\ Seen(q.body.request_id) /\ FreshFor(b, q)
  /\ q.path = "/saml/acs" /\ q.to = SpEntity => AnswerSound(q.body)
  /\ q.path = "/saml/slo" => MessageSound(q.body.message)

TabsSound == \A b \in Browsers : \A q \in tabs[b] : TabSound(b, q)

(* A demand is recorded with the number of passwords typed before it.      *)
ForcedSound ==
  \A f \in log.forced :
    f.request \in Forced /\ f.index \in Nat /\ f.index <= Cardinality(log.typed)

AnswersSeen == \A a \in log.answers : Seen(a.request)

StartsCounted == \A s \in log.started : s.request \in 1..count.logins

(* A login that ended in a session has lost its tracker.                   *)
GrantsFinal ==
  \A k \in DOMAIN log.granted : log.granted[k].request \notin DOMAIN sp.trackers

AppInv ==
  /\ Shapes /\ CookiesEarned /\ PendingSound /\ TabsSound
  /\ ForcedSound /\ AnswersSeen /\ PromptHonoured
  /\ StartsCounted /\ GrantsFinal /\ SessionEarned
  /\ SignedOutMeansPerformed

-----------------------------------------------------------------------------
(* The stores of the applications.                                         *)

LEMMA BothOk ==
  /\ \A x, y : Idp!&&(x, y) = "Ok" => x = "Ok" /\ y = "Ok"
  /\ \A x, y : Sp!&&(x, y) = "Ok" => x = "Ok" /\ y = "Ok"
BY DEF Idp!&&, Sp!&&

(* What an insertion leaves: the new entry, and old ones as they were.     *)
Inserted(before, after, key, value, now) ==
  /\ DOMAIN after \subseteq DOMAIN before \cup {key}
  /\ key \in DOMAIN after /\ after[key] = [at |-> now, value |-> value]
  /\ \A k \in DOMAIN after \ {key} : after[k] = before[k]

LEMMA MakeRoomKeeps ==
  ASSUME NEW before, NEW now, NEW stale_after, NEW max
  PROVE  \A s \in Store!MakeRoom(Store!Retain(before, now, stale_after), max) :
           /\ DOMAIN s \subseteq DOMAIN before
           /\ \A k \in DOMAIN s : s[k] = before[k]
<1> DEFINE old == {k \in DOMAIN before : now - before[k].at >= stale_after}
           kept == Store!Without(before, old)
<1>2. Store!Retain(before, now, stale_after) = kept
  BY DEF Store!Retain
<1> HIDE DEF old
<1>3. DOMAIN kept \subseteq DOMAIN before /\ \A k \in DOMAIN kept : kept[k] = before[k]
  BY DEF Store!Without
<1> HIDE DEF kept
<1>4. ASSUME NEW s \in Store!MakeRoom(kept, max)
      PROVE  DOMAIN s \subseteq DOMAIN kept /\ \A k \in DOMAIN s : s[k] = kept[k]
  <2>1. s = kept \/ \E k \in Store!Oldest(kept) : s = Store!Without(kept, {k})
    BY DEF Store!MakeRoom
  <2>2. QED
    BY <2>1 DEF Store!Without
<1>5. QED
  BY <1>2, <1>3, <1>4

LEMMA InsertFacts ==
  ASSUME NEW before, NEW key, NEW value, NEW now, NEW stale_after, NEW max
  PROVE  \A s \in Store!Insert(before, key, value, now, stale_after, max) :
           Inserted(before, s, key, value, now)
<1> SUFFICES ASSUME NEW s \in Store!MakeRoom(Store!Retain(before, now, stale_after), max)
             PROVE  Inserted(before, Store!Put(s, key, [at |-> now, value |-> value]), key, value, now)
  BY DEF Store!Insert
<1>1. DOMAIN s \subseteq DOMAIN before /\ \A k \in DOMAIN s : s[k] = before[k]
  BY MakeRoomKeeps
<1>2. QED
  BY <1>1 DEF Store!Put, Inserted

LEMMA TakeFacts ==
  ASSUME NEW store, NEW key
  PROVE  LET taken == Store!Take(store, key) IN
         /\ DOMAIN taken.rest = DOMAIN store \ {key}
         /\ \A k \in DOMAIN taken.rest : taken.rest[k] = store[k]
         /\ key \in DOMAIN store => taken.found = {store[key].value}
         /\ key \notin DOMAIN store => taken.found = {}
BY DEF Store!Take, Store!Get, Store!Without

(* Both applications use the one store.                                    *)
LEMMA SameInsert ==
  ASSUME NEW store, NEW key, NEW value, NEW now, NEW stale_after, NEW max
  PROVE  /\ Idp!Store!Insert(store, key, value, now, stale_after, max)
              = Store!Insert(store, key, value, now, stale_after, max)
         /\ Sp!Store!Insert(store, key, value, now, stale_after, max)
              = Store!Insert(store, key, value, now, stale_after, max)
<1>1. Idp!Store!Insert(store, key, value, now, stale_after, max)
        = Store!Insert(store, key, value, now, stale_after, max)
  <2>1. Idp!Store!Retain(store, now, stale_after) = Store!Retain(store, now, stale_after)
    BY DEF Store!Retain, Store!Without, Idp!Store!Retain, Idp!Store!Without
  <2>2. \A s : Idp!Store!MakeRoom(s, max) = Store!MakeRoom(s, max)
    BY Zenon DEF Store!MakeRoom, Store!Without, Store!Oldest, Idp!Store!MakeRoom,
       Idp!Store!Without, Idp!Store!Oldest, Store!Cardinality, Idp!Store!Cardinality
  <2>3. \A s, e : Idp!Store!Put(s, key, e) = Store!Put(s, key, e)
    BY DEF Store!Put, Idp!Store!Put
  <2>4. QED
    BY <2>1, <2>2, <2>3 DEF Store!Insert, Idp!Store!Insert
<1>2. Sp!Store!Insert(store, key, value, now, stale_after, max)
        = Store!Insert(store, key, value, now, stale_after, max)
  <2>1. Sp!Store!Retain(store, now, stale_after) = Store!Retain(store, now, stale_after)
    BY DEF Store!Retain, Store!Without, Sp!Store!Retain, Sp!Store!Without
  <2>2. \A s : Sp!Store!MakeRoom(s, max) = Store!MakeRoom(s, max)
    BY Zenon DEF Store!MakeRoom, Store!Without, Store!Oldest, Sp!Store!MakeRoom,
       Sp!Store!Without, Sp!Store!Oldest, Store!Cardinality, Sp!Store!Cardinality
  <2>3. \A s, e : Sp!Store!Put(s, key, e) = Store!Put(s, key, e)
    BY DEF Store!Put, Sp!Store!Put
  <2>4. QED
    BY <2>1, <2>2, <2>3 DEF Store!Insert, Sp!Store!Insert
<1>3. QED
  BY <1>1, <1>2

LEMMA SameTake ==
  ASSUME NEW store, NEW key
  PROVE  /\ Idp!Store!Take(store, key) = Store!Take(store, key)
         /\ Sp!Store!Take(store, key) = Store!Take(store, key)
BY DEF Store!Take, Store!Get, Store!Without, Idp!Store!Take, Idp!Store!Get, Idp!Store!Without,
       Sp!Store!Take, Sp!Store!Get, Sp!Store!Without

-----------------------------------------------------------------------------
(* The handlers of the identity provider.                                  *)

(* The form an IdP sends on behalf of a session.                           *)
Answer(g, i, to, known, session) ==
  /\ g.to = to /\ g.path = "/saml/acs" /\ g.body.subject = session
  /\ g.body.form.response.issuer = {i}
  /\ g.body.form.response.in_response_to = {known.id}
  /\ g.body.form.relay_state = known.relay_state

(* Pages that say nothing about the end of a login or a logout.            *)
Plain(reply) == reply.page.kind \notin {"dashboard", "signed-out"}

LEMMA FinalizeLogin ==
  ASSUME NEW i, NEW d, NEW parsed, NEW session, NEW now, NEW aid
  PROVE  LET reply == Idp!finalize_login(i, d, parsed, session, now, aid) IN
         /\ ~reply.cookie.change /\ Plain(reply)
         /\ \A g \in reply.go : /\ parsed.validated.sp = d.entity
                                /\ Answer(g, i, d.entity, parsed.validated, session)
<1> DEFINE issue == Idp!LoginResponse(d, session, now, aid)
           role == Idp!IdpRole(i)
           form == Idp!issue_response(role, parsed, issue)
           reply == Idp!finalize_login(i, d, parsed, session, now, aid)
<1>1. issue.sp = d /\ role.entity = i
  BY DEF Idp!LoginResponse, Idp!IdpRole
<1>2. Idp!IssueVerdict(role, parsed, issue) = "Ok" => parsed.validated.sp = d.entity
  BY <1>1, BothOk DEF Idp!IssueVerdict, Idp!ensure_request_belongs_to_sp, Idp!Reject
<1>3. /\ form.response.issuer = {i} /\ form.response.in_response_to = {parsed.validated.id}
      /\ form.relay_state = parsed.validated.relay_state
  BY <1>1 DEF Idp!issue_response, Idp!build_response
<1>4. \/ reply = Idp!error_page({parsed.validated.id})
      \/ /\ Idp!IssueVerdict(role, parsed, issue) = "Ok"
         /\ reply = Idp!Onward(Idp!Request(d.entity, "/saml/acs",
                                          [form |-> form, subject |-> session]), Idp!KeepCookie)
  BY DEF Idp!finalize_login
<1> HIDE DEF issue, role, form, reply
<1>5. QED
  BY <1>2, <1>3, <1>4
     DEF reply, Idp!error_page, Idp!Page, Idp!Onward, Idp!Request, Idp!KeepCookie, Answer, Plain

IdpFields == {"sps", "pending", "logouts"}

(* A session a cookie stands for.                                          *)
Payloads(cookies) == {c.payload : c \in cookies}

LEMMA Decoded ==
  ASSUME NEW cookies, NEW key, NEW now
  PROVE  /\ Idp!decode(cookies, key, now) \subseteq Payloads(cookies)
         /\ Sp!decode(cookies, key, now) \subseteq Payloads(cookies)
BY DEF Idp!decode, Sp!decode, Payloads

(* What a stored request says of where it is from.                         *)
Remembers(known, xml, relay_state) ==
  known.id = xml.id /\ known.sp = xml.issuer /\ known.relay_state = relay_state

(* What handle_sso leaves and replies.                                     *)
SsoReply(i, app, q, cookies, now, r) ==
  /\ DOMAIN r.app = IdpFields /\ r.app.logouts = app.logouts
  /\ \/ r.app.pending = app.pending
     \/ \E v : /\ Inserted(app.pending, r.app.pending, q.xml.id, v, now)
               /\ Remembers(v.parsed.validated, q.xml, q.relay_state)
  /\ ~r.reply.cookie.change /\ Plain(r.reply)
  /\ \A g \in r.reply.go :
       \/ g = Idp!Request(i, "/saml/sso/login", [request_id |-> q.xml.id])
       \/ /\ ~q.xml.force_authn
          /\ \E known, session :
               /\ Remembers(known, q.xml, q.relay_state)
               /\ session \in Payloads(cookies)
               /\ Answer(g, i, known.sp, known, session)

LEMMA HandleSso ==
  ASSUME NEW i, NEW app, NEW q, NEW cookies, NEW now, NEW aid, DOMAIN app = IdpFields,
         NEW r \in Idp!handle_sso(i, app, q, cookies, now, aid)
  PROVE  SsoReply(i, app, q, cookies, now, r)
<1> USE DEF SsoReply
<1> DEFINE found == Idp!sp_by_entity_id(app, q.xml.issuer)
           session == Idp!decode(cookies, i, now)
           call(d) == [xml |-> q.xml, relay_state |-> q.relay_state, binding |-> q.binding,
                       detached |-> q.detached, sp |-> d, destination |-> i, now |-> now]
           parsed(d) == Idp!consume_authn_request(call(d))
           value(d) == [parsed |-> parsed(d), sp |-> d.entity]
           prompt == Idp!Onward(Idp!Request(i, "/saml/sso/login", [request_id |-> q.xml.id]),
                                Idp!KeepCookie)
           answer(d) == Idp!finalize_login(i, d, parsed(d), CHOOSE s \in session : TRUE, now, aid)
<1>1. CASE r = [app |-> app, reply |-> Idp!error_page({q.xml.id})]
  BY <1>1 DEF Idp!error_page, Idp!Page, Idp!KeepCookie, Plain
<1>2. ASSUME NEW d \in found, NEW a \in Idp!insert_pending(app, q.xml.id, value(d), now),
             r = [app |-> a,
                  reply |-> IF Idp!Prompt(session, q.xml) THEN prompt ELSE answer(d)]
      PROVE  /\ DOMAIN r.app = IdpFields /\ r.app.logouts = app.logouts
             /\ \E v : /\ Inserted(app.pending, r.app.pending, q.xml.id, v, now)
                       /\ Remembers(v.parsed.validated, q.xml, q.relay_state)
             /\ ~r.reply.cookie.change /\ Plain(r.reply)
             /\ \A g \in r.reply.go :
                  \/ g = Idp!Request(i, "/saml/sso/login", [request_id |-> q.xml.id])
                  \/ /\ ~q.xml.force_authn
                     /\ \E known, s :
                          /\ Remembers(known, q.xml, q.relay_state)
                          /\ s \in Payloads(cookies)
                          /\ Answer(g, i, known.sp, known, s)
  <2>1. d.entity = q.xml.issuer
    BY DEF Idp!sp_by_entity_id
  <2>2. Remembers(parsed(d).validated, q.xml, q.relay_state)
    BY <2>1 DEF Idp!consume_authn_request, Idp!Provenance, Remembers
  <2> HIDE DEF parsed
  <2>3. PICK s \in Idp!Store!Insert(app.pending, q.xml.id, value(d), now,
                                    PENDING_STALE_AFTER, MAX_PENDING) :
          a = [app EXCEPT !.pending = s]
    BY <1>2 DEF Idp!insert_pending
  <2>4. Inserted(app.pending, s, q.xml.id, value(d), now)
    BY <2>3, SameInsert, InsertFacts
  <2>5. value(d).parsed = parsed(d)
    OBVIOUS
  <2> HIDE DEF value
  <2>6. /\ DOMAIN r.app = IdpFields /\ r.app.logouts = app.logouts /\ r.app.pending = s
    BY <1>2, <2>3 DEF IdpFields
  <2>7. CASE Idp!Prompt(session, q.xml)
    <3>1. r.reply = prompt
      BY <1>2, <2>7
    <3>2. ~prompt.cookie.change /\ Plain(prompt)
          /\ prompt.go = {Idp!Request(i, "/saml/sso/login", [request_id |-> q.xml.id])}
      BY DEF Idp!Onward, Idp!KeepCookie, Plain
    <3>3. QED
      BY <2>2, <2>4, <2>5, <2>6, <3>1, <3>2
  <2>8. CASE ~Idp!Prompt(session, q.xml)
    <3> DEFINE s0 == CHOOSE s_ \in session : TRUE
    <3>1. r.reply = answer(d)
      BY <1>2, <2>8
    <3>2. s0 \in Payloads(cookies) /\ ~q.xml.force_authn
      BY <2>8, Decoded DEF Idp!Prompt
    <3>3. /\ ~answer(d).cookie.change /\ Plain(answer(d))
          /\ \A g \in answer(d).go : /\ parsed(d).validated.sp = d.entity
                                     /\ Answer(g, i, d.entity, parsed(d).validated, s0)
      BY FinalizeLogin
    <3> HIDE DEF answer, s0
    <3>4. \A g \in r.reply.go : Answer(g, i, parsed(d).validated.sp, parsed(d).validated, s0)
      BY <3>1, <3>3
    <3>5. \A g \in r.reply.go :
             \E known, s_ : /\ Remembers(known, q.xml, q.relay_state)
                           /\ s_ \in Payloads(cookies)
                           /\ Answer(g, i, known.sp, known, s_)
      BY <2>2, <3>2, <3>4
    <3>6. \E v : /\ Inserted(app.pending, r.app.pending, q.xml.id, v, now)
                 /\ Remembers(v.parsed.validated, q.xml, q.relay_state)
      BY <2>2, <2>4, <2>5, <2>6
    <3>7. QED
      BY <2>6, <3>1, <3>2, <3>3, <3>5, <3>6
  <2>9. QED
    BY <2>7, <2>8
<1>3. \/ r = [app |-> app, reply |-> Idp!error_page({q.xml.id})]
      \/ \E d \in found : \E a \in Idp!insert_pending(app, q.xml.id, value(d), now) :
           r = [app |-> a,
                reply |-> IF Idp!Prompt(session, q.xml) THEN prompt ELSE answer(d)]
  BY Zenon DEF Idp!handle_sso
<1> HIDE DEF found, session, call, parsed, value, prompt, answer
<1>4. QED
  BY <1>1, <1>2, <1>3

(* What handle_login of an IdP replies: the form again, or a fresh session. *)
TypedReply(i, app, request, name, password, index, r) ==
  /\ r.app = app /\ Plain(r.reply)
  /\ r.reply.page.kind = "onward" =>
       /\ r.reply.cookie.change
       /\ \E u \in Users :
            /\ name \in {u.id, u.email} /\ u.password = password
            /\ \A c \in r.reply.cookie.to : c.payload.user = u.id
                                            /\ c.payload.index = index
       /\ r.reply.go = {Idp!Request(i, "/saml/sso/continue", [request_id |-> id]) :
                          id \in request}

(* The login form: a session of the user whose password was typed.         *)
LEMMA HandleLogin ==
  ASSUME NEW i, NEW app, NEW request, NEW name, NEW password, NEW now, NEW index,
         NEW r \in Idp!handle_login(i, app, [request_id |-> request, username |-> name,
                                             password |-> password], now, index)
  PROVE  TypedReply(i, app, request, name, password, index, r)
<1> USE DEF TypedReply
<1> DEFINE users == Idp!verify_password(name, password)
           user == CHOOSE u \in users : TRUE
           session == [user |-> user.id, index |-> index, authn_instant |-> now, issued_at |-> now]
<1>1. r = [app |-> app,
           reply |-> IF users = {} THEN Idp!Page("login", request)
                     ELSE [cookie |-> Idp!SessionCookie(session, i),
                           go |-> {Idp!Request(i, "/saml/sso/continue", [request_id |-> id]) :
                                     id \in request},
                           page |-> [kind |-> "onward", about |-> {}]]]
  BY DEF Idp!handle_login
<1>2. CASE users = {}
  BY <1>1, <1>2 DEF Idp!Page, Plain
<1>3. CASE users # {}
  <2>1. user \in Users /\ name \in {user.id, user.email} /\ user.password = password
    <3>1. \A u \in users : u \in Users /\ name \in {u.id, u.email} /\ u.password = password
      BY DEF Idp!verify_password, Idp!lookup
    <3>2. user \in users
      BY <1>3
    <3>3. QED
      BY <3>1, <3>2
  <2> HIDE DEF user
  <2>2. /\ Idp!SessionCookie(session, i).change
        /\ \A c \in Idp!SessionCookie(session, i).to :
             c.payload.user = user.id /\ c.payload.index = index
    BY DEF Idp!SessionCookie, Idp!SetCookie, Idp!encode
  <2> HIDE DEF users, session
  <2>3. /\ r.app = app /\ r.reply.cookie = Idp!SessionCookie(session, i)
        /\ r.reply.page.kind = "onward"
        /\ r.reply.go = {Idp!Request(i, "/saml/sso/continue", [request_id |-> id]) :
                           id \in request}
    BY <1>1, <1>3
  <2>4. QED
    BY <2>1, <2>2, <2>3 DEF Plain
<1>4. QED
  BY <1>2, <1>3

(* What finalize_continue leaves and replies.                              *)
ContinueReply(i, app, id, cookies, r) ==
  /\ DOMAIN r.app = IdpFields /\ r.app.logouts = app.logouts
  /\ DOMAIN r.app.pending \subseteq DOMAIN app.pending
  /\ \A k \in DOMAIN r.app.pending : r.app.pending[k] = app.pending[k]
  /\ ~r.reply.cookie.change /\ Plain(r.reply)
  /\ \A g \in r.reply.go :
       \/ g = Idp!Request(i, "/saml/sso/login", [request_id |-> id])
       \/ LET known == app.pending[id].value.parsed.validated IN
          /\ id \in DOMAIN app.pending
          /\ \E session \in Payloads(cookies) : Answer(g, i, known.sp, known, session)

(* A pending request is answered to the SP it was stored for, or not at    *)
(* all.                                                                    *)
LEMMA FinalizeContinue ==
  ASSUME NEW i, NEW app, NEW id, NEW cookies, NEW now, NEW aid, DOMAIN app = IdpFields,
         NEW r \in Idp!finalize_continue(i, app, id, cookies, now, aid)
  PROVE  ContinueReply(i, app, id, cookies, r)
<1> USE DEF ContinueReply
<1> DEFINE session == Idp!decode(cookies, i, now)
           taken == Idp!take_pending(app, id)
           after == [app EXCEPT !.pending = taken.rest]
           sps == UNION {Idp!sp_by_entity_id(app, p.sp) : p \in taken.found}
           prompt == Idp!Onward(Idp!Request(i, "/saml/sso/login", [request_id |-> id]),
                                Idp!KeepCookie)
           s0 == CHOOSE s \in session : TRUE
           answer(p) == Idp!finalize_login(i, CHOOSE d \in sps : TRUE, p.parsed, s0, now, aid)
<1>1. \/ r = [app |-> app, reply |-> prompt]
      \/ r = [app |-> app, reply |-> Idp!Page("gone", {id})]
      \/ /\ session # {}
         /\ \E p \in taken.found :
              r = [app |-> after, reply |-> IF sps = {} THEN Idp!error_page({id}) ELSE answer(p)]
  BY DEF Idp!finalize_continue
<1>2. CASE r = [app |-> app, reply |-> prompt]
  BY <1>2 DEF Idp!Onward, Idp!KeepCookie, Plain
<1>3. CASE r = [app |-> app, reply |-> Idp!Page("gone", {id})]
  BY <1>3 DEF Idp!Page, Idp!KeepCookie, Plain
<1>4. ASSUME session # {}, NEW p \in taken.found,
             r = [app |-> after, reply |-> IF sps = {} THEN Idp!error_page({id}) ELSE answer(p)]
      PROVE  /\ DOMAIN r.app = IdpFields /\ r.app.logouts = app.logouts
             /\ DOMAIN r.app.pending \subseteq DOMAIN app.pending
             /\ \A k \in DOMAIN r.app.pending : r.app.pending[k] = app.pending[k]
             /\ ~r.reply.cookie.change /\ Plain(r.reply)
             /\ \A g \in r.reply.go :
                  LET known == app.pending[id].value.parsed.validated IN
                  /\ id \in DOMAIN app.pending
                  /\ \E s \in Payloads(cookies) : Answer(g, i, known.sp, known, s)
  <2>1. /\ DOMAIN taken.rest = DOMAIN app.pending \ {id}
        /\ \A k \in DOMAIN taken.rest : taken.rest[k] = app.pending[k]
        /\ id \in DOMAIN app.pending /\ p = app.pending[id].value
    BY <1>4, TakeFacts, SameTake DEF Idp!take_pending
  <2>2. s0 \in Payloads(cookies)
    <3>1. s0 \in session
      BY <1>4
    <3>2. QED
      BY <3>1, Decoded
  <2>3. DOMAIN after = IdpFields /\ after.logouts = app.logouts /\ after.pending = taken.rest
    BY DEF IdpFields
  <2> HIDE DEF taken, after, s0
  <2>4. CASE sps = {}
    BY <1>4, <2>1, <2>3, <2>4 DEF Idp!error_page, Idp!Page, Idp!KeepCookie, Plain
  <2>5. CASE sps # {}
    <3> DEFINE d0 == CHOOSE d \in sps : TRUE
    <3>1. /\ ~answer(p).cookie.change /\ Plain(answer(p))
          /\ \A g \in answer(p).go : /\ p.parsed.validated.sp = d0.entity
                                     /\ Answer(g, i, d0.entity, p.parsed.validated, s0)
      BY FinalizeLogin
    <3>2. r.reply = answer(p) /\ r.app = after
      BY <1>4, <2>5
    <3> HIDE DEF d0, answer
    <3>3. \A g \in r.reply.go : Answer(g, i, p.parsed.validated.sp, p.parsed.validated, s0)
      BY <3>1, <3>2
    <3>4. QED
      BY <2>1, <2>2, <2>3, <3>1, <3>2, <3>3
  <2>6. QED
    BY <2>4, <2>5
<1> HIDE DEF session, taken, after, sps, prompt, answer
<1>5. QED
  BY <1>1, <1>2, <1>3, <1>4

-----------------------------------------------------------------------------
(* Logout messages. A LogoutResponse answers the request whose ID it has.  *)

Correlated(g) ==
  /\ g.path = "/saml/slo" /\ g.body.message.kind \in {"LogoutRequest", "LogoutResponse"}
  /\ g.body.message.kind = "LogoutResponse" => g.body.message.in_response_to = {g.body.message.id}

(* A reply on the way to the end of a session gives no cookie.             *)
LogoutReply(reply) ==
  /\ reply.page.kind # "dashboard"
  /\ reply.cookie.change => reply.cookie.to = {}
  /\ \A g \in reply.go : Correlated(g)

LEMMA LogoutPages ==
  /\ \A kind, about : /\ LogoutReply(Idp!Landing(kind, about)) <=> kind # "dashboard"
                      /\ LogoutReply(Sp!Landing(kind, about)) <=> kind # "dashboard"
                      /\ Idp!Landing(kind, about).page.kind = kind
                      /\ Sp!Landing(kind, about).page.kind = kind
  /\ \A about : /\ LogoutReply(Idp!error_page(about)) /\ Plain(Idp!error_page(about))
                /\ LogoutReply(Sp!error_page(about)) /\ Plain(Sp!error_page(about))
<1>1. \A kind, about : /\ LogoutReply(Idp!Landing(kind, about)) <=> kind # "dashboard"
                       /\ Idp!Landing(kind, about).page.kind = kind
  BY DEF Idp!Landing, Idp!Page, Idp!ClearCookie, Idp!KeepCookie, LogoutReply
<1>2. \A kind, about : /\ LogoutReply(Sp!Landing(kind, about)) <=> kind # "dashboard"
                       /\ Sp!Landing(kind, about).page.kind = kind
  BY DEF Sp!Landing, Sp!Page, Sp!ClearCookie, Sp!KeepCookie, LogoutReply
<1>3. \A about : LogoutReply(Idp!error_page(about)) /\ Plain(Idp!error_page(about))
  BY DEF Idp!error_page, Idp!Page, Idp!KeepCookie, LogoutReply, Plain
<1>4. \A about : LogoutReply(Sp!error_page(about)) /\ Plain(Sp!error_page(about))
  BY DEF Sp!error_page, Sp!Page, Sp!KeepCookie, LogoutReply, Plain
<1>5. QED
  BY <1>1, <1>2, <1>3, <1>4

LEMMA SendLogoutFacts ==
  ASSUME NEW peer, NEW m, NEW relay_state,
         m.kind = "LogoutRequest" \/ (m.kind = "LogoutResponse" /\ m.in_response_to = {m.id})
  PROVE  /\ \A c \in {Idp!KeepCookie, Idp!ClearCookie} :
              /\ LogoutReply(Idp!SendLogout(peer, m, relay_state, c))
              /\ Plain(Idp!SendLogout(peer, m, relay_state, c))
         /\ \A c \in {Sp!KeepCookie, Sp!ClearCookie} :
              /\ LogoutReply(Sp!SendLogout(peer, m, relay_state, c))
              /\ Plain(Sp!SendLogout(peer, m, relay_state, c))
<1>1. \A c \in {Idp!KeepCookie, Idp!ClearCookie} :
        /\ LogoutReply(Idp!SendLogout(peer, m, relay_state, c))
        /\ Plain(Idp!SendLogout(peer, m, relay_state, c))
  BY DEF Idp!SendLogout, Idp!Onward, Idp!Request, Idp!KeepCookie, Idp!ClearCookie, LogoutReply,
         Plain, Correlated
<1>2. \A c \in {Sp!KeepCookie, Sp!ClearCookie} :
        /\ LogoutReply(Sp!SendLogout(peer, m, relay_state, c))
        /\ Plain(Sp!SendLogout(peer, m, relay_state, c))
  BY DEF Sp!SendLogout, Sp!Onward, Sp!Request, Sp!KeepCookie, Sp!ClearCookie, LogoutReply,
         Plain, Correlated
<1>3. QED
  BY <1>1, <1>2

(* "Sign out" on an IdP.                                                   *)
LEMMA IdpLogout ==
  ASSUME NEW i, NEW app, NEW cookies, NEW now, NEW id, DOMAIN app = IdpFields,
         NEW r \in Idp!handle_logout_self(app)
                     \cup Idp!handle_logout_everywhere(i, app, cookies, now, id)
  PROVE  /\ DOMAIN r.app = IdpFields /\ r.app.pending = app.pending
         /\ LogoutReply(r.reply) /\ Plain(r.reply)
<1>1. CASE \E kind \in {"signed-out-locally", "already-signed-out"} :
             r = [app |-> app, reply |-> Idp!Landing(kind, {})]
  <2>1. PICK kind \in {"signed-out-locally", "already-signed-out"} :
          r.app = app /\ r.reply = Idp!Landing(kind, {})
    BY <1>1
  <2>2. kind \notin {"dashboard", "signed-out"}
    BY <2>1
  <2>3. LogoutReply(Idp!Landing(kind, {})) /\ Idp!Landing(kind, {}).page.kind = kind
    BY <2>2, LogoutPages
  <2>4. QED
    BY <2>1, <2>2, <2>3 DEF Plain
<1>2. ASSUME NEW d \in app.sps, NEW b \in Idp!pick_slo_binding(d),
             NEW a \in Idp!insert_logout_tracker(app, id, d.entity, now),
             r = [app |-> a,
                  reply |-> Idp!SendLogout(d.entity,
                              Idp!Slo!LogoutRequest(Idp!IdpParty(i), Idp!SpParty(d), b, id), {},
                              Idp!KeepCookie)]
      PROVE  /\ DOMAIN r.app = IdpFields /\ r.app.pending = app.pending
             /\ LogoutReply(r.reply) /\ Plain(r.reply)
  <2> DEFINE m == Idp!Slo!LogoutRequest(Idp!IdpParty(i), Idp!SpParty(d), b, id)
  <2>1. m.kind = "LogoutRequest"
    BY DEF Idp!Slo!LogoutRequest
  <2>2. DOMAIN a = IdpFields /\ a.pending = app.pending
    BY <1>2 DEF Idp!insert_logout_tracker, IdpFields
  <2> HIDE DEF m
  <2>3. QED
    BY <1>2, <2>1, <2>2, SendLogoutFacts DEF m
<1>3. \/ \E kind \in {"signed-out-locally", "already-signed-out"} :
           r = [app |-> app, reply |-> Idp!Landing(kind, {})]
      \/ \E d \in app.sps : \E b \in Idp!pick_slo_binding(d) :
         \E a \in Idp!insert_logout_tracker(app, id, d.entity, now) :
           r = [app |-> a,
                reply |-> Idp!SendLogout(d.entity,
                            Idp!Slo!LogoutRequest(Idp!IdpParty(i), Idp!SpParty(d), b, id), {},
                            Idp!KeepCookie)]
  BY DEF Idp!handle_logout_self, Idp!handle_logout_everywhere
<1>4. QED
  BY <1>1, <1>2, <1>3

(* A LogoutRequest is answered under its own ID.                           *)
LEMMA ResponsesCorrelated ==
  /\ \A from, to, m, status, binding :
       LET res == Idp!Slo!build_logout_response(from, to, m, status, binding) IN
       res.kind = "LogoutResponse" /\ res.in_response_to = {res.id}
  /\ \A from, to, m, status, binding :
       LET res == Sp!Slo!build_logout_response(from, to, m, status, binding) IN
       res.kind = "LogoutResponse" /\ res.in_response_to = {res.id}
BY DEF Idp!Slo!build_logout_response, Sp!Slo!build_logout_response

LEMMA IdpSloRequest ==
  ASSUME NEW i, NEW app, NEW m, NEW relay_state, NEW now,
         NEW r \in Idp!handle_slo_request(i, app, m, relay_state, now)
  PROVE  r.app = app /\ LogoutReply(r.reply) /\ Plain(r.reply)
<1>1. r.app = app
  BY DEF Idp!handle_slo_request
<1>2. \/ r.reply = Idp!error_page({m.id})
      \/ \E d, b :
           r.reply = Idp!SendLogout(d.entity,
                       Idp!Slo!build_logout_response(Idp!IdpParty(i), Idp!SpParty(d), m, "Success", b),
                       relay_state, Idp!ClearCookie)
  BY DEF Idp!handle_slo_request
<1>3. CASE r.reply = Idp!error_page({m.id})
  BY <1>1, <1>3, LogoutPages
<1>4. ASSUME NEW d, NEW b,
             r.reply = Idp!SendLogout(d.entity,
                         Idp!Slo!build_logout_response(Idp!IdpParty(i), Idp!SpParty(d), m, "Success", b),
                         relay_state, Idp!ClearCookie)
      PROVE  LogoutReply(r.reply) /\ Plain(r.reply)
  BY <1>4, ResponsesCorrelated, SendLogoutFacts
<1>5. QED
  BY <1>1, <1>2, <1>3, <1>4

(* A response that ends a logout answers the tracked request, whose        *)
(* tracker it uses up.                                                     *)
Closes(m, before, after) ==
  /\ m.kind = "LogoutResponse"
  /\ \E id : m.in_response_to = {id} /\ Took(before, after) = {id}

LEMMA IdpSloResponse ==
  ASSUME NEW i, NEW app, NEW m, DOMAIN app = IdpFields,
         NEW r \in Idp!consume_logout_response_xml(i, app, m)
  PROVE  /\ DOMAIN r.app = IdpFields /\ r.app.pending = app.pending /\ LogoutReply(r.reply)
         /\ r.reply.page.kind = "signed-out" => Closes(m, app.logouts, r.app.logouts)
<1> DEFINE found == Idp!sp_by_entity_id(app, m.issuer)
           id == CHOOSE id \in m.in_response_to : TRUE
           taken == Idp!take_logout_tracker(app, id)
           verdict(d) == Idp!Slo!consume_logout_response(Idp!IdpParty(i), Idp!SpParty(d), m,
                                                         m.binding, m.detached, i, id)
           good(d) == Idp!Landing(Idp!Everywhere(Idp!Slo!to_outcome(m.status)), {id})
<1>1. CASE r = [app |-> app, reply |-> Idp!error_page({})]
  <2>1. r.app = app /\ r.reply = Idp!error_page({})
    BY <1>1
  <2>2. QED
    BY <2>1, LogoutPages DEF Plain
<1>2. ASSUME taken.found # {}, NEW d \in found,
             r = [app |-> [app EXCEPT !.logouts = taken.rest],
                  reply |-> IF verdict(d) # "Ok" THEN Idp!error_page({id}) ELSE good(d)]
      PROVE  /\ DOMAIN r.app = IdpFields /\ r.app.pending = app.pending /\ LogoutReply(r.reply)
             /\ r.reply.page.kind = "signed-out" => Closes(m, app.logouts, r.app.logouts)
  <2> HIDE DEF id
  <2>1. DOMAIN taken.rest = DOMAIN app.logouts \ {id} /\ id \in DOMAIN app.logouts
    BY <1>2, TakeFacts, SameTake DEF Idp!take_logout_tracker
  <2>2. verdict(d) = "Ok" => m.kind = "LogoutResponse" /\ m.in_response_to = {id}
    BY BothOk DEF Idp!Slo!consume_logout_response, Idp!Slo!Reject, Idp!Slo!&&
  <2>3. /\ DOMAIN r.app = IdpFields /\ r.app.pending = app.pending
        /\ r.app.logouts = taken.rest
    BY <1>2 DEF IdpFields
  <2>4. LogoutReply(good(d))
    BY LogoutPages DEF Idp!Everywhere
  <2> HIDE DEF verdict, good, taken
  <2>5. CASE verdict(d) # "Ok"
    BY <1>2, <2>3, <2>5, LogoutPages DEF Plain
  <2>6. CASE verdict(d) = "Ok"
    <3>1. r.reply = good(d)
      BY <1>2, <2>6
    <3>2. Closes(m, app.logouts, r.app.logouts)
      BY <2>1, <2>2, <2>3, <2>6 DEF Closes, Took
    <3>3. QED
      BY <2>3, <2>4, <3>1, <3>2
  <2>7. QED
    BY <2>5, <2>6
<1>3. \/ r = [app |-> app, reply |-> Idp!error_page({})]
      \/ /\ taken.found # {}
         /\ \E d \in found :
              r = [app |-> [app EXCEPT !.logouts = taken.rest],
                   reply |-> IF verdict(d) # "Ok" THEN Idp!error_page({id}) ELSE good(d)]
  BY DEF Idp!consume_logout_response_xml
<1> HIDE DEF found, taken, verdict, good
<1>4. QED
  BY <1>1, <1>2, <1>3

-----------------------------------------------------------------------------
(* The handlers of the SP.                                                 *)

SpFields == {"providers", "trackers", "logouts", "replay"}

(* What handle_login of the SP leaves and replies.                         *)
LoginReply(app, slug, id, r) ==
  /\ DOMAIN r.app = SpFields /\ r.app.providers = app.providers
  /\ DOMAIN r.app.trackers \subseteq DOMAIN app.trackers \cup {id}
  /\ ~r.reply.cookie.change /\ Plain(r.reply)
  /\ \A g \in r.reply.go :
       /\ \E p \in Sp!by_id(app, slug) : g.to = p.idp
       /\ g.path = "/saml/sso" /\ g.body.relay_state = {slug}
       /\ g.body.xml.id = id /\ g.body.xml.issuer = SpEntity /\ ~g.body.xml.force_authn

(* A login: a tracker, and a signed request to the provider's IdP.         *)
LEMMA SpHandleLogin ==
  ASSUME NEW app, NEW slug, NEW now, NEW id, DOMAIN app = SpFields,
         NEW r \in Sp!handle_login(app, slug, now, id)
  PROVE  LoginReply(app, slug, id, r)
<1> USE DEF LoginReply
<1> DEFINE xml(p) == Sp!AuthnRequest(p, id, now)
           signed(p) == {[cert |-> SpEntity, intact |-> TRUE, xml |-> xml(p), relay_state |-> {slug}]}
           body(p) == [xml |-> xml(p), relay_state |-> {slug}, binding |-> "HttpRedirect",
                       detached |-> signed(p)]
           reply(p) == Sp!Onward(Sp!Request(p.idp, "/saml/sso", body(p)), Sp!KeepCookie)
<1>1. CASE r = [app |-> app, reply |-> Sp!error_page({id})]
  BY <1>1 DEF Sp!error_page, Sp!Page, Sp!KeepCookie, Plain
<1>2. ASSUME NEW p \in Sp!by_id(app, slug),
             NEW a \in Sp!insert_tracker(app, Sp!LoginTracker(p, id, now), now),
             r = [app |-> a, reply |-> reply(p)]
      PROVE  /\ DOMAIN r.app = SpFields /\ r.app.providers = app.providers
             /\ DOMAIN r.app.trackers \subseteq DOMAIN app.trackers \cup {id}
             /\ ~r.reply.cookie.change /\ Plain(r.reply)
             /\ \A g \in r.reply.go :
                  /\ g.to = p.idp
                  /\ g.path = "/saml/sso" /\ g.body.relay_state = {slug}
                  /\ g.body.xml.id = id /\ g.body.xml.issuer = SpEntity
                  /\ ~g.body.xml.force_authn
  <2> DEFINE t == Sp!LoginTracker(p, id, now)
  <2>1. t.request_id = id
    BY DEF Sp!LoginTracker
  <2> HIDE DEF t
  <2>2. PICK s \in Sp!Store!Insert(app.trackers, id, t, now, TRACKER_STALE_AFTER, MAX_TRACKERS) :
          a = [app EXCEPT !.trackers = s]
    BY <1>2, <2>1 DEF Sp!insert_tracker, t
  <2>3. DOMAIN s \subseteq DOMAIN app.trackers \cup {id}
    <3>1. s \in Store!Insert(app.trackers, id, t, now, TRACKER_STALE_AFTER, MAX_TRACKERS)
      BY <2>2, SameInsert
    <3>2. QED
      BY <3>1, InsertFacts DEF Inserted
  <2>4. /\ DOMAIN a = SpFields /\ a.providers = app.providers /\ a.trackers = s
    BY <2>2 DEF SpFields
  <2>5. xml(p).id = id /\ xml(p).issuer = SpEntity /\ ~xml(p).force_authn
    BY DEF Sp!AuthnRequest
  <2> HIDE DEF xml, signed
  <2>6. ~reply(p).cookie.change /\ Plain(reply(p))
        /\ reply(p).go = {Sp!Request(p.idp, "/saml/sso", body(p))}
    BY DEF Sp!Onward, Sp!KeepCookie, Plain
  <2>7. LET g == Sp!Request(p.idp, "/saml/sso", body(p)) IN
        g.to = p.idp /\ g.path = "/saml/sso" /\ g.body = body(p)
    BY DEF Sp!Request
  <2> HIDE DEF reply
  <2>8. QED
    BY <1>2, <2>3, <2>4, <2>5, <2>6, <2>7
<1>3. \/ r = [app |-> app, reply |-> Sp!error_page({id})]
      \/ \E p \in Sp!by_id(app, slug) :
         \E a \in Sp!insert_tracker(app, Sp!LoginTracker(p, id, now), now) :
           r = [app |-> a, reply |-> reply(p)]
  BY DEF Sp!handle_login
<1> HIDE DEF reply
<1>4. QED
  BY <1>1, <1>2, <1>3

(* The answer to one request is accepted only with that request's tracker. *)
LEMMA AcsVerdictTracked ==
  ASSUME NEW p, NEW store, NEW form, NEW now, NEW id, form.response.in_response_to = {id},
         Sp!AcsVerdict(Sp!ConsumeForm(p, store, form, now)) = "Ok"
  PROVE  store # {}
<1> DEFINE x == Sp!ConsumeForm(p, store, form, now)
           cx == [Sp!Context(Sp!SpRole, x) EXCEPT !.decryption_keys = {SpEntity}]
<1>1. cx.tracker = Sp!TrackedRequest(x) /\ x.tracker = store /\ x.msg = form
  BY DEF Sp!Context, Sp!ConsumeForm
<1>2. Sp!validate_response(form.response, cx) = "Ok"
  BY <1>1, BothOk DEF Sp!AcsVerdict
<1> HIDE DEF x, cx
<1>3. Sp!InResponseTo(form.response.in_response_to, cx) = "Ok"
  BY <1>2, BothOk DEF Sp!validate_response, Sp!ResponseChecks
<1>4. cx.tracker # {}
  BY <1>3 DEF Sp!InResponseTo, Sp!Reject
<1>5. QED
  BY <1>1, <1>4 DEF Sp!TrackedRequest

(* What handle_acs leaves and replies.                                     *)
AcsReply(app, subject, i, id, slug, r) ==
  /\ DOMAIN r.app = SpFields
  /\ DOMAIN r.app.trackers \subseteq DOMAIN app.trackers
  /\ r.reply.go = {} /\ r.reply.page.kind # "signed-out"
  /\ r.reply.page.kind = "dashboard" =>
       /\ id \in DOMAIN app.trackers /\ id \notin DOMAIN r.app.trackers
       /\ r.reply.page.about = {id}
       /\ LET s == (CHOOSE c \in r.reply.cookie.to : TRUE).payload IN
          /\ s.idp = i /\ s.provider = slug
          /\ s.user = subject.user /\ s.index = subject.index

(* The session that comes of an answer is the subject's, at the provider   *)
(* whose slug the RelayState is; the login's tracker is gone.              *)
LEMMA SpHandleAcs ==
  ASSUME NEW app, NEW form, NEW subject, NEW now, NEW i, NEW id, NEW slug, DOMAIN app = SpFields,
         form.response.issuer = {i}, form.response.in_response_to = {id},
         form.relay_state = {slug},
         NEW r \in Sp!handle_acs(app, form, subject, now)
  PROVE  AcsReply(app, subject, i, id, slug, r)
<1> USE DEF AcsReply
<1> DEFINE found == UNION {Sp!by_entity_id(app, e) : e \in form.response.issuer}
           p == CHOOSE p \in found : TRUE
           taken == [t \in form.response.in_response_to |-> Sp!take_tracker(app, t)]
           tracker == UNION {taken[t].found : t \in DOMAIN taken}
           after == IF tracker = {} THEN app
                    ELSE [app EXCEPT !.trackers = taken[CHOOSE t \in DOMAIN taken : TRUE].rest]
           about == form.response.in_response_to
           x == Sp!ConsumeForm(p, tracker, form, now)
           outcome == Sp!Outcome(app.replay, Sp!AcsEntries(form), now, Sp!ReplayCapacity)
           cache == Sp!StoreAfter(app.replay, Sp!AcsEntries(form), now, Sp!ReplayCapacity)
           session == Sp!encode(Sp!SpSession(p, subject, now), SpEntity)
           dashboard == [Sp!Page("dashboard", about) EXCEPT !.cookie = Sp!SetCookie(session)]
<1>1. \/ r = [app |-> app, reply |-> Sp!error_page(about)]
      \/ r = [app |-> after, reply |-> Sp!error_page(about)]
      \/ /\ found # {} /\ form.relay_state \subseteq {p.id} /\ Sp!AcsVerdict(x) = "Ok"
         /\ r = [app |-> [after EXCEPT !.replay = cache],
                 reply |-> IF Sp!CacheVerdict(outcome, "AssertionReplay") # "accepted"
                             THEN Sp!error_page(about) ELSE dashboard]
  BY DEF Sp!handle_acs
<1>2. /\ taken[id] = Store!Take(app.trackers, id) /\ DOMAIN taken = {id}
      /\ tracker = Store!Take(app.trackers, id).found
      /\ (CHOOSE t \in DOMAIN taken : TRUE) = id
  BY SameTake DEF Sp!take_tracker
<1>3. /\ DOMAIN Store!Take(app.trackers, id).rest = DOMAIN app.trackers \ {id}
      /\ tracker # {} => id \in DOMAIN app.trackers
  BY <1>2, TakeFacts
<1> HIDE DEF taken
<1>4. /\ DOMAIN after = SpFields /\ DOMAIN after.trackers \subseteq DOMAIN app.trackers
      /\ tracker # {} => id \notin DOMAIN after.trackers
  BY <1>2, <1>3 DEF SpFields
<1> HIDE DEF tracker, after
<1>5. found # {} => p.idp = i
  <2>1. \A q \in found : q.idp = i
    BY DEF Sp!by_entity_id
  <2>2. QED
    BY <2>1
<1> HIDE DEF found, p
<1>6. LET page == Sp!error_page(about) IN page.go = {} /\ page.page.kind = "error"
  BY DEF Sp!error_page, Sp!Page
<1>7. CASE r.app \in {app, after} /\ r.reply = Sp!error_page(about)
  BY <1>4, <1>6, <1>7
<1>8. CASE /\ found # {} /\ form.relay_state \subseteq {p.id} /\ Sp!AcsVerdict(x) = "Ok"
           /\ r = [app |-> [after EXCEPT !.replay = cache],
                   reply |-> IF Sp!CacheVerdict(outcome, "AssertionReplay") # "accepted"
                               THEN Sp!error_page(about) ELSE dashboard]
  <2>1. DOMAIN r.app = SpFields /\ r.app.trackers = after.trackers
    BY <1>4, <1>8 DEF SpFields
  <2>2. tracker # {}
    BY <1>8, AcsVerdictTracked
  <2>3. p.id = slug /\ p.idp = i
    BY <1>5, <1>8
  <2>4. LET s == Sp!SpSession(p, subject, now) IN
        s.idp = i /\ s.provider = slug /\ s.user = subject.user /\ s.index = subject.index
    BY <2>3 DEF Sp!SpSession
  <2>5. /\ dashboard.go = {} /\ dashboard.page.kind = "dashboard" /\ dashboard.page.about = {id}
        /\ (CHOOSE c \in dashboard.cookie.to : TRUE).payload = Sp!SpSession(p, subject, now)
    <3>1. session.payload = Sp!SpSession(p, subject, now)
      BY DEF Sp!encode
    <3> HIDE DEF session
    <3>2. /\ dashboard.go = {} /\ dashboard.page.kind = "dashboard" /\ dashboard.page.about = {id}
          /\ dashboard.cookie.to = {session}
      BY DEF Sp!Page, Sp!SetCookie
    <3>3. QED
      BY <3>1, <3>2
  <2> HIDE DEF dashboard
  <2>6. r.reply = dashboard \/ r.reply = Sp!error_page(about)
    BY <1>8
  <2>7. CASE r.reply = Sp!error_page(about)
    BY <1>4, <1>6, <2>1, <2>7
  <2>8. CASE r.reply = dashboard
    BY <1>3, <1>4, <2>1, <2>2, <2>4, <2>5, <2>8
  <2>9. QED
    BY <2>6, <2>7, <2>8
<1> HIDE DEF AcsReply
<1>9. QED
  BY <1>1, <1>7, <1>8

(* "Sign out" on the SP.                                                   *)
LEMMA SpLogout ==
  ASSUME NEW app, NEW cookies, NEW now, NEW id, DOMAIN app = SpFields,
         NEW r \in Sp!handle_logout(app, cookies, now, id)
  PROVE  /\ DOMAIN r.app = SpFields /\ r.app.trackers = app.trackers
         /\ LogoutReply(r.reply) /\ Plain(r.reply)
<1> DEFINE kinds == {"already-signed-out", "signed-out-locally", "signed-out-locally-no-slo"}
           message(p, b) == Sp!Slo!LogoutRequest(Sp!SpParty, Sp!IdpParty(p), b, id)
<1>1. CASE \E kind \in kinds : r = [app |-> app, reply |-> Sp!Landing(kind, {})]
  <2>1. PICK kind \in kinds : r.app = app /\ r.reply = Sp!Landing(kind, {})
    BY <1>1
  <2>2. kind \notin {"dashboard", "signed-out"}
    BY <2>1
  <2>3. LogoutReply(Sp!Landing(kind, {})) /\ Sp!Landing(kind, {}).page.kind = kind
    BY <2>2, LogoutPages
  <2>4. QED
    BY <2>1, <2>2, <2>3 DEF Plain
<1>2. ASSUME NEW p, NEW b, NEW a \in Sp!insert_logout_tracker(app, id, p.idp, now),
             r = [app |-> a,
                  reply |-> Sp!SendLogout(p.idp, message(p, b), {p.id}, Sp!ClearCookie)]
      PROVE  /\ DOMAIN r.app = SpFields /\ r.app.trackers = app.trackers
             /\ LogoutReply(r.reply) /\ Plain(r.reply)
  <2>1. message(p, b).kind = "LogoutRequest"
    BY DEF Sp!Slo!LogoutRequest
  <2>2. DOMAIN a = SpFields /\ a.trackers = app.trackers
    BY <1>2 DEF Sp!insert_logout_tracker, SpFields
  <2> HIDE DEF message
  <2>3. QED
    BY <1>2, <2>1, <2>2, SendLogoutFacts
<1>3. \/ \E kind \in kinds : r = [app |-> app, reply |-> Sp!Landing(kind, {})]
      \/ \E p, b : \E a \in Sp!insert_logout_tracker(app, id, p.idp, now) :
           r = [app |-> a,
                reply |-> Sp!SendLogout(p.idp, message(p, b), {p.id}, Sp!ClearCookie)]
  BY DEF Sp!handle_logout
<1> HIDE DEF message, kinds
<1>4. QED
  BY <1>1, <1>2, <1>3

LEMMA SpSloRequest ==
  ASSUME NEW app, NEW m, NEW relay_state, NEW now,
         NEW r \in Sp!handle_slo_request(app, m, relay_state, now)
  PROVE  r.app = app /\ LogoutReply(r.reply) /\ Plain(r.reply)
<1> DEFINE response(p, b) ==
             Sp!Slo!build_logout_response(Sp!SpParty, Sp!IdpParty(p), m, "Success", b)
<1>1. \/ r = [app |-> app, reply |-> Sp!error_page({m.id})]
      \/ \E p, b :
           r = [app |-> app,
                reply |-> Sp!SendLogout(p.idp, response(p, b), relay_state, Sp!ClearCookie)]
  BY DEF Sp!handle_slo_request
<1>2. CASE r = [app |-> app, reply |-> Sp!error_page({m.id})]
  BY <1>2, LogoutPages
<1>3. ASSUME NEW p, NEW b,
             r = [app |-> app,
                  reply |-> Sp!SendLogout(p.idp, response(p, b), relay_state, Sp!ClearCookie)]
      PROVE  r.app = app /\ LogoutReply(r.reply) /\ Plain(r.reply)
  <2>1. response(p, b).kind = "LogoutResponse"
        /\ response(p, b).in_response_to = {response(p, b).id}
    BY ResponsesCorrelated
  <2> HIDE DEF response
  <2>2. QED
    BY <1>3, <2>1, SendLogoutFacts
<1> HIDE DEF response
<1>4. QED
  BY <1>1, <1>2, <1>3

(* The response must answer the tracker's request, by either binding.      *)
LEMMA SpVerdictOk ==
  ASSUME NEW p, NEW m, NEW id
  PROVE  LET banner == Sp!Banner(Sp!ResponseVerdict(p, m, id), m) IN
         /\ banner # "dashboard"
         /\ banner = "signed-out" => m.kind = "LogoutResponse" /\ m.in_response_to = {id}
<1>1. Sp!ResponseVerdict(p, m, id) = "Ok" =>
        m.kind = "LogoutResponse" /\ m.in_response_to = {id}
  BY DEF Sp!ResponseVerdict, Sp!Slo!consume_logout_response, Sp!Slo!Reject, Sp!Slo!&&
<1>2. QED
  BY <1>1 DEF Sp!Banner

LEMMA SpSloResponse ==
  ASSUME NEW app, NEW m, NEW relay_state, DOMAIN app = SpFields,
         NEW r \in Sp!handle_slo_response(app, m, relay_state)
                     \cup Sp!handle_slo_response_redirect(app, m, relay_state)
  PROVE  /\ DOMAIN r.app = SpFields /\ r.app.trackers = app.trackers /\ LogoutReply(r.reply)
         /\ r.reply.page.kind = "signed-out" => Closes(m, app.logouts, r.app.logouts)
<1> DEFINE banner(p, id) == Sp!Banner(Sp!ResponseVerdict(p, m, id), m)
           taken(id) == Sp!take_logout_tracker(app, id)
           closed(id) == [app EXCEPT !.logouts = taken(id).rest]
<1>1. ASSUME NEW p, NEW id, NEW about, id \in DOMAIN app.logouts,
             r.reply = Sp!Landing(banner(p, id), about),
             r.app = closed(id) \/ (r.app = app /\ banner(p, id) # "signed-out")
      PROVE  /\ DOMAIN r.app = SpFields /\ r.app.trackers = app.trackers /\ LogoutReply(r.reply)
             /\ r.reply.page.kind = "signed-out" => Closes(m, app.logouts, r.app.logouts)
  <2>1. /\ banner(p, id) # "dashboard"
        /\ banner(p, id) = "signed-out" => m.kind = "LogoutResponse" /\ m.in_response_to = {id}
    BY SpVerdictOk
  <2>2. DOMAIN taken(id).rest = DOMAIN app.logouts \ {id}
    BY TakeFacts, SameTake DEF Sp!take_logout_tracker
  <2> HIDE DEF taken, banner
  <2>3. /\ DOMAIN closed(id) = SpFields /\ closed(id).trackers = app.trackers
        /\ Took(app.logouts, closed(id).logouts) = {id}
    BY <1>1, <2>2 DEF SpFields, Took
  <2>4. LogoutReply(r.reply) /\ r.reply.page.kind = banner(p, id)
    BY <1>1, <2>1, LogoutPages
  <2> HIDE DEF closed
  <2>5. QED
    BY <1>1, <2>1, <2>3, <2>4 DEF Closes
<1>2. ASSUME NEW about, r = [app |-> app, reply |-> Sp!Landing("signed-out-locally", about)]
      PROVE  /\ DOMAIN r.app = SpFields /\ r.app.trackers = app.trackers /\ LogoutReply(r.reply)
             /\ r.reply.page.kind = "signed-out" => Closes(m, app.logouts, r.app.logouts)
  BY <1>2, LogoutPages
<1>3. CASE r \in Sp!handle_slo_response(app, m, relay_state)
  <2> DEFINE found == UNION {Sp!by_id(app, slug) : slug \in relay_state}
             p0 == CHOOSE p \in found : TRUE
             id0 == CHOOSE id \in m.in_response_to : TRUE
  <2>1. \/ \E about : r = [app |-> app, reply |-> Sp!Landing("signed-out-locally", about)]
        \/ /\ taken(id0).found # {}
           /\ r = [app |-> closed(id0), reply |-> Sp!Landing(banner(p0, id0), {id0})]
    BY <1>3 DEF Sp!handle_slo_response
  <2> HIDE DEF id0, p0
  <2>2. taken(id0).found # {} => id0 \in DOMAIN app.logouts
    BY TakeFacts, SameTake DEF Sp!take_logout_tracker
  <2> HIDE DEF taken, closed, banner
  <2>3. QED
    BY <1>1, <1>2, <2>1, <2>2
<1>4. CASE r \in Sp!handle_slo_response_redirect(app, m, relay_state)
  <2> DEFINE found == UNION {Sp!by_id(app, slug) : slug \in relay_state}
             p0 == CHOOSE p \in found : TRUE
             trackers == UNION {Sp!find_by_peer(app, q.idp) : q \in found}
  <2>1. \/ \E about : r = [app |-> app, reply |-> Sp!Landing("signed-out-locally", about)]
        \/ \E id \in trackers :
             r = [app |-> IF banner(p0, id) = "signed-out" THEN closed(id) ELSE app,
                  reply |-> Sp!Landing(banner(p0, id), m.in_response_to)]
    BY <1>4 DEF Sp!handle_slo_response_redirect
  <2>2. trackers \subseteq DOMAIN app.logouts
    BY DEF Sp!find_by_peer
  <2> HIDE DEF trackers, p0, taken, closed, banner
  <2>3. QED
    BY <1>1, <1>2, <2>1, <2>2
<1>5. QED
  BY <1>3, <1>4

-----------------------------------------------------------------------------
(* What a reply does to the browser and to the history.                    *)

Carries(b, site, reply) ==
  /\ DOMAIN cookie' = Browsers /\ DOMAIN tabs' = Browsers
  /\ \A c \in Browsers : DOMAIN cookie'[c] = Sites
  /\ \A c \in Browsers : \A g \in tabs'[c] :
       g \in tabs[c] \/ (c = b /\ g \in reply.go /\ g.to \in Sites)
  /\ \A c \in Browsers, s \in Sites :
       \/ cookie'[c][s] = cookie[c][s]
       \/ c = b /\ s = site /\ reply.cookie.change /\ cookie'[c][s] = reply.cookie.to

LEMMA BackFacts ==
  ASSUME Shapes, NEW b \in Browsers, NEW site \in Sites, NEW reply, NEW q, NEW again \in BOOLEAN,
         Back(b, site, reply, q, again)
  PROVE  /\ Carries(b, site, reply)
         /\ reply.cookie.change => cookie'[b][site] = reply.cookie.to
<1>1. DOMAIN cookie = Browsers /\ \A c \in Browsers : DOMAIN cookie[c] = Sites
  BY DEF Shapes
<1>2. DOMAIN tabs = Browsers
  BY DEF Shapes
<1>3. /\ DOMAIN tabs' = Browsers
      /\ \A c \in Browsers : \A g \in tabs'[c] :
           g \in tabs[c] \/ (c = b /\ g \in reply.go /\ g.to \in Sites)
  BY <1>2 DEF Back
<1>4. CASE reply.cookie.change
  <2>1. cookie' = [cookie EXCEPT ![b] = [cookie[b] EXCEPT ![site] = reply.cookie.to]]
    BY <1>4 DEF Back
  <2>2. QED
    BY <1>1, <1>3, <1>4, <2>1 DEF Carries
<1>5. CASE ~reply.cookie.change
  BY <1>1, <1>3, <1>5 DEF Back, Carries
<1>6. QED
  BY <1>4, <1>5

(* The record of an answer, and of a session.                              *)
AnswerRecord(body) ==
  [idp |-> CHOOSE e \in body.form.response.issuer : TRUE,
   request |-> CHOOSE x \in body.form.response.in_response_to : TRUE,
   index |-> body.subject.index, user |-> body.subject.user,
   aid |-> body.form.response.assertions[1].id]

GrantRecord(reply) ==
  LET s == (CHOOSE c \in reply.cookie.to : TRUE).payload IN
  [request |-> CHOOSE x \in reply.page.about : TRUE, idp |-> s.idp,
   provider |-> s.provider, index |-> s.index, user |-> s.user]

(* What the history `after` has recorded of a reply.                       *)
Notes(after, reply, gone) ==
  /\ DOMAIN after = LogFields
  /\ after.answers = log.answers
                       \cup {AnswerRecord(g.body) : g \in {g \in reply.go : g.path = "/saml/acs"}}
  /\ after.granted = IF reply.page.kind # "dashboard" THEN log.granted
                     ELSE log.granted \o <<GrantRecord(reply)>>
  /\ log.ended \subseteq after.ended
  /\ \A g \in reply.go :
       g.path = "/saml/slo" /\ g.body.message.kind = "LogoutResponse" =>
         g.body.message.id \in after.ended
  /\ after.said = log.said \cup IF reply.page.kind = "signed-out" THEN {gone} ELSE {}

LEMMA RecordedFacts ==
  ASSUME Shapes, NEW reply, NEW gone
  PROVE  LET after == Recorded(reply, gone) IN
         /\ Notes(after, reply, gone)
         /\ after.started = log.started /\ after.typed = log.typed /\ after.forced = log.forced
         /\ after.opened = log.opened
<1> DEFINE sent(path) == {g.body : g \in {g \in reply.go : g.path = path}}
           ended == {m.message.id : m \in {m \in sent("/saml/slo") :
                                             m.message.kind = "LogoutResponse"}}
           after == Recorded(reply, gone)
<1>1. DOMAIN log = LogFields /\ log.granted \in Seq(Grants)
  BY DEF Shapes
<1>2. after = [log EXCEPT !.answers = @ \cup {AnswerRecord(a) : a \in sent("/saml/acs")},
                          !.granted = @ \o IF reply.page.kind # "dashboard" THEN <<>>
                                           ELSE <<GrantRecord(reply)>>,
                          !.ended = @ \cup ended,
                          !.said = @ \cup IF reply.page.kind = "signed-out" THEN {gone} ELSE {}]
  BY Zenon DEF Recorded, AnswerRecord, GrantRecord
<1> HIDE DEF after
<1>3. log.granted \o <<>> = log.granted
  BY <1>1
<1>4. {AnswerRecord(a) : a \in sent("/saml/acs")}
        = {AnswerRecord(g.body) : g \in {g \in reply.go : g.path = "/saml/acs"}}
  OBVIOUS
<1>5. \A g \in reply.go :
        g.path = "/saml/slo" /\ g.body.message.kind = "LogoutResponse" =>
          g.body.message.id \in ended
  OBVIOUS
<1> HIDE DEF ended, sent
<1>6. /\ DOMAIN after = LogFields
      /\ after.started = log.started /\ after.typed = log.typed /\ after.forced = log.forced
      /\ after.opened = log.opened
      /\ after.answers = log.answers \cup {AnswerRecord(a) : a \in sent("/saml/acs")}
      /\ after.ended = log.ended \cup ended
      /\ after.said = log.said \cup IF reply.page.kind = "signed-out" THEN {gone} ELSE {}
  BY <1>1, <1>2 DEF LogFields
<1>7. after.granted = IF reply.page.kind # "dashboard" THEN log.granted
                      ELSE log.granted \o <<GrantRecord(reply)>>
  BY <1>1, <1>2, <1>3 DEF LogFields
<1>8. QED
  BY <1>4, <1>5, <1>6, <1>7 DEF Notes, after

-----------------------------------------------------------------------------
(* What the history has, it keeps; what rested on it still does.           *)

Grown ==
  /\ log.started \subseteq log'.started /\ log.typed \subseteq log'.typed
  /\ log.forced \subseteq log'.forced /\ log.answers \subseteq log'.answers
  /\ log.ended \subseteq log'.ended /\ log.opened \subseteq log'.opened

(* No demand is new, and no cookie of an IdP.                              *)
SameDemands ==
  /\ log'.forced = log.forced
  /\ \A b \in Browsers, i \in Idps : cookie'[b][i] \subseteq cookie[b][i]

LEMMA TabKept ==
  ASSUME Grown, NEW b, NEW q, TabSound(b, q),
         q.path = "/saml/sso/continue" => FreshFor(b, q)'
  PROVE  TabSound(b, q)'
<1>1. /\ \A i, id, relay_state : StartedAt(i, id, relay_state) => StartedAt(i, id, relay_state)'
      /\ \A id : Seen(id) => Seen(id)'
  BY DEF Grown, StartedAt, Seen
<1>2. q.path = "/saml/sso" => RequestSound(q)'
  BY <1>1 DEF TabSound, RequestSound
<1>3. q.path = "/saml/acs" /\ q.to = SpEntity => AnswerSound(q.body)'
  <2>1. SUFFICES ASSUME AnswerSound(q.body)
                 PROVE  AnswerSound(q.body)'
    BY DEF TabSound
  <2>2. QED
    BY <2>1 DEF AnswerSound, Grown
<1>4. q.path = "/saml/slo" => MessageSound(q.body.message)'
  BY DEF TabSound, MessageSound, Grown
<1>5. QED
  BY <1>1, <1>2, <1>3, <1>4 DEF TabSound

LEMMA TabsKept ==
  ASSUME Grown, SameDemands, TabsSound,
         \A c \in Browsers : \A g \in tabs'[c] : g \in tabs[c] \/ TabSound(c, g)'
  PROVE  TabsSound'
<1> SUFFICES ASSUME NEW c \in Browsers, NEW g \in tabs'[c]
             PROVE  TabSound(c, g)'
  BY DEF TabsSound
<1>1. CASE g \in tabs[c]
  <2>1. TabSound(c, g)
    BY <1>1 DEF TabsSound
  <2>2. g.path = "/saml/sso/continue" => FreshFor(c, g)'
    BY <2>1 DEF TabSound, FreshFor, SameDemands, Grown
  <2>3. QED
    BY <2>1, <2>2, TabKept
<1>2. QED
  BY <1>1

LEMMA PendingKept ==
  ASSUME Grown, PendingSound,
         \A i \in Idps : \A k \in DOMAIN idp'[i].pending :
           k \in DOMAIN idp[i].pending /\ idp'[i].pending[k] = idp[i].pending[k]
  PROVE  PendingSound'
<1>1. /\ \A i, id, relay_state : StartedAt(i, id, relay_state) => StartedAt(i, id, relay_state)'
      /\ \A id : Seen(id) => Seen(id)'
  BY DEF Grown, StartedAt, Seen
<1>2. QED
  BY <1>1 DEF PendingSound

LEMMA SaidKept ==
  ASSUME Grown, SignedOutMeansPerformed, NEW reply, NEW gone,
         log'.said = log.said \cup IF reply.page.kind = "signed-out" THEN {gone} ELSE {},
         reply.page.kind = "signed-out" => gone # {} /\ gone \subseteq log.ended
  PROVE  SignedOutMeansPerformed'
BY DEF Grown, SignedOutMeansPerformed

LEMMA EarnedKept ==
  ASSUME Grown, SessionEarned, log'.granted = log.granted
  PROVE  SessionEarned'
BY DEF Grown, SessionEarned

LEMMA ForcedKept ==
  ASSUME ForcedSound, Shapes, Shapes', log'.forced = log.forced, log.typed \subseteq log'.typed
  PROVE  ForcedSound'
<1>1. IsFiniteSet(log.typed) /\ IsFiniteSet(log'.typed)
  BY DEF Shapes
<1>2. /\ Cardinality(log.typed) \in Nat /\ Cardinality(log'.typed) \in Nat
      /\ Cardinality(log.typed) <= Cardinality(log'.typed)
  BY <1>1, FS_Subset, FS_CardinalityType
<1>3. QED
  BY <1>2 DEF ForcedSound

(* A step that starts, types, demands, answers and grants nothing.         *)
Still ==
  /\ log'.started = log.started /\ log'.typed = log.typed /\ log'.answers = log.answers
  /\ log'.granted = log.granted /\ log.ended \subseteq log'.ended
  /\ log.opened \subseteq log'.opened
  /\ count'.logins = count.logins /\ DOMAIN sp'.trackers \subseteq DOMAIN sp.trackers
  /\ SameDemands

LEMMA StillKept ==
  ASSUME AppInv, Still
  PROVE  /\ Grown /\ CookiesEarned' /\ ForcedSound' /\ AnswersSeen' /\ PromptHonoured'
         /\ StartsCounted' /\ GrantsFinal' /\ SessionEarned'
<1>1. Grown
  BY DEF Still, SameDemands, Grown
<1>2. CookiesEarned'
  BY DEF AppInv, CookiesEarned, Still, SameDemands
<1>3. ForcedSound'
  BY DEF AppInv, ForcedSound, Still, SameDemands
<1>4. AnswersSeen' /\ PromptHonoured'
  BY DEF AppInv, AnswersSeen, Seen, PromptHonoured, Still, SameDemands
<1>5. StartsCounted' /\ GrantsFinal'
  BY DEF AppInv, StartsCounted, GrantsFinal, Still
<1>6. SessionEarned'
  BY <1>1, EarnedKept DEF AppInv, Still
<1>7. QED
  BY <1>1, <1>2, <1>3, <1>4, <1>5, <1>6

-----------------------------------------------------------------------------
(* Booting, the clock and stuttering.                                      *)

LEMMA BootKeeps ==
  ASSUME AppInv,
         \/ Tick \/ (\E i \in Idps : StartIdp(i)) \/ (\E site \in Sites : Boots(site))
         \/ UNCHANGED vars
  PROVE  AppInv'
<1>1. /\ cookie' = cookie /\ tabs' = tabs /\ count' = count /\ log' = log
      /\ DOMAIN idp' = Idps /\ DOMAIN sp' = {"providers", "trackers", "logouts", "replay"}
      /\ sp'.trackers = sp.trackers
      /\ \A i \in Idps : DOMAIN idp'[i] = {"sps", "pending", "logouts"}
                         /\ idp'[i].pending = idp[i].pending
  <2> USE DEF AppInv, Shapes
  <2>1. CASE Tick \/ UNCHANGED vars
    BY <2>1 DEF Tick, vars
  <2>2. CASE \E i \in Idps : StartIdp(i)
    BY <2>2 DEF StartIdp
  <2>3. ASSUME NEW site \in Sites, NEW d \in Documents(site), Attempt(site, d)
        PROVE  idp' = idp /\ sp' = sp /\ cookie' = cookie /\ tabs' = tabs
               /\ count' = count /\ log' = log
    BY <2>3 DEF Attempt
  <2>4. CASE SpListens
    <3>1. /\ sp' = [sp EXCEPT !.providers = sp'.providers]
          /\ idp' = idp /\ cookie' = cookie /\ tabs' = tabs /\ count' = count /\ log' = log
      BY <2>4 DEF SpListens
    <3>2. QED
      BY <3>1
  <2>5. ASSUME NEW i \in Idps, Registers(i)
        PROVE  <1>1
    <3>1. PICK sps : idp' = [idp EXCEPT ![i].sps = sps]
      BY <2>5 DEF Registers
    <3>2. sp' = sp /\ cookie' = cookie /\ tabs' = tabs /\ count' = count /\ log' = log
      BY <2>5 DEF Registers
    <3>3. QED
      BY <3>1, <3>2
  <2>6. QED
    BY <2>1, <2>2, <2>3, <2>4, <2>5 DEF Boots
<1>2. Shapes'
  BY <1>1 DEF AppInv, Shapes
<1>3. Still
  BY <1>1 DEF Still, SameDemands
<1>4. PendingSound' /\ TabsSound' /\ SignedOutMeansPerformed'
  <2>1. PendingSound'
    BY <1>1, <1>3, StillKept, PendingKept DEF AppInv
  <2>2. TabsSound'
    <3>1. Grown /\ SameDemands
      BY <1>3, StillKept DEF Still
    <3>2. \A c \in Browsers : \A g \in tabs'[c] : g \in tabs[c]
      BY <1>1
    <3>3. QED
      BY <3>1, <3>2, TabsKept DEF AppInv
  <2>3. SignedOutMeansPerformed'
    BY <1>1 DEF AppInv, SignedOutMeansPerformed
  <2>4. QED
    BY <2>1, <2>2, <2>3
<1>5. QED
  BY <1>2, <1>3, <1>4, StillKept DEF AppInv

-----------------------------------------------------------------------------
(* Signing out.                                                            *)

(* What the users have done besides logging in does not matter.            *)
LoginsKept == "logins" \in DOMAIN count' /\ count'.logins = count.logins

LEMMA CountFacts ==
  ASSUME Shapes,
         \/ \E again \in BOOLEAN : count' = Resent(again)
         \/ \E n : count' = [count EXCEPT !.logouts = n]
         \/ \E n : count' = [count EXCEPT !.landings = n]
         \/ \E n : count' = [count EXCEPT !.others = n]
         \/ count' = count
  PROVE  LoginsKept
BY DEF Shapes, Resent, LoginsKept

(* The tabs a reply to a logout opens.                                     *)
LEMMA LogoutTabs ==
  ASSUME NEW b, NEW reply, NEW gone, LogoutReply(reply), Notes(log', reply, gone)
  PROVE  \A g \in reply.go : TabSound(b, g)'
BY DEF LogoutReply, Correlated, Notes, TabSound, MessageSound

LEMMA LogoutNotes ==
  ASSUME NEW reply, NEW gone, LogoutReply(reply), Notes(log', reply, gone)
  PROVE  log'.answers = log.answers /\ log'.granted = log.granted
BY DEF LogoutReply, Correlated, Notes

LEMMA LogoutKeeps ==
  ASSUME AppInv, NEW b \in Browsers, NEW site \in Sites, NEW reply, NEW q, NEW again \in BOOLEAN,
         NEW gone, Back(b, site, reply, q, again), log' = Recorded(reply, gone), LoginsKept,
         DOMAIN idp' = Idps, \A i \in Idps : DOMAIN idp'[i] = {"sps", "pending", "logouts"},
         \A i \in Idps : idp'[i].pending = idp[i].pending,
         DOMAIN sp' = {"providers", "trackers", "logouts", "replay"}, sp'.trackers = sp.trackers,
         LogoutReply(reply),
         reply.page.kind = "signed-out" => gone # {} /\ gone \subseteq log.ended
  PROVE  AppInv'
<1>1. Carries(b, site, reply)
  BY BackFacts DEF AppInv
<1>2. /\ Notes(log', reply, gone)
      /\ log'.started = log.started /\ log'.typed = log.typed /\ log'.forced = log.forced
      /\ log'.opened = log.opened
  BY RecordedFacts DEF AppInv
<1>3. Shapes'
  <2>1. log'.granted = log.granted /\ DOMAIN log' = LogFields
    BY <1>2, LogoutNotes DEF Notes
  <2>2. QED
    BY <1>1, <1>2, <2>1 DEF AppInv, Shapes, Carries, LoginsKept
<1>4. Still
  <2>1. \A c \in Browsers, i \in Idps : cookie'[c][i] \subseteq cookie[c][i]
    BY <1>1 DEF Carries, LogoutReply, Sites
  <2>2. log.ended \subseteq log'.ended
    BY <1>2 DEF Notes
  <2>3. QED
    BY <1>2, <2>1, <2>2, LogoutNotes DEF Still, SameDemands, LoginsKept
<1>5. Grown /\ SameDemands
  BY <1>4, StillKept DEF Still
<1>6. PendingSound'
  BY <1>5, PendingKept DEF AppInv
<1>7. TabsSound'
  <2>1. \A g \in reply.go : TabSound(b, g)'
    BY <1>2, LogoutTabs
  <2>2. \A c \in Browsers : \A g \in tabs'[c] : g \in tabs[c] \/ TabSound(c, g)'
    BY <1>1, <2>1 DEF Carries
  <2>3. QED
    BY <1>5, <2>2, TabsKept DEF AppInv
<1>8. SignedOutMeansPerformed'
  BY <1>2, <1>5, SaidKept DEF AppInv, Notes
<1>9. QED
  BY <1>3, <1>4, <1>6, <1>7, <1>8, StillKept DEF AppInv

(* What a step on one side leaves of the other, and of the application.    *)
LEMMA AtIdpFacts ==
  ASSUME Shapes, NEW b, NEW i \in Idps, NEW r, NEW q, NEW again, AtIdp(b, i, r, q, again),
         DOMAIN r.app = IdpFields
  PROVE  /\ DOMAIN idp' = Idps /\ idp'[i] = r.app /\ sp' = sp
         /\ \A j \in Idps \ {i} : idp'[j] = idp[j]
         /\ \A j \in Idps : DOMAIN idp'[j] = {"sps", "pending", "logouts"}
         /\ DOMAIN sp' = {"providers", "trackers", "logouts", "replay"}
         /\ Back(b, i, r.reply, q, again)
BY DEF Shapes, AtIdp, IdpFields

LEMMA AtSpFacts ==
  ASSUME Shapes, NEW b, NEW r, NEW q, NEW again, AtSp(b, r, q, again), DOMAIN r.app = SpFields
  PROVE  /\ sp' = r.app /\ idp' = idp /\ DOMAIN idp' = Idps
         /\ \A j \in Idps : DOMAIN idp'[j] = {"sps", "pending", "logouts"}
         /\ DOMAIN sp' = {"providers", "trackers", "logouts", "replay"}
         /\ Back(b, SpEntity, r.reply, q, again)
BY DEF Shapes, AtSp, SpFields

LEMMA LogoutKeepsAtIdp ==
  ASSUME AppInv, NEW b \in Browsers, NEW i \in Idps, NEW r, NEW q, NEW again \in BOOLEAN, NEW gone,
         AtIdp(b, i, r, q, again), log' = Recorded(r.reply, gone), LoginsKept,
         DOMAIN r.app = IdpFields, r.app.pending = idp[i].pending, LogoutReply(r.reply),
         r.reply.page.kind = "signed-out" => gone # {} /\ gone \subseteq log.ended
  PROVE  AppInv'
<1>1. Shapes /\ i \in Sites
  BY DEF AppInv, Sites
<1>2. /\ DOMAIN idp' = Idps /\ \A j \in Idps : DOMAIN idp'[j] = {"sps", "pending", "logouts"}
      /\ \A j \in Idps : idp'[j].pending = idp[j].pending
      /\ DOMAIN sp' = {"providers", "trackers", "logouts", "replay"} /\ sp' = sp
      /\ Back(b, i, r.reply, q, again)
  BY <1>1, AtIdpFacts
<1> HIDE DEF IdpFields
<1>3. QED
  BY <1>1, <1>2, LogoutKeeps

LEMMA LogoutKeepsAtSp ==
  ASSUME AppInv, NEW b \in Browsers, NEW r, NEW q, NEW again \in BOOLEAN, NEW gone,
         AtSp(b, r, q, again), log' = Recorded(r.reply, gone), LoginsKept,
         DOMAIN r.app = SpFields, r.app.trackers = sp.trackers, LogoutReply(r.reply),
         r.reply.page.kind = "signed-out" => gone # {} /\ gone \subseteq log.ended
  PROVE  AppInv'
<1>1. Shapes /\ SpEntity \in Sites
  BY DEF AppInv, Sites
<1>2. /\ DOMAIN idp' = Idps /\ \A j \in Idps : DOMAIN idp'[j] = {"sps", "pending", "logouts"}
      /\ idp' = idp
      /\ DOMAIN sp' = {"providers", "trackers", "logouts", "replay"} /\ sp'.trackers = sp.trackers
      /\ Back(b, SpEntity, r.reply, q, again)
  BY <1>1, AtSpFacts
<1>3. QED
  BY <1>1, <1>2, LogoutKeeps

(* Users sign out on either side.                                          *)
LEMMA LogoutsKeep ==
  ASSUME AppInv, NEW b \in Browsers,
         Logout(b) \/ \E i \in Idps : LogoutHere(b, i) \/ LogoutEverywhere(b, i)
  PROVE  AppInv'
<1>1. CASE Logout(b)
  <2>1. PICK r \in Sp!handle_logout(sp, cookie[b][SpEntity], clock, LogoutId) :
          /\ AtSp(b, r, {}, FALSE)
          /\ count' = [count EXCEPT !.logouts = @ + 1]
          /\ log' = Recorded(r.reply, {})
    BY <1>1 DEF Logout
  <2>2. LoginsKept /\ DOMAIN sp = SpFields
    BY <2>1, CountFacts DEF AppInv, Shapes, SpFields
  <2>3. /\ DOMAIN r.app = SpFields /\ r.app.trackers = sp.trackers
        /\ LogoutReply(r.reply) /\ Plain(r.reply)
    BY <2>1, <2>2, SpLogout
  <2>4. QED
    BY <2>1, <2>2, <2>3, LogoutKeepsAtSp DEF Plain
<1>2. ASSUME NEW i \in Idps, LogoutHere(b, i) \/ LogoutEverywhere(b, i)
      PROVE  AppInv'
  <2>1. PICK r \in Idp!handle_logout_self(idp[i])
                     \cup Idp!handle_logout_everywhere(i, idp[i], cookie[b][i], clock, LogoutId) :
          /\ AtIdp(b, i, r, {}, FALSE)
          /\ count' = [count EXCEPT !.logouts = @ + 1]
          /\ log' = Recorded(r.reply, {})
    BY <1>2 DEF LogoutHere, LogoutEverywhere
  <2>2. LoginsKept /\ DOMAIN idp[i] = IdpFields
    BY <2>1, CountFacts DEF AppInv, Shapes, IdpFields
  <2>3. /\ DOMAIN r.app = IdpFields /\ r.app.pending = idp[i].pending
        /\ LogoutReply(r.reply) /\ Plain(r.reply)
    BY <2>1, <2>2, IdpLogout
  <2>4. QED
    BY <2>1, <2>2, <2>3, LogoutKeepsAtIdp DEF Plain
<1>3. QED
  BY <1>1, <1>2

(* A logout message arrives.                                               *)
LEMMA SloKeeps ==
  ASSUME AppInv, NEW b \in Browsers, NEW q \in tabs[b], NEW again \in BOOLEAN,
         SloAtIdp(b, q, again) \/ SloAtSp(b, q, again)
  PROVE  AppInv'
<1> DEFINE m == q.body.message
<1>1. TabSound(b, q)
  BY DEF AppInv, TabsSound
<1>2. q.path = "/saml/slo" => MessageSound(m)
  BY <1>1 DEF TabSound
<1>3. \A before, after : q.path = "/saml/slo" /\ Closes(m, before, after) =>
        Took(before, after) # {} /\ Took(before, after) \subseteq log.ended
  BY <1>2 DEF MessageSound, Closes
<1>4. CASE SloAtIdp(b, q, again)
  <2>1. q.path = "/saml/slo" /\ q.to \in Idps
    BY <1>4 DEF SloAtIdp
  <2>2. PICK r \in IF m.kind = "LogoutRequest"
                     THEN Idp!handle_slo_request(q.to, idp[q.to], m, q.body.relay_state, clock)
                     ELSE Idp!consume_logout_response_xml(q.to, idp[q.to], m) :
          /\ AtIdp(b, q.to, r, {q}, again)
          /\ count' = Resent(again)
          /\ log' = Recorded(r.reply, Took(idp[q.to].logouts, r.app.logouts))
    BY <1>4 DEF SloAtIdp
  <2>3. LoginsKept /\ DOMAIN idp[q.to] = IdpFields
    BY <2>1, <2>2, CountFacts DEF AppInv, Shapes, IdpFields
  <2>4. /\ DOMAIN r.app = IdpFields /\ r.app.pending = idp[q.to].pending /\ LogoutReply(r.reply)
        /\ r.reply.page.kind = "signed-out" => Closes(m, idp[q.to].logouts, r.app.logouts)
    <3>1. CASE m.kind = "LogoutRequest"
      <4>1. r.app = idp[q.to] /\ LogoutReply(r.reply) /\ Plain(r.reply)
        BY <2>2, <3>1, IdpSloRequest
      <4>2. QED
        BY <2>3, <4>1 DEF Plain
    <3>2. CASE m.kind # "LogoutRequest"
      BY <2>2, <2>3, <3>2, IdpSloResponse
    <3>3. QED
      BY <3>1, <3>2
  <2>5. QED
    BY <1>3, <2>1, <2>2, <2>3, <2>4, LogoutKeepsAtIdp
<1>5. CASE SloAtSp(b, q, again)
  <2>1. q.path = "/saml/slo"
    BY <1>5 DEF SloAtSp
  <2>2. PICK r : /\ IF m.kind = "LogoutRequest"
                      THEN r \in Sp!handle_slo_request(sp, m, q.body.relay_state, clock)
                      ELSE r \in Sp!handle_slo_response(sp, m, q.body.relay_state)
                                 \cup Sp!handle_slo_response_redirect(sp, m, q.body.relay_state)
                 /\ AtSp(b, r, {q}, again)
                 /\ count' = Resent(again)
                 /\ log' = Recorded(r.reply, Took(sp.logouts, r.app.logouts))
    BY <1>5 DEF SloAtSp
  <2>3. LoginsKept /\ DOMAIN sp = SpFields
    BY <2>2, CountFacts DEF AppInv, Shapes, SpFields
  <2>4. /\ DOMAIN r.app = SpFields /\ r.app.trackers = sp.trackers /\ LogoutReply(r.reply)
        /\ r.reply.page.kind = "signed-out" => Closes(m, sp.logouts, r.app.logouts)
    <3>1. CASE m.kind = "LogoutRequest"
      <4>1. r.app = sp /\ LogoutReply(r.reply) /\ Plain(r.reply)
        BY <2>2, <3>1, SpSloRequest
      <4>2. QED
        BY <2>3, <4>1 DEF Plain
    <3>2. CASE m.kind # "LogoutRequest"
      BY <2>2, <2>3, <3>2, SpSloResponse
    <3>3. QED
      BY <3>1, <3>2
  <2>5. QED
    BY <1>3, <2>1, <2>2, <2>3, <2>4, LogoutKeepsAtSp
<1>6. QED
  BY <1>4, <1>5

-----------------------------------------------------------------------------
(* Signing in.                                                             *)

(* The entry of the history about an answer.                               *)
LEMMA AnswerNoted ==
  ASSUME NEW i, NEW g, NEW to, NEW known, NEW session, Answer(g, i, to, known, session)
  PROVE  LET a == AnswerRecord(g.body) IN
         a.idp = i /\ a.request = known.id /\ a.index = session.index
BY DEF Answer, AnswerRecord

(* An answer to a login of the SP, for a session of the browser.           *)
LEMMA AnswerCarried ==
  ASSUME AppInv, Grown, NEW b \in Browsers, NEW i \in Idps, NEW g, NEW known,
         NEW session \in Payloads(cookie[b][i]), Answer(g, i, known.sp, known, session),
         AnswerRecord(g.body) \in log'.answers,
         known.sp = SpEntity => StartedAt(i, known.id, known.relay_state)
  PROVE  TabSound(b, g)'
<1>1. g.path = "/saml/acs"
  BY DEF Answer
<1>2. ASSUME g.to = SpEntity
      PROVE  AnswerSound(g.body)'
  <2>1. PICK s \in log.started :
          s.request = known.id /\ s.idp = i /\ known.relay_state = {s.provider}
    BY <1>2 DEF Answer, StartedAt
  <2>2. [idp |-> i, user |-> session.user, index |-> session.index] \in log.typed
    BY DEF AppInv, CookiesEarned, Payloads
  <2>3. LET a == AnswerRecord(g.body) IN
        a.idp = i /\ a.request = known.id /\ a.index = session.index
    BY AnswerNoted
  <2>4. s \in log'.started
        /\ [idp |-> i, user |-> session.user, index |-> session.index] \in log'.typed
    BY <2>1, <2>2 DEF Grown
  <2>5. QED
    BY <2>1, <2>3, <2>4 DEF Answer, AnswerSound
<1>3. QED
  BY <1>1, <1>2 DEF TabSound

(* /saml/sso.                                                              *)
LEMMA SsoKeeps ==
  ASSUME AppInv, NEW b \in Browsers, NEW q \in tabs[b], NEW again \in BOOLEAN, Sso(b, q, again)
  PROVE  AppInv'
<1> DEFINE i == q.to
           xml == q.body.xml
           id == xml.id
           demand == [request |-> id, index |-> Cardinality(log.typed)]
<1>1. RequestSound(q) /\ i \in Idps /\ Shapes
  <2>1. TabSound(b, q)
    BY DEF AppInv, TabsSound
  <2>2. QED
    BY <2>1 DEF AppInv, TabSound, RequestSound, Sso
<1>2. PICK r \in Idp!handle_sso(i, idp[i], q.body, cookie[b][i], clock,
                                Cardinality(log.answers) + 1) :
        /\ AtIdp(b, i, r, {q}, again)
        /\ count' = Resent(again)
        /\ log' = [Recorded(r.reply, {}) EXCEPT
                     !.forced = IF ~xml.force_authn \/ \E f \in @ : f.request = id
                                  THEN @ ELSE @ \cup {demand}]
  BY DEF Sso
<1>3. DOMAIN idp[i] = IdpFields
  BY <1>1 DEF Shapes, IdpFields
<1>4. /\ DOMAIN r.app = IdpFields
      /\ \/ r.app.pending = idp[i].pending
         \/ \E v : /\ Inserted(idp[i].pending, r.app.pending, id, v, clock)
                   /\ Remembers(v.parsed.validated, xml, q.body.relay_state)
      /\ ~r.reply.cookie.change /\ Plain(r.reply)
      /\ \A g \in r.reply.go :
           \/ g = Idp!Request(i, "/saml/sso/login", [request_id |-> id])
           \/ /\ ~xml.force_authn
              /\ \E known, session :
                   /\ Remembers(known, xml, q.body.relay_state)
                   /\ session \in Payloads(cookie[b][i])
                   /\ Answer(g, i, known.sp, known, session)
  <2>1. SsoReply(i, idp[i], q.body, cookie[b][i], clock, r)
    BY <1>2, <1>3, HandleSso
  <2>2. QED
    BY <2>1 DEF SsoReply
<1>5. /\ DOMAIN idp' = Idps /\ idp'[i] = r.app /\ sp' = sp
      /\ \A j \in Idps \ {i} : idp'[j] = idp[j]
      /\ \A j \in Idps : DOMAIN idp'[j] = {"sps", "pending", "logouts"}
      /\ DOMAIN sp' = {"providers", "trackers", "logouts", "replay"}
      /\ Back(b, i, r.reply, {q}, again)
  BY <1>1, <1>2, <1>4, AtIdpFacts
<1>6. Carries(b, i, r.reply)
  BY <1>1, <1>5, BackFacts DEF Sites
<1>7. /\ Notes(log', r.reply, {})
      /\ log'.started = log.started /\ log'.typed = log.typed /\ log'.opened = log.opened
      /\ log'.forced = IF ~xml.force_authn \/ \E f \in log.forced : f.request = id
                         THEN log.forced ELSE log.forced \cup {demand}
  <2> DEFINE after == Recorded(r.reply, {})
  <2>1. /\ Notes(after, r.reply, {})
        /\ after.started = log.started /\ after.typed = log.typed /\ after.forced = log.forced
        /\ after.opened = log.opened
    BY <1>1, RecordedFacts
  <2>2. DOMAIN after = LogFields
    BY <2>1 DEF Notes
  <2> HIDE DEF after, demand
  <2>3. log' = [after EXCEPT !.forced = IF ~xml.force_authn \/ \E f \in after.forced : f.request = id
                                          THEN after.forced ELSE after.forced \cup {demand}]
    BY <1>2 DEF after
  <2>4. /\ DOMAIN log' = DOMAIN after /\ log'.started = after.started /\ log'.typed = after.typed
        /\ log'.answers = after.answers /\ log'.granted = after.granted
        /\ log'.ended = after.ended /\ log'.said = after.said
        /\ log'.opened = after.opened
        /\ log'.forced = IF ~xml.force_authn \/ \E f \in after.forced : f.request = id
                           THEN after.forced ELSE after.forced \cup {demand}
    BY <2>2, <2>3 DEF LogFields
  <2>5. QED
    BY <2>1, <2>4 DEF Notes
<1> HIDE DEF demand
<1>8. LoginsKept /\ log'.granted = log.granted
  BY <1>1, <1>2, <1>4, <1>7, CountFacts DEF Notes, Plain
<1>9. Grown
  BY <1>7 DEF Grown, Notes
<1>10. Shapes'
  BY <1>1, <1>5, <1>6, <1>7, <1>8 DEF Shapes, Carries, LoginsKept, Notes
<1>11. \A c \in Browsers, j \in Idps : cookie'[c][j] = cookie[c][j]
  BY <1>4, <1>6 DEF Carries, Sites
<1>12. Seen(id)' /\ (id \in Forced <=> xml.force_authn)
  <2>1. demand.request = id
    BY DEF demand
  <2>2. id \in Forced <=> xml.force_authn
    BY <1>1 DEF RequestSound
  <2>3. CASE ~xml.force_authn
    BY <2>2, <2>3 DEF Seen
  <2>4. CASE xml.force_authn
    <3>1. \E f \in log'.forced : f.request = id
      BY <1>7, <2>1, <2>4, Zenon
    <3>2. QED
      BY <2>2, <2>4, <3>1 DEF Seen
  <2>5. QED
    BY <2>3, <2>4, <2>2
<1>13. \A f \in log'.forced :
         f \in log.forced \/ (f = demand /\ id \in Forced /\ ~Seen(id))
  BY <1>7, <1>12 DEF Seen
<1>14. \A a \in log'.answers :
         a \in log.answers \/ (a.request = id /\ id \notin Forced)
  <2>1. ASSUME NEW g \in r.reply.go, g.path = "/saml/acs"
        PROVE  AnswerRecord(g.body).request = id /\ id \notin Forced
    <3>1. ~xml.force_authn /\ \E known, session :
            known.id = id /\ Answer(g, i, known.sp, known, session)
      BY <1>4, <2>1 DEF Idp!Request, Remembers
    <3>2. QED
      BY <1>12, <3>1, AnswerNoted
  <2>2. QED
    BY <1>7, <2>1 DEF Notes
<1>15. CookiesEarned'
  BY <1>9, <1>11 DEF AppInv, CookiesEarned, Grown
<1>16. PendingSound'
  <2>1. /\ \A j, k, s : StartedAt(j, k, s) => StartedAt(j, k, s)'
        /\ \A k : Seen(k) => Seen(k)'
    BY <1>9 DEF Grown, StartedAt, Seen
  <2> DEFINE Known(entry) == entry.value.parsed.validated
             Sound(j, k, known) ==
               /\ known.id = k /\ Seen(k)
               /\ known.sp = SpEntity => StartedAt(j, k, known.relay_state)
  <2>2. \A j, k, known : Sound(j, k, known) => Sound(j, k, known)'
    BY <2>1
  <2>3. ASSUME NEW v, Remembers(v.parsed.validated, xml, q.body.relay_state)
        PROVE  Sound(i, id, v.parsed.validated)'
    <3>1. xml.issuer = SpEntity => StartedAt(i, id, q.body.relay_state)'
      BY <1>1, <2>1 DEF RequestSound
    <3>2. QED
      BY <1>12, <2>3, <3>1 DEF Remembers
  <2>4. \A j \in Idps : \A k \in DOMAIN idp[j].pending : Sound(j, k, Known(idp[j].pending[k]))
    BY DEF AppInv, PendingSound
  <2> HIDE DEF Sound
  <2>5. \A j \in Idps : \A k \in DOMAIN idp'[j].pending :
          \/ k \in DOMAIN idp[j].pending /\ idp'[j].pending[k] = idp[j].pending[k]
          \/ j = i /\ k = id /\ \E v : /\ idp'[j].pending[k].value = v
                                       /\ Remembers(v.parsed.validated, xml, q.body.relay_state)
    <3>1. \A j \in Idps \ {i} : idp'[j].pending = idp[j].pending
      BY <1>5
    <3>2. idp'[i].pending = r.app.pending
      BY <1>5
    <3>3. ASSUME NEW v, Inserted(idp[i].pending, r.app.pending, id, v, clock)
          PROVE  /\ r.app.pending[id].value = v
                 /\ \A k \in DOMAIN r.app.pending \ {id} :
                      k \in DOMAIN idp[i].pending /\ r.app.pending[k] = idp[i].pending[k]
      BY <3>3 DEF Inserted
    <3>4. QED
      BY <1>4, <3>1, <3>2, <3>3
  <2>6. \A j \in Idps : \A k \in DOMAIN idp'[j].pending : Sound(j, k, Known(idp[j].pending[k]))'
    BY <2>2, <2>3, <2>4, <2>5
  <2>7. QED
    BY <2>6 DEF PendingSound, Sound
<1>17. TabsSound'
  <2> SUFFICES ASSUME NEW c \in Browsers, NEW g \in tabs'[c]
               PROVE  TabSound(c, g)'
    BY DEF TabsSound
  <2>1. CASE g \in tabs[c]
    <3>1. TabSound(c, g)
      BY <2>1 DEF AppInv, TabsSound
    <3>2. g.path = "/saml/sso/continue" => FreshFor(c, g)'
      <4>1. ASSUME g.path = "/saml/sso/continue", NEW f \in log'.forced,
                   f.request = g.body.request_id
            PROVE  f \in log.forced
        BY <1>13, <3>1, <4>1 DEF TabSound, demand
      <4>2. QED
        BY <1>7, <1>11, <3>1, <4>1 DEF TabSound, FreshFor
    <3>3. QED
      BY <1>9, <3>1, <3>2, TabKept
  <2>2. CASE c = b /\ g \in r.reply.go
    <3>1. CASE g = Idp!Request(i, "/saml/sso/login", [request_id |-> id])
      BY <1>1, <1>12, <3>1 DEF Idp!Request, TabSound
    <3>2. ASSUME NEW known, NEW session \in Payloads(cookie[b][i]),
                 Remembers(known, xml, q.body.relay_state),
                 Answer(g, i, known.sp, known, session)
          PROVE  TabSound(c, g)'
      <4>1. known.sp = SpEntity => StartedAt(i, known.id, known.relay_state)
        BY <1>1, <3>2 DEF Remembers, RequestSound
      <4>2. AnswerRecord(g.body) \in log'.answers
        BY <1>7, <2>2, <3>2 DEF Answer, Notes
      <4>3. QED
        BY <1>1, <1>9, <2>2, <3>2, <4>1, <4>2, AnswerCarried
    <3>3. QED
      BY <1>4, <2>2, <3>1, <3>2
  <2>3. QED
    BY <1>6, <2>1, <2>2 DEF Carries
<1>18. ForcedSound'
  <2>1. Cardinality(log.typed) \in Nat
    BY <1>1, FS_CardinalityType DEF Shapes
  <2>2. QED
    BY <1>7, <1>13, <2>1 DEF AppInv, ForcedSound, demand
<1>19. AnswersSeen'
  BY <1>9, <1>14 DEF AppInv, AnswersSeen, Seen, Grown
<1>20. PromptHonoured'
  <2> SUFFICES ASSUME NEW a \in log'.answers, NEW f \in log'.forced, a.request = f.request
               PROVE  a.index > f.index \/ f.request \in log.opened
    BY <1>7 DEF PromptHonoured
  <2>1. f.request \in Forced
    BY <1>18 DEF ForcedSound
  <2>2. a \in log.answers
    BY <1>14, <2>1
  <2>3. f \in log.forced
    BY <1>13, <2>2 DEF AppInv, AnswersSeen, demand
  <2>4. QED
    BY <2>2, <2>3 DEF AppInv, PromptHonoured
<1>21. StartsCounted' /\ GrantsFinal' /\ SessionEarned'
  BY <1>5, <1>7, <1>8, <1>9, EarnedKept DEF AppInv, StartsCounted, GrantsFinal, LoginsKept
<1>22. SignedOutMeansPerformed'
  BY <1>4, <1>7, <1>9, SaidKept DEF AppInv, Notes, Plain
<1>23. QED
  BY <1>10, <1>15, <1>16, <1>17, <1>18, <1>19, <1>20, <1>21, <1>22 DEF AppInv

(* /saml/sso/continue.                                                     *)
LEMMA ContinueKeeps ==
  ASSUME AppInv, NEW b \in Browsers, NEW q \in tabs[b], NEW again \in BOOLEAN,
         Continue(b, q, again)
  PROVE  AppInv'
<1> DEFINE i == q.to
           id == q.body.request_id
           known == idp[i].pending[id].value.parsed.validated
<1>1. i \in Idps /\ Seen(id) /\ FreshFor(b, q) /\ Shapes
  <2>1. TabSound(b, q)
    BY DEF AppInv, TabsSound
  <2>2. QED
    BY <2>1 DEF AppInv, TabSound, Continue
<1>2. PICK r \in Idp!finalize_continue(i, idp[i], id, cookie[b][i], clock,
                                       Cardinality(log.answers) + 1) :
        /\ AtIdp(b, i, r, {q}, again)
        /\ count' = Resent(again)
        /\ log' = Recorded(r.reply, {})
  BY DEF Continue
<1>3. DOMAIN idp[i] = IdpFields
  BY <1>1 DEF Shapes, IdpFields
<1>4. /\ DOMAIN r.app = IdpFields
      /\ DOMAIN r.app.pending \subseteq DOMAIN idp[i].pending
      /\ \A k \in DOMAIN r.app.pending : r.app.pending[k] = idp[i].pending[k]
      /\ ~r.reply.cookie.change /\ Plain(r.reply)
      /\ \A g \in r.reply.go :
           \/ g = Idp!Request(i, "/saml/sso/login", [request_id |-> id])
           \/ /\ id \in DOMAIN idp[i].pending
              /\ \E session \in Payloads(cookie[b][i]) : Answer(g, i, known.sp, known, session)
  <2>1. ContinueReply(i, idp[i], id, cookie[b][i], r)
    BY <1>2, <1>3, FinalizeContinue
  <2>2. QED
    BY <2>1 DEF ContinueReply
<1>5. /\ DOMAIN idp' = Idps /\ idp'[i] = r.app /\ sp' = sp
      /\ \A j \in Idps \ {i} : idp'[j] = idp[j]
      /\ \A j \in Idps : DOMAIN idp'[j] = {"sps", "pending", "logouts"}
      /\ DOMAIN sp' = {"providers", "trackers", "logouts", "replay"}
      /\ Back(b, i, r.reply, {q}, again)
  BY <1>1, <1>2, <1>4, AtIdpFacts
<1>6. Carries(b, i, r.reply)
  BY <1>1, <1>5, BackFacts DEF Sites
<1>7. /\ Notes(log', r.reply, {})
      /\ log'.started = log.started /\ log'.typed = log.typed /\ log'.forced = log.forced
      /\ log'.opened = log.opened
  BY <1>1, <1>2, RecordedFacts
<1>8. LoginsKept /\ log'.granted = log.granted
  BY <1>1, <1>2, <1>4, <1>7, CountFacts DEF Notes, Plain
<1>9. Grown
  BY <1>7 DEF Grown, Notes
<1>10. Shapes'
  BY <1>1, <1>5, <1>6, <1>7, <1>8 DEF Shapes, Carries, LoginsKept, Notes
<1>11. \A c \in Browsers, j \in Idps : cookie'[c][j] = cookie[c][j]
  BY <1>4, <1>6 DEF Carries, Sites
<1>12. SameDemands
  BY <1>7, <1>11 DEF SameDemands
<1>13. id \in DOMAIN idp[i].pending =>
         known.id = id /\ (known.sp = SpEntity => StartedAt(i, id, known.relay_state))
  BY <1>1 DEF AppInv, PendingSound
<1> HIDE DEF known
<1>14. \A a \in log'.answers :
         \/ a \in log.answers
         \/ a.request = id /\ \E session \in Payloads(cookie[b][i]) : a.index = session.index
  <2>1. ASSUME NEW g \in r.reply.go, g.path = "/saml/acs"
        PROVE  LET a == AnswerRecord(g.body) IN
               a.request = id /\ \E session \in Payloads(cookie[b][i]) : a.index = session.index
    <3>1. id \in DOMAIN idp[i].pending
          /\ \E session \in Payloads(cookie[b][i]) : Answer(g, i, known.sp, known, session)
      BY <1>4, <2>1 DEF Idp!Request
    <3>2. QED
      BY <1>13, <3>1, AnswerNoted
  <2>2. QED
    BY <1>7, <2>1 DEF Notes
<1>15. CookiesEarned'
  BY <1>9, <1>11 DEF AppInv, CookiesEarned, Grown
<1>16. PendingSound'
  <2>1. \A j \in Idps : \A k \in DOMAIN idp'[j].pending :
          k \in DOMAIN idp[j].pending /\ idp'[j].pending[k] = idp[j].pending[k]
    BY <1>4, <1>5
  <2>2. QED
    BY <1>9, <2>1, PendingKept DEF AppInv
<1>17. TabsSound'
  <2>1. ASSUME NEW g \in r.reply.go
        PROVE  TabSound(b, g)'
    <3>1. CASE g = Idp!Request(i, "/saml/sso/login", [request_id |-> id])
      <4>1. Seen(id)'
        BY <1>1, <1>9 DEF Seen, Grown
      <4>2. QED
        BY <1>1, <3>1, <4>1 DEF Idp!Request, TabSound
    <3>2. ASSUME id \in DOMAIN idp[i].pending, NEW session \in Payloads(cookie[b][i]),
                 Answer(g, i, known.sp, known, session)
          PROVE  TabSound(b, g)'
      <4>1. known.sp = SpEntity => StartedAt(i, known.id, known.relay_state)
        BY <1>13, <3>2
      <4>2. AnswerRecord(g.body) \in log'.answers
        BY <1>7, <3>2 DEF Answer, Notes
      <4>3. QED
        BY <1>1, <1>9, <3>2, <4>1, <4>2, AnswerCarried
    <3>3. QED
      BY <1>4, <3>1, <3>2
  <2>2. \A c \in Browsers : \A g \in tabs'[c] : g \in tabs[c] \/ TabSound(c, g)'
    BY <1>6, <2>1 DEF Carries
  <2>3. QED
    BY <1>9, <1>12, <2>2, TabsKept DEF AppInv
<1>18. ForcedSound'
  BY <1>1, <1>7, <1>10, ForcedKept DEF AppInv
<1>19. AnswersSeen'
  BY <1>1, <1>9, <1>14 DEF AppInv, AnswersSeen, Seen, Grown
<1>20. PromptHonoured'
  <2>1. \A session \in Payloads(cookie[b][i]), f \in log.forced :
          f.request = id => session.index > f.index \/ id \in log.opened
    BY <1>1 DEF FreshFor, Payloads
  <2>2. QED
    BY <1>7, <1>14, <2>1 DEF AppInv, PromptHonoured
<1>21. StartsCounted' /\ GrantsFinal' /\ SessionEarned'
  BY <1>5, <1>7, <1>8, <1>9, EarnedKept DEF AppInv, StartsCounted, GrantsFinal, LoginsKept
<1>22. SignedOutMeansPerformed'
  BY <1>4, <1>7, <1>9, SaidKept DEF AppInv, Notes, Plain
<1>23. QED
  BY <1>10, <1>15, <1>16, <1>17, <1>18, <1>19, <1>20, <1>21, <1>22 DEF AppInv

(* A step that adds tabs only.                                             *)
LEMMA OtherLoginKeeps ==
  ASSUME AppInv, NEW b \in Browsers, NEW q \in OtherRequests, OtherLogin(b, q)
  PROVE  AppInv'
<1>1. Shapes /\ idp' = idp /\ sp' = sp /\ cookie' = cookie /\ log' = log
      /\ tabs' = [tabs EXCEPT ![b] = @ \cup {q}]
  BY DEF AppInv, OtherLogin
<1>2. LoginsKept
  BY <1>1, CountFacts DEF OtherLogin
<1>3. Shapes'
  BY <1>1, <1>2 DEF Shapes, LoginsKept
<1>4. Still
  BY <1>1, <1>2 DEF Still, SameDemands, LoginsKept
<1>5. Grown /\ SameDemands
  BY <1>4, StillKept DEF Still
<1>6. TabSound(b, q)'
  <2>1. /\ q.path = "/saml/sso" /\ q.to \in Idps /\ q.body.xml.issuer # SpEntity
        /\ q.body.xml.force_authn \in BOOLEAN
        /\ \A p \in OtherRequests : p.body.xml.id = q.body.xml.id => p.body.xml = q.body.xml
    BY ExampleParties
  <2>2. q.body.xml.id \in Forced =>
          \E p \in OtherRequests : p.body.xml.force_authn /\ p.body.xml.id = q.body.xml.id
    BY DEF Forced
  <2>3. q.body.xml.id \in Forced => q.body.xml.force_authn
    BY <2>1, <2>2, Zenon
  <2>4. q.body.xml.force_authn => q.body.xml.id \in Forced
    BY Zenon DEF Forced
  <2>5. RequestSound(q)'
    BY <2>1, <2>3, <2>4 DEF RequestSound
  <2>6. QED
    BY <2>1, <2>5 DEF TabSound
<1>7. TabsSound'
  <2>1. \A c \in Browsers : \A g \in tabs'[c] : g \in tabs[c] \/ TabSound(c, g)'
    BY <1>1, <1>6 DEF Shapes
  <2>2. QED
    BY <1>5, <2>1, TabsKept DEF AppInv
<1>8. PendingSound'
  BY <1>1, <1>5, PendingKept DEF AppInv
<1>9. SignedOutMeansPerformed'
  BY <1>1 DEF AppInv, SignedOutMeansPerformed
<1>10. QED
  BY <1>3, <1>4, <1>7, <1>8, <1>9, StillKept DEF AppInv

(* A page opened by its address: its request waits at the IdP, which has   *)
(* therefore seen it.                                                      *)
LEMMA OpenKeeps ==
  ASSUME AppInv, NEW b \in Browsers, NEW i \in Idps,
         NEW path \in {"/saml/sso/login", "/saml/sso/continue"},
         NEW id \in DOMAIN idp[i].pending, Open(b, i, path, id)
  PROVE  AppInv'
<1> DEFINE page == Request(i, path, [request_id |-> id])
           new == {x \in {id} : path = "/saml/sso/continue"}
<1>1. /\ Shapes /\ idp' = idp /\ sp' = sp /\ cookie' = cookie
      /\ tabs' = [tabs EXCEPT ![b] = @ \cup {page}]
      /\ log' = [log EXCEPT !.opened = @ \cup new]
  BY DEF AppInv, Open
<1>2. LoginsKept
  BY <1>1, CountFacts DEF Open
<1> HIDE DEF new
<1>3. /\ DOMAIN log' = LogFields /\ log'.opened = log.opened \cup new
      /\ log'.started = log.started /\ log'.typed = log.typed /\ log'.forced = log.forced
      /\ log'.answers = log.answers /\ log'.granted = log.granted
      /\ log'.ended = log.ended /\ log'.said = log.said
  BY <1>1 DEF Shapes, LogFields
<1>4. Shapes'
  BY <1>1, <1>2, <1>3 DEF Shapes, LoginsKept
<1>5. Still
  BY <1>1, <1>2, <1>3 DEF Still, SameDemands, LoginsKept
<1>6. Grown /\ SameDemands
  BY <1>5, StillKept DEF Still
<1>7. TabSound(b, page)'
  <2>1. page.to = i /\ page.path = path /\ page.body.request_id = id
    BY DEF Request
  <2>2. Seen(id)'
    BY <1>3 DEF AppInv, PendingSound, Seen
  <2>3. path = "/saml/sso/continue" => FreshFor(b, page)'
    BY <1>3, <2>1 DEF FreshFor, new
  <2> HIDE DEF page
  <2>4. QED
    BY <2>1, <2>2, <2>3 DEF TabSound
<1> HIDE DEF page
<1>8. TabsSound'
  <2>1. \A c \in Browsers : \A g \in tabs'[c] : g \in tabs[c] \/ TabSound(c, g)'
    BY <1>1, <1>7 DEF Shapes
  <2>2. QED
    BY <1>6, <2>1, TabsKept DEF AppInv
<1>9. PendingSound'
  BY <1>1, <1>6, PendingKept DEF AppInv
<1>10. SignedOutMeansPerformed'
  BY <1>3 DEF AppInv, SignedOutMeansPerformed
<1>11. QED
  BY <1>4, <1>5, <1>8, <1>9, <1>10, StillKept DEF AppInv

(* /login/:provider_id on the SP.                                          *)
LEMMA LoginKeeps ==
  ASSUME AppInv, Ready, NEW b \in Browsers, NEW n \in DOMAIN Providers, Login(b, n)
  PROVE  AppInv'
<1> DEFINE id == count.logins + 1
           slug == Providers[n].id
           start == [request |-> id, idp |-> Providers[n].idp, provider |-> slug]
<1>1. Shapes /\ id \in 1..MaxLogins /\ DOMAIN sp = SpFields
  BY ExampleAssumption DEF AppInv, Shapes, Login, SpFields
<1>2. PICK r \in Sp!handle_login(sp, slug, clock, id) :
        /\ AtSp(b, r, {}, FALSE)
        /\ count' = [count EXCEPT !.logins = id]
        /\ log' = [Recorded(r.reply, {}) EXCEPT !.started = @ \cup {start}]
  BY DEF Login
<1>3. /\ DOMAIN r.app = SpFields
      /\ DOMAIN r.app.trackers \subseteq DOMAIN sp.trackers \cup {id}
      /\ ~r.reply.cookie.change /\ Plain(r.reply)
      /\ \A g \in r.reply.go :
           /\ \E p \in Sp!by_id(sp, slug) : g.to = p.idp
           /\ g.path = "/saml/sso" /\ g.body.relay_state = {slug}
           /\ g.body.xml.id = id /\ g.body.xml.issuer = SpEntity /\ ~g.body.xml.force_authn
  <2>1. LoginReply(sp, slug, id, r)
    BY <1>1, <1>2, SpHandleLogin
  <2>2. QED
    BY <2>1 DEF LoginReply
<1>4. \A p \in Sp!by_id(sp, slug) : p = Providers[n]
  BY ExampleParties DEF Ready, Sp!by_id
<1>5. /\ sp' = r.app /\ idp' = idp /\ DOMAIN idp' = Idps
      /\ \A j \in Idps : DOMAIN idp'[j] = {"sps", "pending", "logouts"}
      /\ DOMAIN sp' = {"providers", "trackers", "logouts", "replay"}
      /\ Back(b, SpEntity, r.reply, {}, FALSE)
  BY <1>1, <1>2, <1>3, AtSpFacts
<1>6. Carries(b, SpEntity, r.reply)
  BY <1>1, <1>5, BackFacts DEF Sites
<1>7. /\ Notes(log', r.reply, {}) /\ log'.started = log.started \cup {start}
      /\ log'.typed = log.typed /\ log'.forced = log.forced /\ log'.opened = log.opened
  <2> DEFINE after == Recorded(r.reply, {})
  <2>1. /\ Notes(after, r.reply, {})
        /\ after.started = log.started /\ after.typed = log.typed /\ after.forced = log.forced
        /\ after.opened = log.opened
    BY <1>1, RecordedFacts
  <2>2. DOMAIN after = LogFields
    BY <2>1 DEF Notes
  <2> HIDE DEF after, start
  <2>3. log' = [after EXCEPT !.started = after.started \cup {start}]
    BY <1>2 DEF after
  <2>4. /\ DOMAIN log' = DOMAIN after /\ log'.forced = after.forced /\ log'.typed = after.typed
        /\ log'.answers = after.answers /\ log'.granted = after.granted
        /\ log'.ended = after.ended /\ log'.said = after.said
        /\ log'.opened = after.opened
        /\ log'.started = after.started \cup {start}
    BY <2>2, <2>3 DEF LogFields
  <2>5. QED
    BY <2>1, <2>4 DEF Notes
<1>8. log'.granted = log.granted /\ log'.answers = log.answers
  BY <1>3, <1>7 DEF Notes, Plain
<1>9. /\ "logins" \in DOMAIN count' /\ count'.logins = count.logins + 1
      /\ count.logins \in Nat /\ count'.logins \in Nat
  BY <1>1, <1>2 DEF Shapes
<1>10. Grown
  BY <1>7 DEF Grown, Notes
<1>11. SameDemands
  <2>1. \A c \in Browsers, j \in Idps : cookie'[c][j] = cookie[c][j]
    BY <1>3, <1>6 DEF Carries, Sites
  <2>2. QED
    BY <1>7, <2>1 DEF SameDemands
<1>12. Shapes'
  <2>1. start \in Starts
    BY <1>1 DEF Starts, Slugs, ProviderIdps
  <2>2. QED
    BY <1>1, <1>5, <1>6, <1>7, <1>8, <1>9, <2>1 DEF Shapes, Carries, Notes
<1>13. CookiesEarned'
  BY <1>10, <1>11 DEF AppInv, CookiesEarned, Grown, SameDemands
<1>14. PendingSound'
  BY <1>5, <1>10, PendingKept DEF AppInv
<1>15. TabsSound'
  <2>1. ASSUME NEW g \in r.reply.go, g.to \in Sites
        PROVE  TabSound(b, g)'
    <3>1. g.to = Providers[n].idp /\ g.to \in Idps
      BY <1>3, <1>4, <2>1, ExampleParties DEF Sites
    <3>2. start \in log'.started /\ start.request = id /\ start.idp = g.to
          /\ {slug} = {start.provider}
      BY <1>7, <3>1
    <3>3. id \notin Forced
      BY <1>1, ExampleParties DEF Forced
    <3>4. RequestSound(g)'
      <4>1. StartedAt(g.to, g.body.xml.id, g.body.relay_state)'
        BY <1>3, <2>1, <3>2 DEF StartedAt
      <4>2. QED
        BY <1>3, <2>1, <3>1, <3>3, <4>1 DEF RequestSound
    <3>5. QED
      BY <1>3, <3>4 DEF TabSound
  <2>2. \A c \in Browsers : \A g \in tabs'[c] : g \in tabs[c] \/ TabSound(c, g)'
    BY <1>6, <2>1 DEF Carries
  <2>3. QED
    BY <1>10, <1>11, <2>2, TabsKept DEF AppInv
<1>16. ForcedSound' /\ AnswersSeen' /\ PromptHonoured'
  BY <1>1, <1>7, <1>8, <1>12, ForcedKept
     DEF AppInv, AnswersSeen, Seen, PromptHonoured
<1>17. StartsCounted'
  BY <1>7, <1>9 DEF AppInv, StartsCounted
<1>18. GrantsFinal'
  <2>1. ASSUME NEW k \in DOMAIN log.granted
        PROVE  log.granted[k].request # id
    <3>1. PICK s \in log.started : s.request = log.granted[k].request
      BY DEF AppInv, SessionEarned
    <3>2. s.request \in 1..count.logins
      BY DEF AppInv, StartsCounted
    <3>3. QED
      BY <1>9, <3>1, <3>2
  <2>2. QED
    BY <1>3, <1>5, <1>8, <2>1 DEF AppInv, GrantsFinal
<1>19. SessionEarned'
  BY <1>8, <1>10, EarnedKept DEF AppInv
<1>20. SignedOutMeansPerformed'
  BY <1>3, <1>7, <1>10, SaidKept DEF AppInv, Notes, Plain
<1>21. QED
  BY <1>12, <1>13, <1>14, <1>15, <1>16, <1>17, <1>18, <1>19, <1>20 DEF AppInv

(* /saml/acs.                                                              *)
LEMMA ConsumeAnswerKeeps ==
  ASSUME AppInv, NEW b \in Browsers, NEW q \in tabs[b], NEW again \in BOOLEAN,
         ConsumeAnswer(b, q, again)
  PROVE  AppInv'
<1> DEFINE form == q.body.form
           subject == q.body.subject
<1>1. AnswerSound(q.body) /\ Shapes /\ DOMAIN sp = SpFields
  <2>1. TabSound(b, q)
    BY DEF AppInv, TabsSound
  <2>2. QED
    BY <2>1 DEF AppInv, Shapes, TabSound, ConsumeAnswer, SpFields
<1>2. PICK i \in Idps, s \in log.started, a \in log.answers :
        /\ form.response.issuer = {i} /\ s.idp = i /\ a.idp = i
        /\ form.response.in_response_to = {s.request} /\ a.request = s.request
        /\ form.relay_state = {s.provider} /\ a.index = subject.index
        /\ [idp |-> i, user |-> subject.user, index |-> subject.index] \in log.typed
  BY <1>1 DEF AnswerSound
<1>3. PICK r \in Sp!handle_acs(sp, form, subject, clock) :
        /\ AtSp(b, r, {q}, again)
        /\ count' = Resent(again)
        /\ log' = Recorded(r.reply, {})
  BY DEF ConsumeAnswer
<1> HIDE DEF form, subject
<1>4. /\ DOMAIN r.app = SpFields
      /\ DOMAIN r.app.trackers \subseteq DOMAIN sp.trackers
      /\ r.reply.go = {} /\ r.reply.page.kind # "signed-out"
      /\ r.reply.page.kind = "dashboard" =>
           /\ s.request \in DOMAIN sp.trackers /\ s.request \notin DOMAIN r.app.trackers
           /\ r.reply.page.about = {s.request}
           /\ LET session == (CHOOSE c \in r.reply.cookie.to : TRUE).payload IN
              /\ session.idp = i /\ session.provider = s.provider
              /\ session.user = subject.user /\ session.index = subject.index
  <2>1. AcsReply(sp, subject, i, s.request, s.provider, r)
    BY <1>1, <1>2, <1>3, SpHandleAcs
  <2>2. QED
    BY <2>1 DEF AcsReply
<1>5. /\ sp' = r.app /\ idp' = idp /\ DOMAIN idp' = Idps
      /\ \A j \in Idps : DOMAIN idp'[j] = {"sps", "pending", "logouts"}
      /\ DOMAIN sp' = {"providers", "trackers", "logouts", "replay"}
      /\ Back(b, SpEntity, r.reply, {q}, again)
  BY <1>1, <1>3, <1>4, AtSpFacts
<1>6. Carries(b, SpEntity, r.reply)
  BY <1>1, <1>5, BackFacts DEF Sites
<1>7. /\ Notes(log', r.reply, {})
      /\ log'.started = log.started /\ log'.typed = log.typed /\ log'.forced = log.forced
      /\ log'.opened = log.opened
  BY <1>1, <1>3, RecordedFacts
<1>8. LoginsKept /\ log'.answers = log.answers
  BY <1>1, <1>3, <1>4, <1>7, CountFacts DEF Notes
<1>9. Grown
  BY <1>7 DEF Grown, Notes
<1>10. SameDemands
  <2>1. \A c \in Browsers, j \in Idps : cookie'[c][j] = cookie[c][j]
    BY <1>6, ExampleParties DEF Carries, Sites
  <2>2. QED
    BY <1>7, <2>1 DEF SameDemands
<1>11. CASE r.reply.page.kind # "dashboard"
  <2>1. log'.granted = log.granted
    BY <1>7, <1>11 DEF Notes
  <2>2. Still
    BY <1>4, <1>5, <1>7, <1>8, <1>10, <2>1 DEF Still, Notes, LoginsKept
  <2>3. Shapes'
    BY <1>1, <1>5, <1>6, <1>7, <1>8, <2>1 DEF Shapes, Carries, LoginsKept, Notes
  <2>4. PendingSound' /\ TabsSound' /\ SignedOutMeansPerformed'
    BY <1>4, <1>5, <1>6, <1>7, <1>9, <1>10, PendingKept, TabsKept, SaidKept
       DEF AppInv, Carries, Notes
  <2>5. QED
    BY <2>2, <2>3, <2>4, StillKept DEF AppInv
<1>12. CASE r.reply.page.kind = "dashboard"
  <2> DEFINE grant == GrantRecord(r.reply)
  <2>1. log'.granted = Append(log.granted, grant)
    <3>1. log'.granted = log.granted \o <<grant>>
      BY <1>7, <1>12 DEF Notes
    <3>2. log.granted \in Seq(Grants)
      BY <1>1 DEF Shapes
    <3> HIDE DEF grant
    <3>3. QED
      BY <3>1, <3>2
  <2>2. /\ grant.request = s.request /\ grant.idp = i /\ grant.provider = s.provider
        /\ grant.user = subject.user /\ grant.index = subject.index
    BY <1>4, <1>12 DEF GrantRecord
  <2>3. grant \in Grants
    <3>1. s \in Starts /\ [idp |-> i, user |-> subject.user, index |-> subject.index] \in Typings
      BY <1>1, <1>2 DEF Shapes
    <3>2. /\ grant.request \in Nat /\ grant.idp \in ProviderIdps /\ grant.provider \in Slugs
          /\ grant.index \in Nat /\ grant.user \in Names
      BY <1>2, <2>2, <3>1 DEF Starts, Typings
    <3>3. grant = [request |-> grant.request, idp |-> grant.idp, provider |-> grant.provider,
                   index |-> grant.index, user |-> grant.user]
      BY DEF GrantRecord
    <3> HIDE DEF grant
    <3>4. QED
      BY <3>2, <3>3 DEF Grants
  <2> HIDE DEF grant
  <2>4. /\ log'.granted \in Seq(Grants) /\ log.granted \in Seq(Grants)
        /\ Len(log.granted) \in Nat
        /\ DOMAIN log'.granted = DOMAIN log.granted \cup {Len(log.granted) + 1}
        /\ \A k \in DOMAIN log.granted : log'.granted[k] = log.granted[k]
        /\ log'.granted[Len(log.granted) + 1] = grant
    BY <1>1, <2>1, <2>3 DEF Shapes
  <2>5. Shapes'
    BY <1>1, <1>5, <1>6, <1>7, <1>8, <2>4 DEF Shapes, Carries, LoginsKept, Notes
  <2>6. SessionEarned'
    <3>1. /\ [request |-> grant.request, idp |-> grant.idp, provider |-> grant.provider]
               \in log'.started
          /\ [idp |-> grant.idp, user |-> grant.user, index |-> grant.index] \in log'.typed
          /\ \E e \in log'.answers :
               e.idp = grant.idp /\ e.request = grant.request /\ e.index = grant.index
      <4>1. s = [request |-> s.request, idp |-> s.idp, provider |-> s.provider]
        BY <1>1 DEF Shapes, Starts
      <4>2. QED
        BY <1>2, <1>7, <1>8, <2>2, <4>1
    <3>2. \A k \in DOMAIN log.granted : log.granted[k].request # grant.request
      BY <1>4, <1>12, <2>2 DEF AppInv, GrantsFinal
    <3>3. \A k \in DOMAIN log'.granted :
            \/ k \in DOMAIN log.granted /\ log'.granted[k] = log.granted[k]
            \/ k = Len(log.granted) + 1 /\ log'.granted[k] = grant
      BY <2>4
    <3>4. \A k \in DOMAIN log'.granted :
            LET g == log'.granted[k] IN
            /\ [request |-> g.request, idp |-> g.idp, provider |-> g.provider] \in log'.started
            /\ [idp |-> g.idp, user |-> g.user, index |-> g.index] \in log'.typed
            /\ \E e \in log'.answers :
                 e.idp = g.idp /\ e.request = g.request /\ e.index = g.index
      BY <1>7, <1>8, <3>1, <3>3 DEF AppInv, SessionEarned
    <3>5. \A j, k \in DOMAIN log'.granted :
            log'.granted[j].request = log'.granted[k].request => j = k
      BY <3>2, <3>3 DEF AppInv, SessionEarned
    <3>6. QED
      BY <3>4, <3>5 DEF SessionEarned
  <2>7. GrantsFinal'
    BY <1>4, <1>5, <1>12, <2>2, <2>4 DEF AppInv, GrantsFinal
  <2>8. CookiesEarned' /\ PendingSound' /\ TabsSound' /\ SignedOutMeansPerformed'
    <3>1. CookiesEarned'
      BY <1>9, <1>10 DEF AppInv, CookiesEarned, Grown, SameDemands
    <3>2. QED
      BY <1>4, <1>5, <1>6, <1>7, <1>9, <1>10, <3>1, PendingKept, TabsKept, SaidKept
         DEF AppInv, Carries, Notes
  <2>9. ForcedSound' /\ AnswersSeen' /\ PromptHonoured' /\ StartsCounted'
    BY <1>1, <1>7, <1>8, <2>5, ForcedKept
       DEF AppInv, AnswersSeen, Seen, PromptHonoured, StartsCounted, LoginsKept
  <2>10. QED
    BY <2>5, <2>6, <2>7, <2>8, <2>9 DEF AppInv
<1>13. QED
  BY <1>11, <1>12

(* A password is typed. The cookie it earns is younger than every demand.  *)
LEMMA TypePasswordKeeps ==
  ASSUME AppInv, NEW b \in Browsers, NEW i \in Idps, NEW request, NEW name, NEW password,
         TypePassword(b, i, request, name, password)
  PROVE  AppInv'
<1> DEFINE forms == {g \in tabs[b] : g.to = i /\ g.path = "/saml/sso/login"
                                     /\ {g.body.request_id} = request}
           index == Cardinality(log.typed) + 1
           form == [request_id |-> request, username |-> name, password |-> password]
           replies == Idp!handle_login(i, idp[i], form, clock, index)
           r == CHOOSE r \in replies : TRUE
           users == {u \in Users : name \in {u.id, u.email} /\ u.password = password}
           right == {[idp |-> i, user |-> u.id, index |-> index] : u \in users}
           wrong == {[idp |-> i, user |-> "nobody", index |-> index] :
                       x \in {y \in {1} : right = {}}}
<1>1. Shapes /\ IsFiniteSet(log.typed) /\ index \in Nat /\ DOMAIN idp[i] = IdpFields
  BY FS_CardinalityType DEF AppInv, Shapes, IdpFields
<1>2. /\ forms # {} \/ request = {}
      /\ r.reply.page.kind = "onward" /\ AtIdp(b, i, r, forms, FALSE)
      /\ count' = IF request = {} THEN [count EXCEPT !.landings = @ + 1] ELSE count
      /\ log' = [Recorded(r.reply, {}) EXCEPT !.typed = @ \cup right \cup wrong]
  BY DEF TypePassword
<1>3. r \in replies
  <2>1. replies # {}
    BY DEF Idp!handle_login
  <2> HIDE DEF replies
  <2>2. QED
    BY <2>1
<1> HIDE DEF r
<1>4. /\ r.app = idp[i] /\ Plain(r.reply) /\ r.reply.cookie.change
      /\ \E u \in users : \A c \in r.reply.cookie.to : c.payload.user = u.id
                                                       /\ c.payload.index = index
      /\ r.reply.go = {Idp!Request(i, "/saml/sso/continue", [request_id |-> id]) : id \in request}
  <2>1. TypedReply(i, idp[i], request, name, password, index, r)
    BY <1>3, HandleLogin
  <2>2. QED
    BY <1>2, <2>1 DEF TypedReply
<1> HIDE DEF replies, forms, users, right, wrong
<1>5. /\ DOMAIN idp' = Idps /\ sp' = sp
      /\ \A j \in Idps : idp'[j].pending = idp[j].pending
      /\ \A j \in Idps : DOMAIN idp'[j] = {"sps", "pending", "logouts"}
      /\ DOMAIN sp' = {"providers", "trackers", "logouts", "replay"}
      /\ Back(b, i, r.reply, forms, FALSE)
  <2>1. /\ DOMAIN idp' = Idps /\ idp'[i] = r.app /\ sp' = sp
        /\ \A j \in Idps \ {i} : idp'[j] = idp[j]
        /\ \A j \in Idps : DOMAIN idp'[j] = {"sps", "pending", "logouts"}
        /\ DOMAIN sp' = {"providers", "trackers", "logouts", "replay"}
        /\ Back(b, i, r.reply, forms, FALSE)
    <3>1. DOMAIN r.app = IdpFields /\ AtIdp(b, i, r, forms, FALSE)
      BY <1>1, <1>2, <1>4
    <3>2. QED
      BY <1>1, <3>1, AtIdpFacts
  <2>2. QED
    BY <1>4, <2>1
<1>6. Carries(b, i, r.reply) /\ cookie'[b][i] = r.reply.cookie.to
  <2>1. Shapes /\ i \in Sites /\ r.reply.cookie.change /\ Back(b, i, r.reply, forms, FALSE)
    BY <1>1, <1>4, <1>5 DEF Sites
  <2>2. QED
    BY <2>1, BackFacts
<1>7. /\ Notes(log', r.reply, {})
      /\ log'.started = log.started /\ log'.forced = log.forced
      /\ log'.opened = log.opened
      /\ log'.typed = log.typed \cup right \cup wrong
  <2> DEFINE after == Recorded(r.reply, {})
  <2>1. /\ Notes(after, r.reply, {})
        /\ after.started = log.started /\ after.typed = log.typed /\ after.forced = log.forced
        /\ after.opened = log.opened
    BY <1>1, RecordedFacts
  <2>2. DOMAIN after = LogFields
    BY <2>1 DEF Notes
  <2> HIDE DEF after, index
  <2>3. log' = [after EXCEPT !.typed = after.typed \cup right \cup wrong]
    BY <1>2 DEF after
  <2>4. /\ DOMAIN log' = DOMAIN after /\ log'.forced = after.forced
        /\ log'.started = after.started
        /\ log'.answers = after.answers /\ log'.granted = after.granted
        /\ log'.ended = after.ended /\ log'.said = after.said
        /\ log'.opened = after.opened
        /\ log'.typed = after.typed \cup right \cup wrong
    BY <2>2, <2>3 DEF LogFields
  <2>5. QED
    BY <2>1, <2>4 DEF Notes
<1>8. LoginsKept
  BY <1>1, <1>2, CountFacts
<1>9. log'.granted = log.granted /\ log'.answers = log.answers
  <2>1. \A g \in r.reply.go : g.path # "/saml/acs"
    BY <1>4 DEF Idp!Request
  <2>2. QED
    BY <1>4, <1>7, <2>1 DEF Notes, Plain
<1>10. Grown
  BY <1>7 DEF Grown, Notes
<1>11. right \cup wrong \subseteq Typings /\ IsFiniteSet(right \cup wrong)
  <2>1. right \subseteq Typings /\ wrong \subseteq Typings
    BY <1>1 DEF right, wrong, users, Typings, Names
  <2>2. IsFiniteSet(users)
    BY FS_Subset, ExampleParties DEF users
  <2>3. IsFiniteSet(right)
    <3> DEFINE f == [u \in users |-> [idp |-> i, user |-> u.id, index |-> index]]
    <3>1. f \in Surjection(users, right)
      BY DEF right, Surjection
    <3> HIDE DEF f
    <3>2. QED
      BY <2>2, <3>1, FS_Surjection
  <2>4. IsFiniteSet(wrong)
    <3>1. wrong \subseteq {[idp |-> i, user |-> "nobody", index |-> index]}
      BY DEF wrong
    <3> DEFINE one == [idp |-> i, user |-> "nobody", index |-> index]
    <3> HIDE DEF one
    <3>2. IsFiniteSet({one}) /\ wrong \in SUBSET {one}
      BY <3>1, FS_Singleton DEF one
    <3>3. QED
      BY <3>2, FS_Subset
  <2>5. QED
    BY <2>1, <2>3, <2>4, FS_Union
<1>12. Shapes'
  <2>1. log'.typed \subseteq Typings /\ IsFiniteSet(log'.typed)
    <3>1. log'.typed = log.typed \cup (right \cup wrong)
      BY <1>7
    <3>2. IsFiniteSet(log.typed \cup (right \cup wrong))
      BY <1>1, <1>11, FS_Union
    <3>3. QED
      BY <1>1, <1>11, <3>1, <3>2 DEF Shapes
  <2>2. QED
    BY <1>1, <1>5, <1>6, <1>7, <1>8, <1>9, <2>1 DEF Shapes, Carries, LoginsKept, Notes
<1>13. \A c \in Browsers, j \in Idps :
         cookie'[c][j] = cookie[c][j] \/ (c = b /\ j = i)
  BY <1>6 DEF Carries, Sites
<1>14. \A f \in log'.forced : index > f.index
  <2>1. \A f \in log.forced : f.index \in Nat /\ f.index <= Cardinality(log.typed)
    BY DEF AppInv, ForcedSound
  <2>2. Cardinality(log.typed) \in Nat
    BY <1>1, FS_CardinalityType
  <2>3. QED
    BY <1>7, <2>1, <2>2
<1>15. CookiesEarned'
  <2>1. \A c \in cookie'[b][i] :
          [idp |-> i, user |-> c.payload.user, index |-> c.payload.index] \in log'.typed
    <3>1. PICK u \in users : \A c \in r.reply.cookie.to : c.payload.user = u.id
                                                          /\ c.payload.index = index
      BY <1>4
    <3>2. [idp |-> i, user |-> u.id, index |-> index] \in right
      BY DEF right
    <3> HIDE DEF index
    <3>3. QED
      BY <1>6, <1>7, <3>1, <3>2
  <2>2. QED
    BY <1>10, <1>13, <2>1 DEF AppInv, CookiesEarned, Grown
<1>16. PendingSound'
  BY <1>5, <1>10, PendingKept DEF AppInv
<1>17. ASSUME NEW c \in Browsers, NEW g, g.to = i, c = b
       PROVE  FreshFor(c, g)'
  <2>1. \A e \in cookie'[b][i] : e.payload.index = index
    BY <1>4, <1>6
  <2> HIDE DEF index
  <2>2. QED
    BY <1>14, <1>17, <2>1 DEF FreshFor
<1>18. TabsSound'
  <2> SUFFICES ASSUME NEW c \in Browsers, NEW g \in tabs'[c]
               PROVE  TabSound(c, g)'
    BY DEF TabsSound
  <2>1. CASE g \in tabs[c]
    <3>1. TabSound(c, g)
      BY <2>1 DEF AppInv, TabsSound
    <3>2. g.path = "/saml/sso/continue" => FreshFor(c, g)'
      <4>1. CASE c = b /\ g.to = i
        BY <1>17, <4>1
      <4>2. CASE ~(c = b /\ g.to = i)
        BY <1>7, <1>13, <3>1, <4>2 DEF TabSound, FreshFor
      <4>3. QED
        BY <4>1, <4>2
    <3>3. QED
      BY <1>10, <3>1, <3>2, TabKept
  <2>2. CASE c = b /\ g \in r.reply.go
    <3>1. PICK id \in request : g = Idp!Request(i, "/saml/sso/continue", [request_id |-> id])
      BY <1>4, <2>2
    <3>2. g.to = i /\ g.path = "/saml/sso/continue" /\ g.body.request_id = id
      BY <3>1 DEF Idp!Request
    <3>3. Seen(id)'
      <4>1. PICK h \in tabs[b] : h.path = "/saml/sso/login" /\ {h.body.request_id} = request
        BY <1>2, <3>1 DEF forms
      <4>2. TabSound(b, h) /\ h.body.request_id = id
        BY <3>1, <4>1 DEF AppInv, TabsSound
      <4>3. QED
        BY <1>10, <4>1, <4>2 DEF TabSound, Seen, Grown
    <3>4. QED
      BY <1>17, <2>2, <3>2, <3>3 DEF TabSound
  <2>3. QED
    BY <1>6, <2>1, <2>2 DEF Carries
<1>19. ForcedSound' /\ AnswersSeen' /\ PromptHonoured'
  BY <1>1, <1>7, <1>9, <1>12, ForcedKept DEF AppInv, AnswersSeen, Seen, PromptHonoured
<1>20. StartsCounted' /\ GrantsFinal' /\ SessionEarned'
  BY <1>5, <1>7, <1>8, <1>9, <1>10, EarnedKept DEF AppInv, StartsCounted, GrantsFinal, LoginsKept
<1>21. SignedOutMeansPerformed'
  BY <1>4, <1>7, <1>10, SaidKept DEF AppInv, Notes, Plain
<1>22. QED
  BY <1>12, <1>15, <1>16, <1>18, <1>19, <1>20, <1>21 DEF AppInv

-----------------------------------------------------------------------------
(* Nothing is forgotten. Where every SP asks for what the example IdP      *)
(* issues, an IdP can answer all it stores, so that a pending request is   *)
(* not lost when finalize_continue takes it.                               *)

FiniteStores ==
  /\ \A i \in Idps : IsFiniteSet(DOMAIN idp[i].pending) /\ IsFiniteSet(DOMAIN idp[i].logouts)
  /\ IsFiniteSet(DOMAIN sp.trackers) /\ IsFiniteSet(DOMAIN sp.logouts)

UserIds == {u.id : u \in Users}

CookiesOfUsers == \A b \in Browsers, i \in Idps : \A c \in cookie[b][i] : c.payload.user \in UserIds

TabServable(q) ==
  /\ q.path = "/saml/sso" => Grantable(q.body.xml)
  /\ q.path = "/saml/slo" => q.body.message.kind \in {"LogoutRequest", "LogoutResponse"}

TabsServable == \A b \in Browsers : \A q \in tabs[b] : TabServable(q)

(* Nothing stands in the way of an answer to the SP d.                     *)
Issuable(known, d) ==
  /\ known.sp = d.entity /\ known.enc = d.enc /\ known.acs.binding # "HttpArtifact"
  /\ Grantable(known)

PendingServable ==
  \A i \in Idps : \A id \in DOMAIN idp[i].pending :
    LET v == idp[i].pending[id].value IN
    \E d \in Registry[i] : v.sp = d.entity /\ Issuable(v.parsed.validated, d)

StoresInv ==
  /\ clock \in Nat \ {0}
  /\ FiniteStores /\ CookiesOfUsers /\ TabsServable /\ PendingServable

(* What a step does to a store: it stays finite and keeps what it owes.    *)
StoreStep(before, after, max, stale_after, answered) ==
  IsFiniteSet(DOMAIN before) =>
    IsFiniteSet(DOMAIN after) /\ Kept(before, after, max, stale_after, answered)

LEMMA SameKept ==
  ASSUME NEW store, NEW max, NEW stale_after, NEW answered
  PROVE  StoreStep(store, store, max, stale_after, answered)
BY DEF StoreStep, Kept, Took

LEMMA TakeKept ==
  ASSUME NEW before, NEW after, NEW key, NEW max, NEW stale_after, NEW answered, key \in answered,
         DOMAIN after = DOMAIN before \ {key}
  PROVE  StoreStep(before, after, max, stale_after, answered)
<1>1. IsFiniteSet(DOMAIN before) => IsFiniteSet(DOMAIN after)
  BY FS_Subset
<1>2. QED
  BY <1>1 DEF StoreStep, Kept, Took

(* insert() drops what is stale, and one entry of a store that is full.    *)
LEMMA InsertKept ==
  ASSUME clock \in Nat, NEW before, NEW key, NEW value, NEW stale_after \in Nat \ {0},
         NEW max \in Nat, NEW answered,
         NEW s \in Store!Insert(before, key, value, clock, stale_after, max)
  PROVE  StoreStep(before, s, max, stale_after, answered)
<1> SUFFICES ASSUME IsFiniteSet(DOMAIN before)
             PROVE  IsFiniteSet(DOMAIN s) /\ Kept(before, s, max, stale_after, answered)
  BY DEF StoreStep
<1> DEFINE old == {k \in DOMAIN before : clock - before[k].at >= stale_after}
           kept == Store!Without(before, old)
<1>1. DOMAIN kept = DOMAIN before \ old
  BY DEF Store!Without
<1>2. IsFiniteSet(DOMAIN kept) /\ Cardinality(DOMAIN kept) <= Cardinality(DOMAIN before)
      /\ Cardinality(DOMAIN kept) \in Nat /\ Cardinality(DOMAIN before) \in Nat
  BY <1>1, FS_Subset, FS_CardinalityType
<1>3. PICK room \in Store!MakeRoom(kept, max) :
        s = Store!Put(room, key, [at |-> clock, value |-> value])
  BY DEF Store!Insert, Store!Retain
<1>4. DOMAIN s = DOMAIN room \cup {key}
  BY <1>3 DEF Store!Put
<1> HIDE DEF kept
<1>5. /\ DOMAIN room \subseteq DOMAIN kept
      /\ \/ room = kept
         \/ /\ ~(Cardinality(DOMAIN kept) < max)
            /\ \E k \in Store!Oldest(kept) : DOMAIN room = DOMAIN kept \ {k}
  <2>1. \A k : DOMAIN Store!Without(kept, {k}) = DOMAIN kept \ {k}
    BY DEF Store!Without
  <2>2. room \in IF Cardinality(DOMAIN kept) < max THEN {kept}
                 ELSE {Store!Without(kept, {k}) : k \in Store!Oldest(kept)}
    BY <1>3, Zenon DEF Store!MakeRoom, Store!Cardinality, Cardinality
  <2>3. QED
    BY <2>1, <2>2
<1>6. IsFiniteSet(DOMAIN s)
  <2>1. DOMAIN room \subseteq DOMAIN kept
    BY <1>5
  <2>2. IsFiniteSet(DOMAIN room)
    BY <1>2, <2>1, FS_Subset
  <2>3. QED
    BY <1>4, <2>2, FS_AddElement
<1>7. CASE room = kept
  BY <1>1, <1>4, <1>6, <1>7 DEF Kept, Took
<1>8. ASSUME ~(Cardinality(DOMAIN kept) < max), NEW gone \in Store!Oldest(kept),
             DOMAIN room = DOMAIN kept \ {gone}
      PROVE  Kept(before, s, max, stale_after, answered)
  <2>1. Cardinality(DOMAIN before) >= max
    BY <1>2, <1>8
  <2>2. \A j \in DOMAIN kept : before[gone].at <= before[j].at
    BY <1>8 DEF kept, Store!Oldest, Store!Without
  <2>3. ASSUME NEW j \in DOMAIN before \cap DOMAIN s, s[j] = before[j]
        PROVE  j \in DOMAIN kept
    <3>1. CASE j = key
      <4>1. before[j].at = clock
        BY <1>3, <2>3, <3>1 DEF Store!Put
      <4>2. j \notin old
        BY <4>1
      <4>3. QED
        BY <1>1, <4>2
    <3>2. QED
      BY <1>4, <1>5, <3>1
  <2>4. \A k \in Took(before, s) : k \in old \/ k = gone
    BY <1>1, <1>4, <1>8 DEF Took
  <2> HIDE DEF old
  <2>5. \A k \in old : clock - before[k].at >= stale_after
    BY DEF old
  <2>6. QED
    BY <2>1, <2>2, <2>3, <2>4, <2>5 DEF Kept
<1>9. QED
  BY <1>5, <1>6, <1>7, <1>8

(* What NothingForgotten says of a step.                                   *)
StoresKept ==
  /\ \A i \in Idps :
       /\ Kept(idp[i].pending, idp'[i].pending, MAX_PENDING, PENDING_STALE_AFTER,
               {a.request : a \in log'.answers})
       /\ Kept(idp[i].logouts, idp'[i].logouts, MAX_TRACKERS, TRACKER_STALE_AFTER, log.ended)
  /\ Kept(sp.trackers, sp'.trackers, MAX_TRACKERS, TRACKER_STALE_AFTER,
          {a.request : a \in log.answers})
  /\ Kept(sp.logouts, sp'.logouts, MAX_TRACKERS, TRACKER_STALE_AFTER, log.ended)

IdpStores(i, app, answered) ==
  /\ StoreStep(idp[i].pending, app.pending, MAX_PENDING, PENDING_STALE_AFTER, answered)
  /\ StoreStep(idp[i].logouts, app.logouts, MAX_TRACKERS, TRACKER_STALE_AFTER, log.ended)

SpStores(app) ==
  /\ StoreStep(sp.trackers, app.trackers, MAX_TRACKERS, TRACKER_STALE_AFTER,
               {a.request : a \in log.answers})
  /\ StoreStep(sp.logouts, app.logouts, MAX_TRACKERS, TRACKER_STALE_AFTER, log.ended)

LEMMA StoresFollow ==
  ASSUME FiniteStores, SpStores(sp'),
         \A i \in Idps : IdpStores(i, idp'[i], {a.request : a \in log'.answers})
  PROVE  FiniteStores' /\ StoresKept
BY DEF FiniteStores, SpStores, IdpStores, StoreStep, StoresKept

LEMMA IdpSame ==
  ASSUME NEW i, NEW app, NEW answered,
         app.pending = idp[i].pending, app.logouts = idp[i].logouts
  PROVE  IdpStores(i, app, answered)
BY SameKept DEF IdpStores

LEMMA SpSame ==
  ASSUME NEW app, app.trackers = sp.trackers, app.logouts = sp.logouts
  PROVE  SpStores(app)
BY SameKept DEF SpStores

(* What a reply brings can be served, and its cookie stands for a user.    *)
ReplyServable(reply, site) ==
  /\ \A g \in reply.go : TabServable(g)
  /\ reply.cookie.change /\ site \in Idps =>
       \A c \in reply.cookie.to : c.payload.user \in UserIds

(* What an IdP keeps of a request can be answered.                         *)
EntryServable(i, v) ==
  \E d \in Registry[i] : v.sp = d.entity /\ Issuable(v.parsed.validated, d)

LEMMA CarriedServable ==
  ASSUME Shapes, CookiesOfUsers, TabsServable, NEW b \in Browsers, NEW site \in Sites,
         NEW reply, NEW q, NEW again \in BOOLEAN, Back(b, site, reply, q, again),
         ReplyServable(reply, site)
  PROVE  CookiesOfUsers' /\ TabsServable'
<1>1. Carries(b, site, reply)
  BY BackFacts
<1>2. TabsServable'
  BY <1>1 DEF Carries, TabsServable, ReplyServable, TabServable
<1>3. CookiesOfUsers'
  BY <1>1 DEF Carries, CookiesOfUsers, ReplyServable, Sites, UserIds
<1>4. QED
  BY <1>2, <1>3

(* A step of an IdP, and of the SP.                                        *)
LEMMA StoresAtIdp ==
  ASSUME AppInv, StoresInv, NEW b \in Browsers, NEW i \in Idps, NEW r, NEW q,
         NEW again \in BOOLEAN, AtIdp(b, i, r, q, again), DOMAIN r.app = IdpFields,
         ReplyServable(r.reply, i), IdpStores(i, r.app, {a.request : a \in log'.answers}),
         \A id \in DOMAIN r.app.pending :
           \/ id \in DOMAIN idp[i].pending /\ r.app.pending[id] = idp[i].pending[id]
           \/ EntryServable(i, r.app.pending[id].value)
  PROVE  StoresInv' /\ StoresKept
<1>1. Shapes /\ i \in Sites
  BY DEF AppInv, Sites
<1>2. /\ idp'[i] = r.app /\ sp' = sp /\ \A j \in Idps \ {i} : idp'[j] = idp[j]
      /\ Back(b, i, r.reply, q, again)
  BY <1>1, AtIdpFacts
<1>3. clock' = clock
  BY DEF AtIdp
<1>4. FiniteStores' /\ StoresKept
  <2>1. SpStores(sp')
    BY <1>2, SpSame
  <2>2. ASSUME NEW j \in Idps
        PROVE  IdpStores(j, idp'[j], {a.request : a \in log'.answers})
    BY <1>2, IdpSame
  <2>3. QED
    BY <2>1, <2>2, StoresFollow DEF StoresInv
<1>5. CookiesOfUsers' /\ TabsServable'
  BY <1>1, <1>2, CarriedServable DEF StoresInv
<1>6. PendingServable'
  BY <1>2 DEF StoresInv, PendingServable, EntryServable
<1>7. QED
  BY <1>3, <1>4, <1>5, <1>6 DEF StoresInv

LEMMA StoresAtSp ==
  ASSUME AppInv, StoresInv, NEW b \in Browsers, NEW r, NEW q, NEW again \in BOOLEAN,
         AtSp(b, r, q, again), DOMAIN r.app = SpFields, SpStores(r.app),
         ReplyServable(r.reply, SpEntity)
  PROVE  StoresInv' /\ StoresKept
<1>1. Shapes /\ SpEntity \in Sites
  BY DEF AppInv, Sites
<1>2. sp' = r.app /\ idp' = idp /\ Back(b, SpEntity, r.reply, q, again)
  BY <1>1, AtSpFacts
<1>3. clock' = clock
  BY DEF AtSp
<1>4. FiniteStores' /\ StoresKept
  <2>1. \A j \in Idps : IdpStores(j, idp'[j], {a.request : a \in log'.answers})
    BY <1>2, IdpSame
  <2>2. QED
    BY <1>2, <2>1, StoresFollow DEF StoresInv
<1>5. CookiesOfUsers' /\ TabsServable'
  BY <1>1, <1>2, CarriedServable DEF StoresInv
<1>6. PendingServable'
  BY <1>2 DEF StoresInv, PendingServable
<1>7. QED
  BY <1>3, <1>4, <1>5, <1>6 DEF StoresInv

-----------------------------------------------------------------------------
(* What the handlers do to the stores.                                     *)

Answered(reply, id) ==
  \E g \in reply.go : g.path = "/saml/acs" /\ g.body.form.response.in_response_to = {id}

(* A request that can be answered is answered.                             *)
LEMMA FinalizeLoginAnswers ==
  ASSUME NEW i, NEW d, NEW parsed, NEW session, NEW now, NEW aid, now \in Nat \ {0},
         session.user \in UserIds, Issuable(parsed.validated, d)
  PROVE  Answered(Idp!finalize_login(i, d, parsed, session, now, aid), parsed.validated.id)
<1> DEFINE issue == Idp!LoginResponse(d, session, now, aid)
           role == Idp!IdpRole(i)
           known == parsed.validated
           form == Idp!issue_response(role, parsed, issue)
           body == [form |-> form, subject |-> session]
           reply == Idp!finalize_login(i, d, parsed, session, now, aid)
<1>1. /\ issue.sp = d /\ issue.name_id.format = "EmailAddress" /\ issue.now = now
      /\ issue.class_ref = "PasswordProtectedTransport"
      /\ issue.force = {TRUE} => d.enc # {}
      /\ role.supported = {"EmailAddress", "Persistent", "Unspecified"}
      /\ role.default_format = "EmailAddress"
  BY DEF Idp!LoginResponse, Idp!IdpRole, Idp!resolve_force_encrypt
<1>2. form.response.in_response_to = {known.id}
  BY DEF Idp!issue_response, Idp!build_response
<1>3. Idp!IssueVerdict(role, parsed, issue) = "Ok"
  <2> HIDE DEF issue, role
  <2>1. /\ Idp!Reject(known.acs.binding = "HttpArtifact", "ArtifactTransactionRequired") = "Ok"
        /\ Idp!ensure_request_belongs_to_sp(parsed, issue.sp) = "Ok"
        /\ Idp!ensure_sp_key_material_matches(role, parsed, issue) = "Ok"
    BY <1>1 DEF Issuable, Idp!Reject, Idp!ensure_request_belongs_to_sp,
       Idp!ensure_sp_key_material_matches
  <2>2. Idp!ensure_authn_context_satisfies_request(parsed, issue) = "Ok"
    BY <1>1 DEF Issuable, Grantable, Idp!Reject, Idp!ensure_authn_context_satisfies_request
  <2>3. Idp!NameIdPolicy(role, known.format, issue) = "Ok"
    <3>1. known.format \subseteq {"EmailAddress"}
      BY DEF Issuable, Grantable
    <3>2. /\ ~(~(known.format \subseteq role.supported))
          /\ ~(IF known.format = {} THEN issue.name_id.format # role.default_format
                                    ELSE issue.name_id.format \notin known.format)
          /\ issue.name_id.format # "Persistent"
      BY <1>1, <3>1
    <3>3. QED
      BY <3>2 DEF Idp!NameIdPolicy, Idp!Reject, Idp!&&
  <2>4. Idp!AssertionCheck(issue) = "Ok"
    <3>1. ~(issue.now < 1)
      BY <1>1
    <3>2. ~(issue.force = {TRUE} /\ issue.sp.enc = {})
      BY <1>1, Zenon
    <3>3. Idp!Minute = 1
      BY DEF Idp!Minute
    <3>4. QED
      BY <3>1, <3>2, <3>3 DEF Idp!AssertionCheck, Idp!Reject, Idp!&&
  <2>5. QED
    BY <2>1, <2>2, <2>3, <2>4 DEF Idp!IssueVerdict, Idp!&&
<1>4. reply = Idp!Onward(Idp!Request(d.entity, "/saml/acs", body), Idp!KeepCookie)
  <2>1. ~(\A u \in Users : u.id # session.user)
    BY DEF UserIds
  <2>2. QED
    BY <1>3, <2>1 DEF Idp!finalize_login
<1> HIDE DEF form
<1>5. LET g == Idp!Request(d.entity, "/saml/acs", body) IN g.path = "/saml/acs" /\ g.body.form = form
  BY DEF Idp!Request
<1>6. reply.go = {Idp!Request(d.entity, "/saml/acs", body)}
  BY <1>4 DEF Idp!Onward
<1> HIDE DEF reply
<1>7. Answered(reply, parsed.validated.id)
  BY <1>2, <1>5, <1>6 DEF Answered
<1>8. QED
  BY <1>7 DEF reply

(* The endpoint a request is answered at is one of the SP's own.           *)
LEMMA ResolvedAcs ==
  ASSUME NEW xml, NEW d
  PROVE  \A e \in Idp!ResolveAcs(xml, d) : \E n \in DOMAIN d.acs : e = d.acs[n]
BY DEF Idp!ResolveAcs, Idp!acs_endpoint_by_index, Idp!acs_endpoint_by_url, Idp!default_acs,
       Idp!FirstOf

(* A request that is not refused can be answered, if it asks for nothing   *)
(* special.                                                                *)
LEMMA AcceptedIssuable ==
  ASSUME Servable, NEW i \in Idps, NEW d \in Registry[i], NEW call,
         call.sp = d, Grantable(call.xml), Idp!RequestVerdict(Idp!IdpRole(i), call) = "Ok"
  PROVE  Issuable(Idp!consume_authn_request(call).validated, d)
<1> DEFINE resolved == Idp!ResolveAcs(call.xml, call.sp)
           known == Idp!consume_authn_request(call).validated
<1>1. resolved # {}
  <2>1. Idp!validate_authn_request(Idp!IdpRole(i), call) = "Ok"
    BY BothOk DEF Idp!RequestVerdict
  <2> DEFINE upTo(c) == Idp!&&(c, Idp!Reject(resolved = {}, "UnregisteredAcs"))
             binding == Idp!Reject(\E b \in call.xml.protocol_binding, e \in resolved : b # e.binding,
                                   "IllegalResponseBinding")
  <2>2. \E c : Idp!validate_authn_request(Idp!IdpRole(i), call) = Idp!&&(upTo(c), binding)
    BY Zenon DEF Idp!validate_authn_request
  <2> HIDE DEF binding
  <2>3. Idp!Reject(resolved = {}, "UnregisteredAcs") = "Ok"
    BY <2>1, <2>2, BothOk
  <2>4. QED
    BY <2>3 DEF Idp!Reject
<1>2. /\ known.sp = d.entity /\ known.enc = d.enc
      /\ known.acs = (CHOOSE e \in resolved : TRUE)
      /\ known.format = call.xml.format /\ known.requested = call.xml.requested
  BY DEF Idp!consume_authn_request, Idp!Provenance
<1> HIDE DEF known
<1>3. known.acs \in resolved
  BY <1>1, <1>2
<1>4. PICK n \in DOMAIN d.acs : known.acs = d.acs[n]
  BY <1>3, ResolvedAcs
<1> HIDE DEF resolved
<1>5. known.acs.binding # "HttpArtifact"
  BY <1>4 DEF Servable
<1>6. Issuable(known, d)
  BY <1>2, <1>5 DEF Issuable, Grantable
<1>7. QED
  BY <1>6 DEF known

(* The store of an IdP after an AuthnRequest.                              *)
SsoStored(i, app, q, r) ==
  \/ r.app.pending = app.pending
  \/ \E v : /\ r.app.pending \in Store!Insert(app.pending, q.xml.id, v, clock,
                                              PENDING_STALE_AFTER, MAX_PENDING)
            /\ EntryServable(i, v)

LEMMA SsoStores ==
  ASSUME Servable, NEW i \in Idps, NEW app, NEW q, NEW cookies, NEW aid,
         DOMAIN app = IdpFields, app.sps = Registry[i], Grantable(q.xml),
         NEW r \in Idp!handle_sso(i, app, q, cookies, clock, aid)
  PROVE  SsoStored(i, app, q, r)
<1> DEFINE found == Idp!sp_by_entity_id(app, q.xml.issuer)
           call(d) == [xml |-> q.xml, relay_state |-> q.relay_state, binding |-> q.binding,
                       detached |-> q.detached, sp |-> d, destination |-> i, now |-> clock]
           ok(d) == Idp!RequestVerdict(Idp!IdpRole(i), call(d)) = "Ok"
           parsed(d) == Idp!consume_authn_request(call(d))
           value(d) == [parsed |-> parsed(d), sp |-> d.entity]
<1>1. \/ r.app = app
      \/ /\ \E d \in found : ok(d)
         /\ \E d \in found : r.app \in Idp!insert_pending(app, q.xml.id, value(d), clock)
  <2> DEFINE session == Idp!decode(cookies, i, clock)
             reply(d) ==
               IF Idp!Prompt(session, q.xml)
                 THEN Idp!Onward(Idp!Request(i, "/saml/sso/login", [request_id |-> q.xml.id]),
                                 Idp!KeepCookie)
                 ELSE Idp!finalize_login(i, d, parsed(d), CHOOSE s \in session : TRUE, clock, aid)
  <2>1. \/ r = [app |-> app, reply |-> Idp!error_page({q.xml.id})]
        \/ /\ ~(\A d \in found : Idp!RequestVerdict(Idp!IdpRole(i), call(d)) # "Ok")
           /\ \E d \in found : \E a \in Idp!insert_pending(app, q.xml.id, value(d), clock) :
                r = [app |-> a, reply |-> reply(d)]
    BY Zenon DEF Idp!handle_sso
  <2> HIDE DEF found, value, reply
  <2>2. QED
    BY <2>1
<1>2. ASSUME NEW e \in found, ok(e),
             NEW d \in found, r.app \in Idp!insert_pending(app, q.xml.id, value(d), clock)
      PROVE  SsoStored(i, app, q, r)
  <2>1. d \in Registry[i] /\ e = d
    BY DEF Idp!sp_by_entity_id, Servable
  <2>2. Issuable(parsed(d).validated, d)
    <3>1. call(d).sp = d /\ call(d).xml = q.xml
      OBVIOUS
    <3> HIDE DEF call
    <3>2. QED
      BY <1>2, <2>1, <3>1, AcceptedIssuable
  <2> HIDE DEF parsed
  <2>3. EntryServable(i, value(d))
    BY <2>1, <2>2 DEF EntryServable
  <2> HIDE DEF value
  <2>4. r.app.pending \in Idp!Store!Insert(app.pending, q.xml.id, value(d), clock,
                                           PENDING_STALE_AFTER, MAX_PENDING)
    BY <1>2 DEF Idp!insert_pending, IdpFields
  <2>5. QED
    BY <2>3, <2>4, SameInsert DEF SsoStored
<1> HIDE DEF found, ok, value
<1>3. QED
  BY <1>1, <1>2 DEF SsoStored

(* What finalize_continue takes, it answers.                               *)
ContinueTakes(app, id, r) ==
  \/ r.app.pending = app.pending
  \/ /\ DOMAIN r.app.pending = DOMAIN app.pending \ {id} /\ id \in DOMAIN app.pending
     /\ Answered(r.reply, app.pending[id].value.parsed.validated.id)

LEMMA ContinueStores ==
  ASSUME Servable, NEW i \in Idps, NEW app, NEW id, NEW cookies, NEW aid,
         clock \in Nat \ {0}, DOMAIN app = IdpFields, app.sps = Registry[i],
         \A c \in cookies : c.payload.user \in UserIds,
         \A k \in DOMAIN app.pending : EntryServable(i, app.pending[k].value),
         NEW r \in Idp!finalize_continue(i, app, id, cookies, clock, aid)
  PROVE  ContinueTakes(app, id, r)
<1> DEFINE session == Idp!decode(cookies, i, clock)
           taken == Idp!take_pending(app, id)
           after == [app EXCEPT !.pending = taken.rest]
           sps == UNION {Idp!sp_by_entity_id(app, p.sp) : p \in taken.found}
           s0 == CHOOSE s \in session : TRUE
           answer(p) == Idp!finalize_login(i, CHOOSE d \in sps : TRUE, p.parsed, s0, clock, aid)
<1>1. \/ r.app = app
      \/ /\ session # {}
         /\ \E p \in taken.found :
              r = [app |-> after, reply |-> IF sps = {} THEN Idp!error_page({id}) ELSE answer(p)]
  <2> DEFINE prompt == Idp!Onward(Idp!Request(i, "/saml/sso/login", [request_id |-> id]),
                                  Idp!KeepCookie)
  <2>1. \/ r = [app |-> app, reply |-> prompt]
        \/ r = [app |-> app, reply |-> Idp!Page("gone", {id})]
        \/ /\ session # {}
           /\ \E p \in taken.found :
                r = [app |-> after, reply |-> IF sps = {} THEN Idp!error_page({id}) ELSE answer(p)]
    BY DEF Idp!finalize_continue
  <2> HIDE DEF session, taken, after, sps, answer, prompt
  <2>2. ASSUME NEW e, r = [app |-> app, reply |-> e]
        PROVE  r.app = app
    BY <2>2
  <2>3. QED
    BY <2>1, <2>2, Zenon
<1>2. ASSUME session # {}, NEW p \in taken.found,
             r = [app |-> after, reply |-> IF sps = {} THEN Idp!error_page({id}) ELSE answer(p)]
      PROVE  ContinueTakes(app, id, r)
  <2>1. /\ DOMAIN taken.rest = DOMAIN app.pending \ {id}
        /\ id \in DOMAIN app.pending /\ taken.found = {app.pending[id].value}
    BY <1>2, TakeFacts, SameTake DEF Idp!take_pending
  <2>2. s0.user \in UserIds
    <3>1. s0 \in session
      BY <1>2
    <3>2. s0 \in Payloads(cookies)
      BY <3>1, Decoded
    <3> HIDE DEF s0
    <3>3. QED
      BY <3>2 DEF Payloads
  <2>10. after.pending = taken.rest
    BY DEF IdpFields
  <2> HIDE DEF s0, session, taken, after
  <2>3. p = app.pending[id].value
    BY <1>2, <2>1
  <2>4. PICK d \in Registry[i] : p.sp = d.entity /\ Issuable(p.parsed.validated, d)
    BY <2>1, <2>3 DEF EntryServable
  <2>5. sps = {d}
    <3>1. sps = Idp!sp_by_entity_id(app, p.sp)
      BY <2>1, <2>3
    <3> HIDE DEF sps
    <3>2. QED
      BY <2>4, <3>1 DEF Idp!sp_by_entity_id, Servable
  <2>6. (CHOOSE e \in sps : TRUE) = d /\ sps # {}
    BY <2>5
  <2> HIDE DEF sps
  <2>7. Answered(answer(p), p.parsed.validated.id)
    <3>1. answer(p) = Idp!finalize_login(i, d, p.parsed, s0, clock, aid)
      BY <2>6
    <3> HIDE DEF answer
    <3>2. Answered(Idp!finalize_login(i, d, p.parsed, s0, clock, aid), p.parsed.validated.id)
      BY <2>2, <2>4, FinalizeLoginAnswers
    <3>3. QED
      BY <3>1, <3>2, Zenon
  <2> HIDE DEF answer
  <2>8. r.app.pending = taken.rest /\ r.reply = answer(p)
    BY <1>2, <2>6, <2>10
  <2>9. QED
    BY <2>1, <2>3, <2>7, <2>8 DEF ContinueTakes
<1> HIDE DEF session, taken, after, sps, answer
<1>3. QED
  BY <1>1, <1>2 DEF ContinueTakes

(* A login of the SP: a tracker, and a request for an e-mail address.      *)
SpLoginStored(app, id, r) ==
  /\ r.app.logouts = app.logouts
  /\ \/ r.app.trackers = app.trackers
     \/ \E t : r.app.trackers \in Store!Insert(app.trackers, id, t, clock,
                                               TRACKER_STALE_AFTER, MAX_TRACKERS)
  /\ \A g \in r.reply.go : Grantable(g.body.xml)

LEMMA SpLoginStores ==
  ASSUME Servable, NEW app, NEW slug, NEW id, DOMAIN app = SpFields, app.providers = Providers,
         NEW r \in Sp!handle_login(app, slug, clock, id)
  PROVE  SpLoginStored(app, id, r)
<1> DEFINE xml(p) == Sp!AuthnRequest(p, id, clock)
           signed(p) == {[cert |-> SpEntity, intact |-> TRUE, xml |-> xml(p), relay_state |-> {slug}]}
           body(p) == [xml |-> xml(p), relay_state |-> {slug}, binding |-> "HttpRedirect",
                       detached |-> signed(p)]
           reply(p) == Sp!Onward(Sp!Request(p.idp, "/saml/sso", body(p)), Sp!KeepCookie)
<1>1. CASE r = [app |-> app, reply |-> Sp!error_page({id})]
  BY <1>1 DEF Sp!error_page, Sp!Page, SpLoginStored
<1>2. ASSUME NEW p \in Sp!by_id(app, slug),
             NEW a \in Sp!insert_tracker(app, Sp!LoginTracker(p, id, clock), clock),
             r = [app |-> a, reply |-> reply(p)]
      PROVE  SpLoginStored(app, id, r)
  <2> DEFINE t == Sp!LoginTracker(p, id, clock)
  <2>1. t.request_id = id
    BY DEF Sp!LoginTracker
  <2> HIDE DEF t
  <2>2. PICK s \in Sp!Store!Insert(app.trackers, id, t, clock,
                                   TRACKER_STALE_AFTER, MAX_TRACKERS) :
          a = [app EXCEPT !.trackers = s]
    BY <1>2, <2>1 DEF Sp!insert_tracker, t
  <2>3. a.trackers = s /\ a.logouts = app.logouts
    BY <2>2 DEF SpFields
  <2>4. Grantable(xml(p))
    <3>1. xml(p).format = p.format /\ xml(p).requested = {}
      BY DEF Sp!AuthnRequest
    <3> HIDE DEF xml
    <3>2. p.format \subseteq {"EmailAddress"}
      BY DEF Sp!by_id, Servable
    <3>3. QED
      BY <3>1, <3>2 DEF Grantable
  <2>5. LET g == Sp!Request(p.idp, "/saml/sso", body(p)) IN
        reply(p).go = {g} /\ g.body.xml = xml(p)
    BY DEF Sp!Onward, Sp!Request
  <2> HIDE DEF xml, signed, body, reply
  <2>6. r.app = a /\ \A g \in r.reply.go : Grantable(g.body.xml)
    BY <1>2, <2>4, <2>5
  <2>7. s \in Store!Insert(app.trackers, id, t, clock, TRACKER_STALE_AFTER, MAX_TRACKERS)
    BY <2>2, SameInsert
  <2>8. QED
    BY <2>3, <2>6, <2>7 DEF SpLoginStored
<1>3. \/ r = [app |-> app, reply |-> Sp!error_page({id})]
      \/ \E p \in Sp!by_id(app, slug) :
         \E a \in Sp!insert_tracker(app, Sp!LoginTracker(p, id, clock), clock) :
           r = [app |-> a, reply |-> reply(p)]
  BY DEF Sp!handle_login
<1> HIDE DEF reply
<1>4. QED
  BY <1>1, <1>2, <1>3

(* An answer uses up the tracker of the login it answers.                  *)
AcsStored(app, id, r) ==
  /\ r.app.logouts = app.logouts
  /\ r.app.trackers = app.trackers \/ DOMAIN r.app.trackers = DOMAIN app.trackers \ {id}

LEMMA SpAcsStores ==
  ASSUME NEW app, NEW form, NEW subject, NEW id, DOMAIN app = SpFields,
         form.response.in_response_to = {id},
         NEW r \in Sp!handle_acs(app, form, subject, clock)
  PROVE  AcsStored(app, id, r)
<1> DEFINE taken == [t \in form.response.in_response_to |-> Sp!take_tracker(app, t)]
           tracker == UNION {taken[t].found : t \in DOMAIN taken}
           after == IF tracker = {} THEN app
                    ELSE [app EXCEPT !.trackers = taken[CHOOSE t \in DOMAIN taken : TRUE].rest]
           cache == Sp!StoreAfter(app.replay, Sp!AcsEntries(form), clock, Sp!ReplayCapacity)
<1>1. r.app \in {app, after, [after EXCEPT !.replay = cache]}
  BY DEF Sp!handle_acs
<1>2. /\ taken[id] = Store!Take(app.trackers, id)
      /\ (CHOOSE t \in DOMAIN taken : TRUE) = id
  BY SameTake DEF Sp!take_tracker
<1>3. DOMAIN Store!Take(app.trackers, id).rest = DOMAIN app.trackers \ {id}
  BY TakeFacts
<1> HIDE DEF taken, tracker, cache
<1>4. /\ DOMAIN after = SpFields /\ after.logouts = app.logouts
      /\ after.trackers = app.trackers \/ DOMAIN after.trackers = DOMAIN app.trackers \ {id}
  BY <1>2, <1>3 DEF SpFields
<1> HIDE DEF after
<1>5. LET a == [after EXCEPT !.replay = cache] IN
      a.logouts = after.logouts /\ a.trackers = after.trackers
  BY <1>4 DEF SpFields
<1>6. QED
  BY <1>1, <1>4, <1>5 DEF AcsStored

(* Signing out on either side tracks the request that is sent.             *)
LogoutStored(before, after) ==
  \/ after = before
  \/ \E id, v : after \in Store!Insert(before, id, v, clock, TRACKER_STALE_AFTER, MAX_TRACKERS)

LEMMA IdpLogoutStores ==
  ASSUME NEW i, NEW app, NEW cookies, NEW id, DOMAIN app = IdpFields,
         NEW r \in Idp!handle_logout_self(app)
                     \cup Idp!handle_logout_everywhere(i, app, cookies, clock, id)
  PROVE  LogoutStored(app.logouts, r.app.logouts)
<1>1. \/ r.app = app
      \/ \E d \in app.sps : r.app \in Idp!insert_logout_tracker(app, id, d.entity, clock)
  <2>1. CASE r \in Idp!handle_logout_self(app)
    BY <2>1 DEF Idp!handle_logout_self
  <2>2. CASE r \in Idp!handle_logout_everywhere(i, app, cookies, clock, id)
    <3> DEFINE send(d, b) ==
                 Idp!SendLogout(d.entity, Idp!Slo!LogoutRequest(Idp!IdpParty(i), Idp!SpParty(d), b, id),
                                {}, Idp!KeepCookie)
    <3>1. \/ \E kind : r = [app |-> app, reply |-> Idp!Landing(kind, {})]
          \/ \E d \in app.sps : \E b \in Idp!pick_slo_binding(d) :
             \E a \in Idp!insert_logout_tracker(app, id, d.entity, clock) :
               r = [app |-> a, reply |-> send(d, b)]
      BY <2>2 DEF Idp!handle_logout_everywhere
    <3> HIDE DEF send
    <3>2. QED
      BY <3>1
  <2>3. QED
    BY <2>1, <2>2
<1>2. ASSUME NEW d, r.app \in Idp!insert_logout_tracker(app, id, d.entity, clock)
      PROVE  LogoutStored(app.logouts, r.app.logouts)
  <2>1. r.app.logouts \in Idp!Store!Insert(app.logouts, id, [peer |-> d.entity], clock,
                                           TRACKER_STALE_AFTER, MAX_TRACKERS)
    BY <1>2 DEF Idp!insert_logout_tracker, IdpFields
  <2>2. QED
    BY <2>1, SameInsert DEF LogoutStored
<1>3. QED
  BY <1>1, <1>2 DEF LogoutStored

LEMMA SpLogoutStores ==
  ASSUME NEW app, NEW cookies, NEW id, DOMAIN app = SpFields,
         NEW r \in Sp!handle_logout(app, cookies, clock, id)
  PROVE  LogoutStored(app.logouts, r.app.logouts)
<1>1. \/ r.app = app
      \/ \E p : r.app \in Sp!insert_logout_tracker(app, id, p.idp, clock)
  <2> DEFINE session == Sp!decode(cookies, SpEntity, clock)
             found == UNION {Sp!by_id(app, s.provider) : s \in session}
             bindings == UNION {Sp!pick_slo_binding_with_pref(p, p.prefer) : p \in found}
             kinds == {"already-signed-out", "signed-out-locally", "signed-out-locally-no-slo"}
             send(p, b) ==
               Sp!SendLogout(p.idp, Sp!Slo!LogoutRequest(Sp!SpParty, Sp!IdpParty(p), b, id), {p.id},
                             Sp!ClearCookie)
  <2>1. \/ \E kind \in kinds : r = [app |-> app, reply |-> Sp!Landing(kind, {})]
        \/ \E p, b : \E a \in Sp!insert_logout_tracker(app, id, p.idp, clock) :
             r = [app |-> a, reply |-> send(p, b)]
    <3> DEFINE stay(kind) == {[app |-> app, reply |-> Sp!Landing(kind, {})]}
               go == UNION {UNION {
                       {[app |-> a, reply |-> send(p, b)] :
                          a \in Sp!insert_logout_tracker(app, id, p.idp, clock)} :
                       b \in bindings} : p \in found}
    <3>1. r \in IF session = {} THEN stay("already-signed-out")
               ELSE IF found = {} THEN stay("signed-out-locally")
               ELSE IF bindings = {} THEN stay("signed-out-locally-no-slo") ELSE go
      BY Zenon DEF Sp!handle_logout
    <3> HIDE DEF session, found, bindings, send
    <3>2. r \in go => <2>1!2
      OBVIOUS
    <3> HIDE DEF go
    <3>3. (\E kind \in kinds : r \in stay(kind)) => <2>1!1
      OBVIOUS
    <3> HIDE DEF stay
    <3>4. r \in go \/ \E kind \in kinds : r \in stay(kind)
      BY <3>1
    <3>5. QED
      BY <3>2, <3>3, <3>4
  <2> HIDE DEF kinds, send
  <2>2. QED
    BY <2>1
<1>2. ASSUME NEW p, r.app \in Sp!insert_logout_tracker(app, id, p.idp, clock)
      PROVE  LogoutStored(app.logouts, r.app.logouts)
  <2>1. r.app.logouts \in Sp!Store!Insert(app.logouts, id, [peer |-> p.idp], clock,
                                          TRACKER_STALE_AFTER, MAX_TRACKERS)
    BY <1>2 DEF Sp!insert_logout_tracker, SpFields
  <2>2. QED
    BY <2>1, SameInsert DEF LogoutStored
<1>3. QED
  BY <1>1, <1>2 DEF LogoutStored

(* A LogoutResponse uses up at most the tracker of the logout it answers.  *)
AtMost(before, after, m) ==
  \/ after = before
  \/ \E id \in m.in_response_to : DOMAIN after = DOMAIN before \ {id}

LEMMA IdpSloStores ==
  ASSUME NEW i, NEW app, NEW m, DOMAIN app = IdpFields,
         NEW r \in Idp!consume_logout_response_xml(i, app, m)
  PROVE  AtMost(app.logouts, r.app.logouts, m)
<1> DEFINE id == CHOOSE id \in m.in_response_to : TRUE
           taken == Idp!take_logout_tracker(app, id)
<1>1. \/ r.app = app
      \/ m.in_response_to # {} /\ r.app = [app EXCEPT !.logouts = taken.rest]
  <2> DEFINE verdict(d) == Idp!Slo!consume_logout_response(Idp!IdpParty(i), Idp!SpParty(d), m,
                                                           m.binding, m.detached, i, id)
             reply(d) == IF verdict(d) # "Ok" THEN Idp!error_page({id})
                         ELSE Idp!Landing(Idp!Everywhere(Idp!Slo!to_outcome(m.status)), {id})
  <2>1. \/ r = [app |-> app, reply |-> Idp!error_page({})]
        \/ /\ m.in_response_to # {}
           /\ \E d : r = [app |-> [app EXCEPT !.logouts = taken.rest], reply |-> reply(d)]
    BY DEF Idp!consume_logout_response_xml
  <2> HIDE DEF id, taken, reply
  <2>2. QED
    BY <2>1
<1>2. m.in_response_to # {} => id \in m.in_response_to
  OBVIOUS
<1> HIDE DEF id
<1>3. DOMAIN taken.rest = DOMAIN app.logouts \ {id}
  BY TakeFacts, SameTake DEF Idp!take_logout_tracker
<1> HIDE DEF taken
<1>4. QED
  BY <1>1, <1>2, <1>3 DEF AtMost, IdpFields

(* By Redirect the tracker goes only if it is the one the response answers.*)
LEMMA SpSloStores ==
  ASSUME NEW app, NEW m, NEW relay_state, DOMAIN app = SpFields,
         NEW r \in Sp!handle_slo_response(app, m, relay_state)
                     \cup Sp!handle_slo_response_redirect(app, m, relay_state)
  PROVE  AtMost(app.logouts, r.app.logouts, m)
<1> DEFINE taken(id) == Sp!take_logout_tracker(app, id)
           closed(id) == [app EXCEPT !.logouts = taken(id).rest]
<1>1. r.app = app \/ \E id \in m.in_response_to : r.app = closed(id)
  <2>1. CASE r \in Sp!handle_slo_response(app, m, relay_state)
    <3> DEFINE id0 == CHOOSE id \in m.in_response_to : TRUE
    <3>1. r.app = app \/ (m.in_response_to # {} /\ r.app = closed(id0))
      BY <2>1 DEF Sp!handle_slo_response
    <3> HIDE DEF closed
    <3>2. QED
      BY <3>1
  <2>2. CASE r \in Sp!handle_slo_response_redirect(app, m, relay_state)
    <3> DEFINE p0 == CHOOSE p \in UNION {Sp!by_id(app, slug) : slug \in relay_state} : TRUE
               banner(id) == Sp!Banner(Sp!ResponseVerdict(p0, m, id), m)
    <3>1. r.app = app \/ \E id : banner(id) = "signed-out" /\ r.app = closed(id)
      BY <2>2 DEF Sp!handle_slo_response_redirect
    <3> HIDE DEF p0, closed
    <3>2. \A id : banner(id) = "signed-out" => m.in_response_to = {id}
      BY SpVerdictOk
    <3> HIDE DEF banner
    <3>3. QED
      BY <3>1, <3>2
  <2>3. QED
    BY <2>1, <2>2
<1>2. \A id : DOMAIN taken(id).rest = DOMAIN app.logouts \ {id}
  BY TakeFacts, SameTake DEF Sp!take_logout_tracker
<1> HIDE DEF taken
<1>3. \A id : closed(id).logouts = taken(id).rest
  BY DEF SpFields
<1> HIDE DEF closed
<1>4. QED
  BY <1>1, <1>2, <1>3 DEF AtMost

-----------------------------------------------------------------------------
(* The steps.                                                              *)

LEMMA LimitsNat ==
  /\ MAX_PENDING \in Nat /\ MAX_TRACKERS \in Nat
  /\ PENDING_STALE_AFTER \in Nat \ {0} /\ TRACKER_STALE_AFTER \in Nat \ {0}
BY WebAppAssumption

LEMMA ClockNat == StoresInv => clock \in Nat
BY DEF StoresInv

LEMMA LogoutKept ==
  ASSUME clock \in Nat, NEW before, NEW after, LogoutStored(before, after)
  PROVE  StoreStep(before, after, MAX_TRACKERS, TRACKER_STALE_AFTER, log.ended)
BY SameKept, InsertKept, LimitsNat DEF LogoutStored

(* Pages without a form, forms that lead to a login or to the SP.          *)
LEMMA HarmlessReply ==
  ASSUME NEW reply, NEW site, ~reply.cookie.change,
         \A g \in reply.go : g.path \notin {"/saml/sso", "/saml/slo"}
  PROVE  ReplyServable(reply, site)
BY DEF ReplyServable, TabServable

LEMMA LogoutServable ==
  ASSUME NEW reply, NEW site, LogoutReply(reply)
  PROVE  ReplyServable(reply, site)
BY DEF LogoutReply, Correlated, ReplyServable, TabServable

LEMMA BootStores ==
  ASSUME AppInv, StoresInv,
         \/ Tick \/ (\E i \in Idps : StartIdp(i)) \/ (\E site \in Sites : Boots(site))
         \/ UNCHANGED vars
  PROVE  StoresInv' /\ StoresKept
<1>1. /\ cookie' = cookie /\ tabs' = tabs /\ log' = log /\ clock' \in {clock, clock + 1}
      /\ sp'.trackers = sp.trackers /\ sp'.logouts = sp.logouts
      /\ \A i \in Idps : idp'[i].pending = idp[i].pending /\ idp'[i].logouts = idp[i].logouts
  <2> USE DEF AppInv, Shapes
  <2>1. CASE Tick \/ UNCHANGED vars
    BY <2>1 DEF Tick, vars
  <2>2. CASE \E i \in Idps : StartIdp(i)
    BY <2>2 DEF StartIdp
  <2>3. ASSUME NEW site \in Sites, NEW d \in Documents(site), Attempt(site, d)
        PROVE  <1>1
    BY <2>3 DEF Attempt
  <2>4. CASE SpListens
    <3>1. /\ sp' = [sp EXCEPT !.providers = sp'.providers] /\ clock' = clock
          /\ idp' = idp /\ cookie' = cookie /\ tabs' = tabs /\ log' = log
      BY <2>4 DEF SpListens
    <3>2. QED
      BY <3>1
  <2>5. ASSUME NEW i \in Idps, Registers(i)
        PROVE  <1>1
    <3>1. PICK sps : idp' = [idp EXCEPT ![i].sps = sps]
      BY <2>5 DEF Registers
    <3>2. sp' = sp /\ cookie' = cookie /\ tabs' = tabs /\ log' = log /\ clock' = clock
      BY <2>5 DEF Registers
    <3>3. QED
      BY <3>1, <3>2
  <2>6. QED
    BY <2>1, <2>2, <2>3, <2>4, <2>5 DEF Boots
<1>2. SpStores(sp') /\ \A i \in Idps : IdpStores(i, idp'[i], {a.request : a \in log'.answers})
  BY <1>1, SpSame, IdpSame
<1>3. FiniteStores' /\ StoresKept
  BY <1>2, StoresFollow DEF StoresInv
<1>4. clock' \in Nat \ {0}
  BY <1>1 DEF StoresInv
<1>5. CookiesOfUsers' /\ TabsServable'
  BY <1>1 DEF StoresInv, CookiesOfUsers, TabsServable, TabServable, UserIds
<1>6. PendingServable'
  BY <1>1 DEF StoresInv, PendingServable
<1>7. QED
  BY <1>3, <1>4, <1>5, <1>6 DEF StoresInv

LEMMA OtherLoginStores ==
  ASSUME Servable, AppInv, StoresInv, NEW b \in Browsers, NEW q \in OtherRequests,
         OtherLogin(b, q)
  PROVE  StoresInv' /\ StoresKept
<1>1. /\ cookie' = cookie /\ log' = log /\ clock' = clock /\ sp' = sp /\ idp' = idp
      /\ tabs' = [tabs EXCEPT ![b] = @ \cup {q}]
  BY DEF OtherLogin
<1>2. SpStores(sp') /\ \A i \in Idps : IdpStores(i, idp'[i], {a.request : a \in log'.answers})
  BY <1>1, SpSame, IdpSame
<1>3. FiniteStores' /\ StoresKept
  BY <1>2, StoresFollow DEF StoresInv
<1>4. TabServable(q)
  BY ExampleParties DEF Servable, TabServable
<1>5. TabsServable'
  BY <1>1, <1>4 DEF AppInv, Shapes, StoresInv, TabsServable, TabServable
<1>6. CookiesOfUsers' /\ PendingServable'
  BY <1>1 DEF StoresInv, CookiesOfUsers, UserIds, PendingServable
<1>7. QED
  BY <1>1, <1>3, <1>5, <1>6 DEF StoresInv

LEMMA OpenStores ==
  ASSUME AppInv, StoresInv, NEW b \in Browsers, NEW i \in Idps,
         NEW path \in {"/saml/sso/login", "/saml/sso/continue"},
         NEW id \in DOMAIN idp[i].pending, Open(b, i, path, id)
  PROVE  StoresInv' /\ StoresKept
<1> DEFINE page == Request(i, path, [request_id |-> id])
<1>1. /\ cookie' = cookie /\ clock' = clock /\ sp' = sp /\ idp' = idp
      /\ log' = [log EXCEPT !.opened = log'.opened]
      /\ tabs' = [tabs EXCEPT ![b] = @ \cup {page}]
  BY DEF Open, AppInv, Shapes, LogFields
<1>2. SpStores(sp') /\ \A j \in Idps : IdpStores(j, idp'[j], {a.request : a \in log'.answers})
  BY <1>1, SpSame, IdpSame
<1>3. FiniteStores' /\ StoresKept
  BY <1>2, StoresFollow DEF StoresInv
<1>4. TabServable(page)
  BY DEF Request, TabServable
<1> HIDE DEF page
<1>5. TabsServable'
  BY <1>1, <1>4 DEF AppInv, Shapes, StoresInv, TabsServable, TabServable
<1>6. CookiesOfUsers' /\ PendingServable'
  BY <1>1 DEF StoresInv, CookiesOfUsers, UserIds, PendingServable
<1>7. QED
  BY <1>1, <1>3, <1>5, <1>6 DEF StoresInv

LEMMA SsoStep ==
  ASSUME Servable, Ready, AppInv, StoresInv, NEW b \in Browsers, NEW q \in tabs[b],
         NEW again \in BOOLEAN, Sso(b, q, again)
  PROVE  StoresInv' /\ StoresKept
<1> DEFINE i == q.to
           id == q.body.xml.id
<1>1. i \in Idps /\ Grantable(q.body.xml)
  <2>1. TabSound(b, q) /\ TabServable(q) /\ q.path = "/saml/sso"
    BY DEF AppInv, TabsSound, StoresInv, TabsServable, Sso
  <2>2. QED
    BY <2>1 DEF TabSound, RequestSound, TabServable
<1>2. PICK r \in Idp!handle_sso(i, idp[i], q.body, cookie[b][i], clock,
                                Cardinality(log.answers) + 1) :
        AtIdp(b, i, r, {q}, again)
  BY DEF Sso
<1>3. DOMAIN idp[i] = IdpFields /\ idp[i].sps = Registry[i]
  BY <1>1 DEF AppInv, Shapes, IdpFields, Ready
<1>4. SsoReply(i, idp[i], q.body, cookie[b][i], clock, r) /\ SsoStored(i, idp[i], q.body, r)
  BY <1>1, <1>2, <1>3, HandleSso, SsoStores
<1>5. ReplyServable(r.reply, i)
  <2>1. \A g \in r.reply.go : g.path \notin {"/saml/sso", "/saml/slo"}
    BY <1>4 DEF SsoReply, Answer, Idp!Request
  <2>2. ~r.reply.cookie.change
    BY <1>4 DEF SsoReply
  <2>3. QED
    BY <2>1, <2>2, HarmlessReply
<1>6. DOMAIN r.app = IdpFields /\ r.app.logouts = idp[i].logouts
  BY <1>4 DEF SsoReply
<1>7. CASE r.app.pending = idp[i].pending
  BY <1>1, <1>2, <1>5, <1>6, <1>7, IdpSame, StoresAtIdp
<1>8. ASSUME NEW v, EntryServable(i, v),
             r.app.pending \in Store!Insert(idp[i].pending, id, v, clock,
                                            PENDING_STALE_AFTER, MAX_PENDING)
      PROVE  StoresInv' /\ StoresKept
  <2>1. IdpStores(i, r.app, {a.request : a \in log'.answers})
    BY <1>6, <1>8, InsertKept, SameKept, LimitsNat, ClockNat DEF IdpStores
  <2>2. Inserted(idp[i].pending, r.app.pending, id, v, clock)
    BY <1>8, InsertFacts
  <2>3. \A k \in DOMAIN r.app.pending :
          \/ k \in DOMAIN idp[i].pending /\ r.app.pending[k] = idp[i].pending[k]
          \/ EntryServable(i, r.app.pending[k].value)
    BY <1>8, <2>2 DEF Inserted
  <2>4. QED
    BY <1>1, <1>2, <1>5, <1>6, <2>1, <2>3, StoresAtIdp
<1>9. QED
  BY <1>4, <1>7, <1>8 DEF SsoStored

LEMMA ContinueStep ==
  ASSUME Servable, Ready, AppInv, StoresInv, NEW b \in Browsers, NEW q \in tabs[b],
         NEW again \in BOOLEAN, Continue(b, q, again)
  PROVE  StoresInv' /\ StoresKept
<1> DEFINE i == q.to
           id == q.body.request_id
<1>1. i \in Idps /\ Shapes
  <2>1. TabSound(b, q) /\ q.path = "/saml/sso/continue"
    BY DEF AppInv, TabsSound, Continue
  <2>2. QED
    BY <2>1 DEF TabSound, AppInv
<1>2. PICK r \in Idp!finalize_continue(i, idp[i], id, cookie[b][i], clock,
                                       Cardinality(log.answers) + 1) :
        AtIdp(b, i, r, {q}, again) /\ log' = Recorded(r.reply, {})
  BY DEF Continue
<1>3. /\ DOMAIN idp[i] = IdpFields /\ idp[i].sps = Registry[i] /\ clock \in Nat \ {0}
      /\ \A c \in cookie[b][i] : c.payload.user \in UserIds
      /\ \A k \in DOMAIN idp[i].pending : EntryServable(i, idp[i].pending[k].value)
  BY <1>1 DEF Shapes, IdpFields, Ready, StoresInv, CookiesOfUsers, PendingServable, EntryServable
<1>4. ContinueReply(i, idp[i], id, cookie[b][i], r) /\ ContinueTakes(idp[i], id, r)
  BY <1>1, <1>2, <1>3, FinalizeContinue, ContinueStores
<1>5. ReplyServable(r.reply, i)
  <2>1. \A g \in r.reply.go : g.path \notin {"/saml/sso", "/saml/slo"}
    <3>1. \A g \in r.reply.go :
            \/ g = Idp!Request(i, "/saml/sso/login", [request_id |-> id])
            \/ \E to, known, session : Answer(g, i, to, known, session)
      BY <1>4 DEF ContinueReply
    <3>2. QED
      BY <3>1 DEF Answer, Idp!Request
  <2>2. ~r.reply.cookie.change
    BY <1>4 DEF ContinueReply
  <2>3. QED
    BY <2>1, <2>2, HarmlessReply
<1>6. /\ DOMAIN r.app = IdpFields /\ r.app.logouts = idp[i].logouts
      /\ \A k \in DOMAIN r.app.pending :
           k \in DOMAIN idp[i].pending /\ r.app.pending[k] = idp[i].pending[k]
  BY <1>4 DEF ContinueReply
<1>7. IdpStores(i, r.app, {a.request : a \in log'.answers})
  <2>1. CASE r.app.pending = idp[i].pending
    BY <1>6, <2>1, IdpSame
  <2>2. CASE /\ DOMAIN r.app.pending = DOMAIN idp[i].pending \ {id} /\ id \in DOMAIN idp[i].pending
             /\ Answered(r.reply, idp[i].pending[id].value.parsed.validated.id)
    <3>1. idp[i].pending[id].value.parsed.validated.id = id
      BY <1>1, <2>2 DEF AppInv, PendingSound
    <3>2. PICK g \in r.reply.go :
            g.path = "/saml/acs" /\ g.body.form.response.in_response_to = {id}
      BY <2>2, <3>1 DEF Answered
    <3>3. Notes(log', r.reply, {})
      BY <1>1, <1>2, RecordedFacts
    <3>4. AnswerRecord(g.body) \in log'.answers
      BY <3>2, <3>3 DEF Notes
    <3>5. AnswerRecord(g.body).request = id
      BY <3>2 DEF AnswerRecord
    <3>6. id \in {a.request : a \in log'.answers}
      BY <3>4, <3>5
    <3>7. QED
      BY <1>6, <2>2, <3>6, TakeKept, SameKept DEF IdpStores
  <2>3. QED
    BY <1>4, <2>1, <2>2 DEF ContinueTakes
<1>8. QED
  BY <1>1, <1>2, <1>5, <1>6, <1>7, StoresAtIdp

LEMMA TypesStep ==
  ASSUME AppInv, StoresInv, NEW b \in Browsers, NEW i \in Idps, NEW request, NEW name,
         NEW password, TypePassword(b, i, request, name, password)
  PROVE  StoresInv' /\ StoresKept
<1> DEFINE forms == {g \in tabs[b] : g.to = i /\ g.path = "/saml/sso/login"
                                     /\ {g.body.request_id} = request}
           index == Cardinality(log.typed) + 1
           form == [request_id |-> request, username |-> name, password |-> password]
           replies == Idp!handle_login(i, idp[i], form, clock, index)
           r == CHOOSE r \in replies : TRUE
<1>1. r.reply.page.kind = "onward" /\ AtIdp(b, i, r, forms, FALSE)
  BY DEF TypePassword
<1>2. r \in replies
  <2>1. replies # {}
    BY DEF Idp!handle_login
  <2> HIDE DEF replies
  <2>2. QED
    BY <2>1
<1> HIDE DEF r
<1>3. TypedReply(i, idp[i], request, name, password, index, r)
  BY <1>2, HandleLogin
<1> HIDE DEF replies, forms, index
<1>4. /\ r.app = idp[i]
      /\ \A c \in r.reply.cookie.to : c.payload.user \in UserIds
      /\ \A g \in r.reply.go : g.path = "/saml/sso/continue"
  BY <1>1, <1>3 DEF TypedReply, UserIds, Idp!Request
<1>5. ReplyServable(r.reply, i)
  BY <1>4 DEF ReplyServable, TabServable
<1>6. DOMAIN r.app = IdpFields
  BY <1>4 DEF AppInv, Shapes, IdpFields
<1>7. IdpStores(i, r.app, {a.request : a \in log'.answers})
  BY <1>4, IdpSame
<1>8. \A id \in DOMAIN r.app.pending :
        id \in DOMAIN idp[i].pending /\ r.app.pending[id] = idp[i].pending[id]
  BY <1>4
<1>9. FALSE \in BOOLEAN
  OBVIOUS
<1>10. QED
  BY <1>1, <1>5, <1>6, <1>7, <1>8, <1>9, StoresAtIdp

LEMMA LoginStep ==
  ASSUME Servable, Ready, AppInv, StoresInv, NEW b \in Browsers, NEW n \in DOMAIN Providers,
         Login(b, n)
  PROVE  StoresInv' /\ StoresKept
<1> DEFINE id == count.logins + 1
           slug == Providers[n].id
<1>1. PICK r \in Sp!handle_login(sp, slug, clock, id) : AtSp(b, r, {}, FALSE)
  BY DEF Login
<1>2. DOMAIN sp = SpFields /\ sp.providers = Providers
  BY DEF AppInv, Shapes, SpFields, Ready
<1>3. LoginReply(sp, slug, id, r) /\ SpLoginStored(sp, id, r)
  BY <1>1, <1>2, SpHandleLogin, SpLoginStores
<1>4. ReplyServable(r.reply, SpEntity)
  BY <1>3 DEF LoginReply, SpLoginStored, ReplyServable, TabServable
<1>5. SpStores(r.app)
  <2>1. StoreStep(sp.trackers, r.app.trackers, MAX_TRACKERS, TRACKER_STALE_AFTER,
                  {a.request : a \in log.answers})
    BY <1>3, SameKept, InsertKept, LimitsNat, ClockNat DEF SpLoginStored
  <2>2. r.app.logouts = sp.logouts
    BY <1>3 DEF SpLoginStored
  <2>3. QED
    BY <2>1, <2>2, SameKept DEF SpStores
<1>6. DOMAIN r.app = SpFields
  BY <1>3 DEF LoginReply
<1>7. FALSE \in BOOLEAN
  OBVIOUS
<1>8. QED
  BY <1>1, <1>4, <1>5, <1>6, <1>7, StoresAtSp

LEMMA ConsumeStep ==
  ASSUME AppInv, StoresInv, NEW b \in Browsers, NEW q \in tabs[b], NEW again \in BOOLEAN,
         ConsumeAnswer(b, q, again)
  PROVE  StoresInv' /\ StoresKept
<1> DEFINE form == q.body.form
           subject == q.body.subject
<1>1. PICK r \in Sp!handle_acs(sp, form, subject, clock) : AtSp(b, r, {q}, again)
  BY DEF ConsumeAnswer
<1>2. AnswerSound(q.body)
  <2>1. TabSound(b, q) /\ q.path = "/saml/acs" /\ q.to = SpEntity
    BY DEF AppInv, TabsSound, ConsumeAnswer
  <2>2. QED
    BY <2>1 DEF TabSound
<1>3. PICK i \in Idps, s \in log.started, a \in log.answers :
        /\ form.response.issuer = {i} /\ form.response.in_response_to = {s.request}
        /\ a.request = s.request /\ form.relay_state = {s.provider}
  BY <1>2 DEF AnswerSound
<1> DEFINE id == s.request
<1>4. DOMAIN sp = SpFields /\ id \in {x.request : x \in log.answers}
  BY <1>3 DEF AppInv, Shapes, SpFields
<1>5. AcsReply(sp, subject, i, id, s.provider, r)
  BY <1>1, <1>3, <1>4, SpHandleAcs
<1>6. AcsStored(sp, id, r)
  <2> HIDE DEF form, subject
  <2>1. form.response.in_response_to = {id}
    BY <1>3
  <2> HIDE DEF id
  <2>2. QED
    BY <1>1, <1>4, <2>1, SpAcsStores
<1>7. SpStores(r.app)
  BY <1>4, <1>6, SameKept, TakeKept DEF SpStores, AcsStored
<1>8. ReplyServable(r.reply, SpEntity) /\ DOMAIN r.app = SpFields
  BY <1>5, ExampleParties DEF AcsReply, ReplyServable
<1>9. QED
  BY <1>1, <1>7, <1>8, StoresAtSp

LEMMA LogoutSteps ==
  ASSUME AppInv, StoresInv, NEW b \in Browsers,
         Logout(b) \/ \E i \in Idps : LogoutHere(b, i) \/ LogoutEverywhere(b, i)
  PROVE  StoresInv' /\ StoresKept
<1> FALSE \in BOOLEAN
  OBVIOUS
<1>1. CASE Logout(b)
  <2>1. PICK r \in Sp!handle_logout(sp, cookie[b][SpEntity], clock, LogoutId) :
          AtSp(b, r, {}, FALSE)
    BY <1>1 DEF Logout
  <2>2. DOMAIN sp = SpFields
    BY DEF AppInv, Shapes, SpFields
  <2>3. /\ DOMAIN r.app = SpFields /\ r.app.trackers = sp.trackers /\ LogoutReply(r.reply)
        /\ LogoutStored(sp.logouts, r.app.logouts)
    BY <2>1, <2>2, SpLogout, SpLogoutStores
  <2>4. SpStores(r.app) /\ ReplyServable(r.reply, SpEntity)
    BY <2>3, SameKept, LogoutKept, LogoutServable, ClockNat DEF SpStores
  <2>5. QED
    BY <2>1, <2>3, <2>4, StoresAtSp
<1>2. ASSUME NEW i \in Idps, LogoutHere(b, i) \/ LogoutEverywhere(b, i)
      PROVE  StoresInv' /\ StoresKept
  <2>1. PICK r \in Idp!handle_logout_self(idp[i])
                     \cup Idp!handle_logout_everywhere(i, idp[i], cookie[b][i], clock, LogoutId) :
          AtIdp(b, i, r, {}, FALSE)
    BY <1>2 DEF LogoutHere, LogoutEverywhere
  <2>2. DOMAIN idp[i] = IdpFields
    BY DEF AppInv, Shapes, IdpFields
  <2>3. /\ DOMAIN r.app = IdpFields /\ r.app.pending = idp[i].pending /\ LogoutReply(r.reply)
        /\ LogoutStored(idp[i].logouts, r.app.logouts)
    BY <2>1, <2>2, IdpLogout, IdpLogoutStores
  <2>4. IdpStores(i, r.app, {a.request : a \in log'.answers}) /\ ReplyServable(r.reply, i)
    BY <2>3, SameKept, LogoutKept, LogoutServable, ClockNat DEF IdpStores
  <2>5. \A id \in DOMAIN r.app.pending :
          id \in DOMAIN idp[i].pending /\ r.app.pending[id] = idp[i].pending[id]
    BY <2>3
  <2>6. QED
    BY <2>1, <2>3, <2>4, <2>5, StoresAtIdp
<1>3. QED
  BY <1>1, <1>2

(* A response is about a logout that was performed.                        *)
LEMMA AnsweredLogoutKept ==
  ASSUME NEW m, NEW before, NEW after, MessageSound(m), m.kind = "LogoutResponse",
         AtMost(before, after, m)
  PROVE  StoreStep(before, after, MAX_TRACKERS, TRACKER_STALE_AFTER, log.ended)
<1>1. m.in_response_to = {m.id} /\ m.id \in log.ended
  BY DEF MessageSound
<1>2. CASE after = before
  BY <1>2, SameKept
<1>3. CASE DOMAIN after = DOMAIN before \ {m.id}
  BY <1>1, <1>3, TakeKept
<1>4. QED
  BY <1>1, <1>2, <1>3 DEF AtMost

LEMMA SloStep ==
  ASSUME AppInv, StoresInv, NEW b \in Browsers, NEW q \in tabs[b], NEW again \in BOOLEAN,
         SloAtIdp(b, q, again) \/ SloAtSp(b, q, again)
  PROVE  StoresInv' /\ StoresKept
<1> DEFINE m == q.body.message
<1>1. /\ q.path = "/saml/slo" /\ MessageSound(m)
      /\ m.kind # "LogoutRequest" => m.kind = "LogoutResponse"
  <2>1. TabSound(b, q) /\ TabServable(q) /\ q.path = "/saml/slo"
    BY DEF AppInv, TabsSound, StoresInv, TabsServable, SloAtIdp, SloAtSp
  <2>2. QED
    BY <2>1 DEF TabSound, TabServable
<1>2. CASE SloAtIdp(b, q, again)
  <2> DEFINE i == q.to
  <2>1. PICK r \in IF m.kind = "LogoutRequest"
                     THEN Idp!handle_slo_request(i, idp[i], m, q.body.relay_state, clock)
                     ELSE Idp!consume_logout_response_xml(i, idp[i], m) :
          AtIdp(b, i, r, {q}, again)
    BY <1>2 DEF SloAtIdp
  <2>2. i \in Idps /\ DOMAIN idp[i] = IdpFields
    BY <1>2 DEF SloAtIdp, AppInv, Shapes, IdpFields
  <2>3. /\ DOMAIN r.app = IdpFields /\ r.app.pending = idp[i].pending /\ LogoutReply(r.reply)
        /\ StoreStep(idp[i].logouts, r.app.logouts, MAX_TRACKERS, TRACKER_STALE_AFTER, log.ended)
    <3>1. CASE m.kind = "LogoutRequest"
      <4>1. r.app = idp[i] /\ LogoutReply(r.reply)
        BY <2>1, <3>1, IdpSloRequest
      <4>2. QED
        BY <2>2, <4>1, SameKept
    <3>2. CASE m.kind # "LogoutRequest"
      <4>1. r \in Idp!consume_logout_response_xml(i, idp[i], m)
        BY <2>1, <3>2
      <4>2. AtMost(idp[i].logouts, r.app.logouts, m)
        BY <2>2, <4>1, IdpSloStores
      <4>3. /\ DOMAIN r.app = IdpFields /\ r.app.pending = idp[i].pending
            /\ LogoutReply(r.reply)
        BY <2>2, <4>1, IdpSloResponse
      <4>4. QED
        BY <1>1, <3>2, <4>2, <4>3, AnsweredLogoutKept
    <3>3. QED
      BY <3>1, <3>2
  <2>4. IdpStores(i, r.app, {a.request : a \in log'.answers}) /\ ReplyServable(r.reply, i)
    BY <2>3, SameKept, LogoutServable DEF IdpStores
  <2>5. \A id \in DOMAIN r.app.pending :
          id \in DOMAIN idp[i].pending /\ r.app.pending[id] = idp[i].pending[id]
    BY <2>3
  <2>6. QED
    BY <2>1, <2>2, <2>3, <2>4, <2>5, StoresAtIdp
<1>3. CASE SloAtSp(b, q, again)
  <2>1. PICK r : AtSp(b, r, {q}, again) /\
          r \in IF m.kind = "LogoutRequest"
                  THEN Sp!handle_slo_request(sp, m, q.body.relay_state, clock)
                  ELSE Sp!handle_slo_response(sp, m, q.body.relay_state)
                         \cup Sp!handle_slo_response_redirect(sp, m, q.body.relay_state)
    BY <1>3 DEF SloAtSp
  <2>2. DOMAIN sp = SpFields
    BY DEF AppInv, Shapes, SpFields
  <2>3. /\ DOMAIN r.app = SpFields /\ r.app.trackers = sp.trackers /\ LogoutReply(r.reply)
        /\ StoreStep(sp.logouts, r.app.logouts, MAX_TRACKERS, TRACKER_STALE_AFTER, log.ended)
    <3>1. CASE m.kind = "LogoutRequest"
      <4>1. r.app = sp /\ LogoutReply(r.reply)
        BY <2>1, <3>1, SpSloRequest
      <4>2. QED
        BY <2>2, <4>1, SameKept
    <3>2. CASE m.kind # "LogoutRequest"
      <4>1. r \in Sp!handle_slo_response(sp, m, q.body.relay_state)
                    \cup Sp!handle_slo_response_redirect(sp, m, q.body.relay_state)
        BY <2>1, <3>2
      <4>2. AtMost(sp.logouts, r.app.logouts, m)
        BY <2>2, <4>1, SpSloStores
      <4>3. /\ DOMAIN r.app = SpFields /\ r.app.trackers = sp.trackers
            /\ LogoutReply(r.reply)
        BY <2>2, <4>1, SpSloResponse
      <4>4. QED
        BY <1>1, <3>2, <4>2, <4>3, AnsweredLogoutKept
    <3>3. QED
      BY <3>1, <3>2
  <2>4. SpStores(r.app) /\ ReplyServable(r.reply, SpEntity)
    BY <2>3, SameKept, LogoutServable DEF SpStores
  <2>5. QED
    BY <2>1, <2>3, <2>4, StoresAtSp
<1>4. QED
  BY <1>2, <1>3

LEMMA StoresStep ==
  Servable /\ AppInv /\ StoresInv /\ [Next]_vars => StoresInv' /\ StoresKept
<1> SUFFICES ASSUME Servable, AppInv, StoresInv, [Next]_vars
             PROVE  StoresInv' /\ StoresKept
  OBVIOUS
<1>1. CASE \/ Tick \/ (\E i \in Idps : StartIdp(i)) \/ (\E site \in Sites : Boots(site))
           \/ UNCHANGED vars
  BY <1>1, BootStores
<1>2. ASSUME NEW b \in Browsers, Ready, NEW n \in DOMAIN Providers, Login(b, n)
      PROVE  StoresInv' /\ StoresKept
  BY <1>2, LoginStep
<1>3. ASSUME NEW b \in Browsers, NEW q \in OtherRequests, OtherLogin(b, q)
      PROVE  StoresInv' /\ StoresKept
  BY <1>3, OtherLoginStores
<1>4. ASSUME NEW b \in Browsers, Ready, NEW again \in BOOLEAN, Follow(b, again)
      PROVE  StoresInv' /\ StoresKept
  BY <1>4, SsoStep, ContinueStep, ConsumeStep, SloStep DEF Follow
<1>5. ASSUME NEW b \in Browsers, Types(b)
      PROVE  StoresInv' /\ StoresKept
  BY <1>5, TypesStep DEF Types
<1>6. ASSUME NEW b \in Browsers,
             Logout(b) \/ \E i \in Idps : LogoutHere(b, i) \/ LogoutEverywhere(b, i)
      PROVE  StoresInv' /\ StoresKept
  BY <1>6, LogoutSteps
<1>7. ASSUME NEW b \in Browsers, Opens(b)
      PROVE  StoresInv' /\ StoresKept
  BY <1>7, OpenStores DEF Opens
<1>8. QED
  BY <1>1, <1>2, <1>3, <1>4, <1>5, <1>6, <1>7 DEF Next

LEMMA StoresInit == Init => StoresInv
<1> SUFFICES ASSUME Init
             PROVE  StoresInv
  OBVIOUS
<1>1. /\ clock = 1 /\ idp = [j \in Idps |-> Idp!EmptyIdp] /\ sp = Sp!EmptySp
      /\ cookie = [b \in Browsers |-> [site \in Sites |-> {}]]
      /\ tabs = [b \in Browsers |-> {}]
  BY DEF Init
<1>2. /\ DOMAIN Idp!EmptyIdp.pending = {} /\ DOMAIN Idp!EmptyIdp.logouts = {}
      /\ DOMAIN Sp!EmptySp.trackers = {} /\ DOMAIN Sp!EmptySp.logouts = {}
  BY DEF Idp!EmptyIdp, Sp!EmptySp, Idp!Store!Empty, Sp!Store!Empty
<1>3. FiniteStores
  BY <1>1, <1>2, FS_EmptySet DEF FiniteStores
<1>4. CookiesOfUsers /\ TabsServable /\ PendingServable
  BY <1>1, <1>2 DEF CookiesOfUsers, TabsServable, PendingServable, Sites
<1>5. QED
  BY <1>1, <1>3, <1>4 DEF StoresInv

-----------------------------------------------------------------------------
(* The theorems.                                                           *)

LEMMA InitKeeps == Init => AppInv
<1> SUFFICES ASSUME Init
             PROVE  AppInv
  OBVIOUS
<1>1. /\ idp = [j \in Idps |-> Idp!EmptyIdp] /\ sp = Sp!EmptySp
      /\ cookie = [b \in Browsers |-> [site \in Sites |-> {}]]
      /\ tabs = [b \in Browsers |-> {}]
      /\ count.logins = 0 /\ "logins" \in DOMAIN count
      /\ DOMAIN log = LogFields /\ log.started = {} /\ log.typed = {} /\ log.forced = {}
      /\ log.answers = {} /\ log.granted = <<>> /\ log.ended = {} /\ log.said = {}
      /\ log.opened = {}
  BY DEF Init, LogFields
<1>2. /\ DOMAIN Idp!EmptyIdp = {"sps", "pending", "logouts"} /\ DOMAIN Idp!EmptyIdp.pending = {}
      /\ DOMAIN Sp!EmptySp = {"providers", "trackers", "logouts", "replay"}
      /\ DOMAIN Sp!EmptySp.trackers = {}
  BY DEF Idp!EmptyIdp, Sp!EmptySp, Idp!Store!Empty, Sp!Store!Empty
<1>3. Shapes
  BY <1>1, <1>2, FS_EmptySet DEF Shapes
<1>4. CookiesEarned /\ TabsSound
  BY <1>1 DEF CookiesEarned, TabsSound, Sites
<1>5. PendingSound /\ GrantsFinal
  BY <1>1, <1>2 DEF PendingSound, GrantsFinal
<1>6. ForcedSound /\ AnswersSeen /\ PromptHonoured /\ StartsCounted
  BY <1>1 DEF ForcedSound, AnswersSeen, PromptHonoured, StartsCounted
<1>7. SessionEarned /\ SignedOutMeansPerformed
  BY <1>1 DEF SessionEarned, SignedOutMeansPerformed
<1>8. QED
  BY <1>3, <1>4, <1>5, <1>6, <1>7 DEF AppInv

LEMMA StepKeeps == AppInv /\ [Next]_vars => AppInv'
<1> SUFFICES ASSUME AppInv, [Next]_vars
             PROVE  AppInv'
  OBVIOUS
<1>1. CASE \/ Tick \/ (\E i \in Idps : StartIdp(i)) \/ (\E site \in Sites : Boots(site))
           \/ UNCHANGED vars
  BY <1>1, BootKeeps
<1>2. ASSUME NEW b \in Browsers, Ready, NEW n \in DOMAIN Providers, Login(b, n)
      PROVE  AppInv'
  BY <1>2, LoginKeeps
<1>3. ASSUME NEW b \in Browsers, NEW q \in OtherRequests, OtherLogin(b, q)
      PROVE  AppInv'
  BY <1>3, OtherLoginKeeps
<1>4. ASSUME NEW b \in Browsers, NEW again \in BOOLEAN, Follow(b, again)
      PROVE  AppInv'
  BY <1>4, SsoKeeps, ContinueKeeps, ConsumeAnswerKeeps, SloKeeps DEF Follow
<1>5. ASSUME NEW b \in Browsers, Types(b)
      PROVE  AppInv'
  BY <1>5, TypePasswordKeeps DEF Types
<1>6. ASSUME NEW b \in Browsers,
             Logout(b) \/ \E i \in Idps : LogoutHere(b, i) \/ LogoutEverywhere(b, i)
      PROVE  AppInv'
  BY <1>6, LogoutsKeep
<1>7. ASSUME NEW b \in Browsers, Opens(b)
      PROVE  AppInv'
  BY <1>7, OpenKeeps DEF Opens
<1>8. QED
  BY <1>1, <1>2, <1>3, <1>4, <1>5, <1>6, <1>7 DEF Next

(* The invariant holds in every deployment: whatever the browsers do, what *)
(* they carry is what a handler gave them for a login that was started, a  *)
(* request that was seen or a logout that was performed.                   *)
THEOREM ExampleInvariant == Spec => []AppInv
  BY InitKeeps, StepKeeps, PTL DEF Spec

(* Every session that handle_acs grants goes back to a login of that       *)
(* provider and to a password typed at its IdP, and no login ends in two.  *)
THEOREM AppSessionEarned == Spec => []SessionEarned
<1>1. AppInv => SessionEarned
  BY DEF AppInv
<1>2. QED
  BY <1>1, ExampleInvariant, PTL

(* A request with ForceAuthn is answered only by a password that was typed *)
(* after handle_sso first saw the request, unless a browser opened the     *)
(* continue page of that request by its address: finalize_continue does    *)
(* not look at the demand again.                                           *)
THEOREM AppPromptHonoured == Spec => []PromptHonoured
<1>1. AppInv => PromptHonoured
  BY DEF AppInv
<1>2. QED
  BY <1>1, ExampleInvariant, PTL

(* A "signed out everywhere" banner of the SP or of an IdP closes a logout *)
(* that the peer has performed.                                            *)
THEOREM AppSignedOutMeansPerformed == Spec => []SignedOutMeansPerformed
<1>1. AppInv => SignedOutMeansPerformed
  BY DEF AppInv
<1>2. QED
  BY <1>1, ExampleInvariant, PTL

(* What an application stores goes when it is answered, when it is stale   *)
(* or when the store is full: insert() and take() lose nothing else. An    *)
(* IdP never drops a request it could have answered, in any deployment     *)
(* whose SPs ask for what finalize_login issues.                           *)
THEOREM AppNothingForgotten == Servable => (Spec => NothingForgotten)
<1> SUFFICES ASSUME Servable
             PROVE  Spec => NothingForgotten
  OBVIOUS
<1>1. AppInv /\ StoresInv /\ [Next]_vars => AppInv' /\ StoresInv' /\ StoresKept
  BY StepKeeps, StoresStep
<1>2. Init => AppInv /\ StoresInv
  BY InitKeeps, StoresInit
<1>3. QED
  BY <1>1, <1>2, PTL DEF Spec, NothingForgotten, StoresKept

=============================================================================
