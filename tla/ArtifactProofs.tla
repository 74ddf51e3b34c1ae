---------------------------- MODULE ArtifactProofs ----------------------------
(***************************************************************************)
(* Proofs about the HTTP-Artifact binding, for any identity and service    *)
(* providers, resolution services, certificates and metadata over time,    *)
(* logins, calls and handlers, and any lifetime, skew and capacity.        *)
(***************************************************************************)
EXTENDS Artifact, WellFoundedInduction, TLAPS

-----------------------------------------------------------------------------
(* The inductive invariant.                                                *)

Shaped ==
  /\ clock \in Nat
  /\ idpmeta = [i \in Idp |-> idpmeta[i]] /\ \A i \in Idp : idpmeta[i] \in IdpMetadata[i]
  /\ spmeta = [s \in Provider |-> spmeta[s]] /\ \A s \in Provider : spmeta[s] \in SpMetadata[s]
  /\ tracker = [l \in Login |-> tracker[l]] /\ request = [l \in Login |-> request[l]]
  /\ issued = [h \in Handle |-> issued[h]] /\ handler = [g \in Handler |-> handler[g]]
  /\ call = [c \in Call |-> call[c]]

(* A tracker pins resolution services its IdP has published, and the       *)
(* request at the IdP is the one of its login.                             *)
Tracked(l, t) ==
  /\ t.request_id = l /\ t.sp \in Provider /\ t.idp \in Idp /\ t.acs = AcsOf(t.sp)
  /\ t.format = {} /\ t.requested = {}
  /\ \E d \in IdpMetadata[t.idp] : t.ars = d.ars

Requested(l, r) ==
  \E t \in tracker[l] : r.sp = t.sp /\ r.idp = t.idp /\ r.certs \in SpMetadata[r.sp]

Logins ==
  \A l \in Login :
    /\ \A t \in tracker[l] : tracker[l] = {t} /\ Tracked(l, t)
    /\ \A r \in request[l] : request[l] = {r} /\ Requested(l, r)

(* An artifact answers one request, and is bound to who made it.           *)
Answers(h, a) ==
  \E l \in Login : \E r \in request[l] :
    /\ Ars[r.idp] # <<>>
    /\ a.artifact = make_artifact(r.idp, h)
    /\ a.transaction = bind_artifact(r, a.artifact)
    /\ a.response.in_response_to = {l} /\ a.response.issuer = r.idp
    /\ a.response.url = r.sp /\ a.response.confirmed_until = a.response.not_on_or_after
    /\ a.response.session_end = {} /\ a.response.one_time_use = FALSE
    /\ a.response.name_id.format = "Transient" /\ a.response.not_on_or_after \in Nat

Bound == \A h \in Handle : \A a \in issued[h] : issued[h] = {a} /\ Answers(h, a)

(* What a resolution service lets through: the addressee's own request for *)
(* its artifact, under a key it was known by.                              *)
Entitled(q, a) ==
  /\ q.artifact = a.transaction.artifact /\ q.issuer = a.transaction.sp
  /\ q.sig \subseteq a.transaction.certs /\ (RequireSigned => q.sig # {})

(* A call is made by its SP with the tracker of one of its logins, on an   *)
(* artifact of the IdP of that login.                                      *)
Started(c, x) ==
  /\ x.sp = CallSp[c]
  /\ \E l \in Login : \E t \in tracker[l] :
       /\ x.tracker = {t} /\ t.sp = x.sp /\ x.idp = t.idp
       /\ x.artifact.source_id = t.idp /\ t.certs \cap x.roots # {}

Sent ==
  \A q \in resolves :
    /\ q.request_id \in Call /\ q.issue_instant \in Nat /\ q.issue_instant <= clock
    /\ \/ /\ q.by = "call" /\ call[q.request_id] # Idle
          /\ q.artifact = call[q.request_id].artifact
          /\ \E t \in call[q.request_id].tracker : \E e \in t.ars :
               e.url = q.destination
       \/ /\ q.by = "foreign"
          /\ q.sig # {} /\ q.sig \cap SpCerts[CallSp[q.request_id]] = {}

(* An answer carries what was issued under the artifact asked for.         *)
Carries(r, a) ==
  /\ Entitled(r.request, a)
  /\ r.in_response_to = r.request.request_id
  /\ r.artifact = a.artifact /\ r.payload = a.response /\ r.sig # {}

Answered ==
  \A r \in replies : r.request \in resolves /\ \E a \in Issued : Carries(r, a)

(* The hypotheses under which an answer completes a login.                 *)
Completes(c, x, r, t) ==
  /\ r.in_response_to = c /\ r.request.by = "call"
  /\ r.payload.in_response_to = {t.request_id}
  /\ {r.payload.cert} \cup r.sig \subseteq t.certs \cap x.roots
  /\ x.now < r.payload.not_on_or_after

(* A call is as it began but for its result; it accepts only what answers  *)
(* it, and whatever completes its login.                                   *)
CallOk(c, x) ==
  /\ x = [pc |-> x.pc, sp |-> x.sp, tracker |-> x.tracker, idp |-> x.idp,
          roots |-> x.roots, artifact |-> x.artifact, sign |-> x.sign,
          verify |-> x.verify, now |-> x.now, reply |-> x.reply]
  /\ Started(c, x) /\ x.now \in Nat /\ x.reply \subseteq replies
  /\ x.pc # "idle" /\ (x.pc = "resolving" => x.reply = {})
  /\ \A r \in x.reply :
       /\ x.pc = "accepted" =>
            /\ r.in_response_to = c /\ r.payload.url = x.sp /\ r.payload.issuer = x.idp
            /\ r.payload.in_response_to = TrackedRequest(x)
       /\ \A t \in x.tracker : Completes(c, x, r, t) => x.pc = "accepted"

Calls == \A c \in Call : call[c] # Idle => CallOk(c, call[c])

Key(q) == <<"ArtifactResolve", <<q.issuer, q.request_id>>>>
ExpiresAt(q) == q.issue_instant + Skew + 1

(* What a handler let through was entitled, is in the cache for as long as *)
(* it is fresh, and nothing else is; a request refused as a replay is      *)
(* preceded by one with the same key.                                      *)
Handlers ==
  /\ \A g \in Handler : handler[g] # Idle =>
       /\ handler[g] = [pc |-> handler[g].pc, idp |-> handler[g].idp,
                        request |-> handler[g].request, sp |-> handler[g].sp]
       /\ handler[g].request \in resolves
       /\ handler[g].pc \in {"accepted", "served", "gone", "ArtifactResolveReplay",
                             "ReplayCacheFull"}
       /\ \E a \in Issued : Entitled(handler[g].request, a)
  /\ \A g \in Handler : handler[g].pc = "ArtifactResolveReplay" =>
       \E h \in Authorised : Key(handler[h].request) = Key(handler[g].request)

Tombstones ==
  /\ \A g \in Authorised :
       LET q == handler[g].request IN
       clock < ExpiresAt(q) => Key(q) \in DOMAIN store /\ store[Key(q)] = ExpiresAt(q)
  /\ \A k \in DOMAIN store : \E g \in Authorised : k = Key(handler[g].request)

ArtifactInv ==
  /\ Shaped /\ Logins /\ Bound /\ Sent /\ Answered /\ Calls /\ Handlers /\ Tombstones
  /\ ResolveOnce

-----------------------------------------------------------------------------
(* The steps, by the variables they change.                                *)

LoginStarts == \E l \in Login, s \in Provider, i \in Idp : start_login(l, s, i)

RequestArrives == \E l \in Login : \E t \in tracker[l] : consume_authn_request(l, t)

ArtifactIssued ==
  \E l \in Login, h \in Handle : \E r \in request[l] : \E k :
    issue_response_with_artifact_transaction(l, r, h, k)

CallStarts ==
  \E c \in Call, i \in Idp, a \in Issued, verify \in Verify : \E sign :
    \E t \in {{}} \cup {tracker[l] : l \in Login} :
      /\ \A p \in t : p.sp = CallSp[c]
      /\ StartResolve(c, CallSp[c], t, i, a.artifact, sign, verify)

ForeignSent ==
  \E id \in Call : \E s, artifact, url : \E k \in AllSpCerts \ SpCerts[CallSp[id]] :
    ForeignResolve([request_id |-> id, issuer |-> s, artifact |-> artifact,
                    destination |-> url, issue_instant |-> clock, sig |-> {k},
                    by |-> "foreign"])

ResolveConsumed ==
  \E g \in Handler, i \in Idp, q \in resolves, s \in Provider, a \in Issued : \E url :
    consume_artifact_resolve(g, i, q, s, a.transaction, url)

AnswerTaken == \E g \in Handler : \E k : TakeAndAnswer(g, k)

CallFinishes == \E c \in Call, r \in replies : FinishResolve(c, r)

CallFails == \E c \in Call : ResolveFails(c)

Refreshed ==
  \/ \E i \in Idp : \E d \in IdpMetadata[i] : IdpMetadataRefresh(i, d)
  \/ \E s \in Provider : \E certs \in SpMetadata[s] : SpMetadataRefresh(s, certs)

LEMMA NextCases ==
  ASSUME [Next]_vars
  PROVE  \/ Tick \/ Refreshed \/ UNCHANGED vars
         \/ LoginStarts \/ RequestArrives \/ ArtifactIssued \/ CallStarts \/ ForeignSent
         \/ ResolveConsumed \/ AnswerTaken \/ CallFinishes \/ CallFails
<1>1. CASE \E c \in Call, i \in Idp, a \in Issued, verify \in Verify :
             \E sign \in Sign[CallSp[c]], t \in {{}} \cup {tracker[l] : l \in Login} :
               /\ \A p \in t : p.sp = CallSp[c]
               /\ StartResolve(c, CallSp[c], t, i, a.artifact, sign, verify)
  BY <1>1, Zenon DEF CallStarts
<1>2. CASE \E id \in Call, s \in Provider, a \in Issued :
             \E k \in AllSpCerts \ SpCerts[CallSp[id]],
                e \in ReceivingArs(a.artifact.source_id, a.artifact) :
               ForeignResolve([request_id |-> id, issuer |-> s, artifact |-> a.artifact,
                               destination |-> e.url, issue_instant |-> clock,
                               sig |-> {k}, by |-> "foreign"])
  BY <1>2, Zenon DEF ForeignSent
<1>3. CASE \E g \in Handler, i \in Idp, q \in resolves, s \in Provider, a \in Issued :
             \E n \in DOMAIN Ars[i] :
               consume_artifact_resolve(g, i, q, s, a.transaction, Ars[i][n].url)
  BY <1>3, Zenon DEF ResolveConsumed
<1>4. CASE \E g \in Handler : handler[g].pc = "accepted"
             /\ \E k \in IdpCerts[handler[g].idp] : TakeAndAnswer(g, k)
  BY <1>4, Zenon DEF AnswerTaken
<1>5. CASE \E l \in Login, h \in Handle : \E r \in request[l] : \E k \in IdpCerts[r.idp] :
             issue_response_with_artifact_transaction(l, r, h, k)
  BY <1>5, Zenon DEF ArtifactIssued
<1>6. QED
  BY <1>1, <1>2, <1>3, <1>4, <1>5, Zenon
     DEF Next, Refreshed, LoginStarts, RequestArrives, CallFinishes, CallFails

LEMMA Frames ==
  ASSUME [Next]_vars
  PROVE  /\ clock' = clock \/ Tick
         /\ UNCHANGED <<idpmeta, spmeta>> \/ Refreshed
         /\ tracker' = tracker \/ LoginStarts
         /\ request' = request \/ RequestArrives
         /\ issued' = issued \/ ArtifactIssued
         /\ resolves' = resolves \/ CallStarts \/ ForeignSent
         /\ store' = store \/ ResolveConsumed
         /\ handler' = handler \/ ResolveConsumed \/ AnswerTaken
         /\ replies' = replies \/ AnswerTaken
         /\ call' = call \/ CallStarts \/ CallFinishes \/ CallFails
<1>1. CASE Tick \/ Refreshed \/ UNCHANGED vars
  BY <1>1 DEF Tick, Refreshed, IdpMetadataRefresh, SpMetadataRefresh, vars
<1>2. CASE LoginStarts \/ RequestArrives \/ ArtifactIssued
  BY <1>2 DEF LoginStarts, RequestArrives, ArtifactIssued, start_login, consume_authn_request,
       issue_response_with_artifact_transaction
<1>3. CASE CallStarts \/ ForeignSent
  <2>1. ASSUME NEW c, NEW s, NEW t, NEW i, NEW artifact, NEW sign, NEW verify,
               StartResolve(c, s, t, i, artifact, sign, verify)
        PROVE  UNCHANGED <<clock, idpmeta, spmeta, tracker, request, issued, store, handler,
                           replies>>
    BY <2>1 DEF StartResolve
  <2>2. CASE CallStarts
    BY <2>1, <2>2 DEF CallStarts
  <2>3. CASE ForeignSent
    BY <2>3 DEF ForeignSent, ForeignResolve
  <2>4. QED
    BY <1>3, <2>2, <2>3
<1>4. CASE ResolveConsumed \/ AnswerTaken
  BY <1>4 DEF ResolveConsumed, AnswerTaken, consume_artifact_resolve, TakeAndAnswer
<1>5. CASE CallFinishes \/ CallFails
  BY <1>5 DEF CallFinishes, CallFails, FinishResolve, ResolveFails
<1>6. QED
  BY <1>1, <1>2, <1>3, <1>4, <1>5, NextCases

(* Nothing that was known is forgotten.                                    *)
LEMMA LoginsKept ==
  ASSUME Shaped, [Next]_vars
  PROVE  /\ clock' \in Nat /\ clock' >= clock
         /\ \A l \in Login : \A t \in tracker[l] : tracker'[l] = tracker[l]
         /\ \A l \in Login : \A r \in request[l] : request'[l] = request[l]
         /\ \A h \in Handle : \A a \in issued[h] : issued'[h] = issued[h]
         /\ \A a \in Issued : a \in Issued'
<1>1. clock' \in Nat /\ clock' >= clock
  BY Frames DEF Tick, Shaped
<1>2. \A l \in Login : \A t \in tracker[l] : tracker'[l] = tracker[l]
  <2>1. ASSUME NEW l \in Login, NEW s, NEW i, start_login(l, s, i)
        PROVE  \A m \in Login : \A t \in tracker[m] : tracker'[m] = tracker[m]
    <3>1. PICK new : tracker' = [tracker EXCEPT ![l] = new]
      BY <2>1 DEF start_login
    <3>2. tracker[l] = {}
      BY <2>1 DEF start_login
    <3>3. QED
      BY <3>1, <3>2 DEF Shaped
  <2>2. QED
    BY <2>1, Frames DEF LoginStarts
<1>3. \A l \in Login : \A r \in request[l] : request'[l] = request[l]
  <2>1. ASSUME NEW l \in Login, NEW t, consume_authn_request(l, t)
        PROVE  \A m \in Login : \A r \in request[m] : request'[m] = request[m]
    <3>1. PICK new : request' = [request EXCEPT ![l] = new]
      BY <2>1 DEF consume_authn_request
    <3>2. request[l] = {}
      BY <2>1 DEF consume_authn_request
    <3>3. QED
      BY <3>1, <3>2 DEF Shaped
  <2>2. QED
    BY <2>1, Frames DEF RequestArrives
<1>4. \A h \in Handle : \A a \in issued[h] : issued'[h] = issued[h]
  <2>1. ASSUME NEW l, NEW h \in Handle, NEW r, NEW k,
               issue_response_with_artifact_transaction(l, r, h, k)
        PROVE  \A g \in Handle : \A a \in issued[g] : issued'[g] = issued[g]
    <3>1. PICK new : issued' = [issued EXCEPT ![h] = new]
      BY <2>1 DEF issue_response_with_artifact_transaction
    <3>2. issued[h] = {}
      BY <2>1 DEF issue_response_with_artifact_transaction
    <3>3. QED
      BY <3>1, <3>2 DEF Shaped
  <2>2. QED
    BY <2>1, Frames DEF ArtifactIssued
<1>5. \A a \in Issued : a \in Issued'
  BY <1>4 DEF Issued
<1>6. QED
  BY <1>1, <1>2, <1>3, <1>4, <1>5

LEMMA StepShaped ==
  ASSUME Shaped, [Next]_vars
  PROVE  Shaped'
<1>1. /\ idpmeta' = [i \in Idp |-> idpmeta'[i]] /\ \A i \in Idp : idpmeta'[i] \in IdpMetadata[i]
      /\ spmeta' = [s \in Provider |-> spmeta'[s]]
      /\ \A s \in Provider : spmeta'[s] \in SpMetadata[s]
  BY Frames DEF Refreshed, IdpMetadataRefresh, SpMetadataRefresh, Shaped
<1>2. tracker' = [l \in Login |-> tracker'[l]]
  <2>1. tracker' = tracker \/ \E l, new : tracker' = [tracker EXCEPT ![l] = new]
    BY Frames DEF LoginStarts, start_login
  <2>2. QED
    BY <2>1 DEF Shaped
<1>3. request' = [l \in Login |-> request'[l]]
  <2>1. request' = request \/ \E l, new : request' = [request EXCEPT ![l] = new]
    BY Frames DEF RequestArrives, consume_authn_request
  <2>2. QED
    BY <2>1 DEF Shaped
<1>4. issued' = [h \in Handle |-> issued'[h]]
  <2>1. issued' = issued \/ \E h, new : issued' = [issued EXCEPT ![h] = new]
    BY Frames DEF ArtifactIssued, issue_response_with_artifact_transaction
  <2>2. QED
    BY <2>1 DEF Shaped
<1>5. handler' = [g \in Handler |-> handler'[g]]
  <2>1. handler' = handler \/ \E g, new : handler' = [handler EXCEPT ![g] = new]
    BY Frames DEF ResolveConsumed, consume_artifact_resolve, AnswerTaken, TakeAndAnswer
  <2>2. QED
    BY <2>1 DEF Shaped
<1>6. call' = [c \in Call |-> call'[c]]
  <2>1. ASSUME NEW c, NEW s, NEW t, NEW i, NEW artifact, NEW sign, NEW verify,
               StartResolve(c, s, t, i, artifact, sign, verify)
        PROVE  \E new : call' = [call EXCEPT ![c] = new]
    BY <2>1 DEF StartResolve
  <2>2. ASSUME NEW c, NEW r, FinishResolve(c, r)
        PROVE  \E new : call' = [call EXCEPT ![c] = new]
    BY <2>2 DEF FinishResolve
  <2>3. call' = call \/ \E c, new : call' = [call EXCEPT ![c] = new]
    BY <2>1, <2>2, Frames DEF CallStarts, CallFinishes, CallFails, ResolveFails
  <2>4. QED
    BY <2>3 DEF Shaped
<1>7. QED
  BY <1>1, <1>2, <1>3, <1>4, <1>5, <1>6, LoginsKept DEF Shaped

LEMMA StepLogins ==
  ASSUME Shaped, Logins, [Next]_vars
  PROVE  Logins'
<1>1. ASSUME NEW l \in Login, NEW t \in tracker'[l]
      PROVE  tracker'[l] = {t} /\ Tracked(l, t)
  <2>1. CASE tracker' = tracker
    BY <1>1, <2>1 DEF Logins
  <2>2. ASSUME NEW m \in Login, NEW s \in Provider, NEW i \in Idp, start_login(m, s, i)
        PROVE  tracker'[l] = {t} /\ Tracked(l, t)
    <3>1. PICK new : new = [request_id |-> m, issued_at |-> clock, sp |-> s, idp |-> i,
                            acs |-> AcsOf(s), certs |-> idpmeta[i].certs, ars |-> idpmeta[i].ars,
                            format |-> {}, requested |-> {}]
      OBVIOUS
    <3>2. tracker' = [tracker EXCEPT ![m] = {new}]
      BY <2>2, <3>1 DEF start_login
    <3>3. Tracked(m, new)
      BY <3>1 DEF Tracked, Shaped
    <3>4. tracker'[l] = IF l = m THEN {new} ELSE tracker[l]
      BY <3>2 DEF Shaped
    <3>5. QED
      BY <1>1, <3>3, <3>4 DEF Logins
  <2>3. QED
    BY <2>1, <2>2, Frames DEF LoginStarts
<1>2. ASSUME NEW l \in Login, NEW r, Requested(l, r)
      PROVE  Requested(l, r)'
  BY <1>2, LoginsKept DEF Requested
<1>3. ASSUME NEW l \in Login, NEW r \in request'[l]
      PROVE  request'[l] = {r} /\ Requested(l, r)'
  <2>1. CASE request' = request
    BY <1>2, <1>3, <2>1 DEF Logins
  <2>2. ASSUME NEW m \in Login, NEW t \in tracker[m], consume_authn_request(m, t)
        PROVE  request'[l] = {r} /\ Requested(l, r)'
    <3>1. PICK new : new = [sp |-> t.sp, idp |-> t.idp, certs |-> spmeta[t.sp]]
      OBVIOUS
    <3>2. request' = [request EXCEPT ![m] = {new}]
      BY <2>2, <3>1 DEF consume_authn_request
    <3>3. spmeta[t.sp] \in SpMetadata[t.sp]
      BY DEF Logins, Tracked, Shaped
    <3>4. Requested(m, new)
      BY <3>1, <3>3 DEF Requested
    <3>5. request'[l] = IF l = m THEN {new} ELSE request[l]
      BY <3>2 DEF Shaped
    <3>6. QED
      BY <1>2, <1>3, <3>4, <3>5 DEF Logins
  <2>3. QED
    BY <2>1, <2>2, Frames DEF RequestArrives
<1>4. QED
  BY <1>1, <1>3 DEF Logins

LEMMA StepBound ==
  ASSUME Shaped, Bound, [Next]_vars
  PROVE  Bound'
<1>1. ASSUME NEW h \in Handle, NEW a, Answers(h, a)
      PROVE  Answers(h, a)'
  BY <1>1, LoginsKept DEF Answers
<1>2. ASSUME NEW l \in Login, NEW h \in Handle, NEW r \in request[l], NEW k,
             issue_response_with_artifact_transaction(l, r, h, k)
      PROVE  Bound'
  <2>1. PICK a : a = issue_artifact(l, r, h, k)
    OBVIOUS
  <2>2. PICK payload : payload = IssuedPayload(l, r, h, k)
    OBVIOUS
  <2>3. /\ a.artifact = make_artifact(r.idp, h)
        /\ a.transaction = bind_artifact(r, make_artifact(r.idp, h)) /\ a.response = payload
    BY <2>1, <2>2 DEF issue_artifact
  <2>4. /\ payload.in_response_to = {l} /\ payload.issuer = r.idp /\ payload.url = r.sp
        /\ payload.confirmed_until = payload.not_on_or_after
        /\ payload.session_end = {} /\ payload.one_time_use = FALSE
        /\ payload.name_id.format = "Transient" /\ payload.not_on_or_after \in Nat
    BY <2>2, ArtifactAssumption DEF IssuedPayload, Shaped
  <2>5. Ars[r.idp] # <<>> /\ issued' = [issued EXCEPT ![h] = {a}]
    BY <1>2, <2>1 DEF issue_response_with_artifact_transaction
  <2>6. Answers(h, a)
    BY <2>3, <2>4, <2>5 DEF Answers
  <2>7. \A g \in Handle : issued'[g] = IF g = h THEN {a} ELSE issued[g]
    BY <2>5 DEF Shaped
  <2>8. QED
    BY <1>1, <2>6, <2>7 DEF Bound
<1>3. CASE issued' = issued
  BY <1>1, <1>3 DEF Bound
<1>4. QED
  BY <1>2, <1>3, Frames DEF ArtifactIssued

-----------------------------------------------------------------------------
(* The store operators.                                                    *)

(* The sweep keeps exactly the entries that expire after `now`, unchanged. *)
LEMMA SweepFacts ==
  ASSUME NEW s, NEW now
  PROVE  /\ DOMAIN Sweep(s, now) = {k \in DOMAIN s : s[k] > now}
         /\ \A k \in DOMAIN Sweep(s, now) : Sweep(s, now)[k] = s[k]
BY DEF Sweep

(* What one entry does to the store, by the answer.                        *)
Stored(s, e, now, capacity, new) ==
  /\ \A k \in DOMAIN s : s[k] > now => k \in DOMAIN new /\ new[k] = s[k]
  /\ \A k \in DOMAIN new : k = e.key \/ k \in DOMAIN s
  /\ Outcome(s, <<e>>, now, capacity) = "fresh" =>
       /\ e.key \in DOMAIN new /\ new[e.key] = e.expires_at
       /\ ~(e.key \in DOMAIN s /\ s[e.key] > now)
  /\ Outcome(s, <<e>>, now, capacity) # "fresh" => DOMAIN new \subseteq DOMAIN s
  /\ Outcome(s, <<e>>, now, capacity) = "seen" => e.key \in DOMAIN s

LEMMA StoreFacts ==
  ASSUME NEW s, NEW e, NEW now, NEW capacity, NEW new, new = StoreAfter(s, <<e>>, now, capacity)
  PROVE  Stored(s, e, now, capacity, new)
<1> DEFINE es == <<e>>
           kept == Sweep(s, now)
<1>1. DOMAIN es = {1} /\ es[1] = e /\ Keys(es) = {e.key}
  BY DEF Keys
<1>2. DOMAIN kept = {k \in DOMAIN s : s[k] > now} /\ \A k \in DOMAIN kept : kept[k] = s[k]
  BY SweepFacts
<1> HIDE DEF es, kept
<1>3. /\ Outcome(s, es, now, capacity) = "fresh" => e.key \notin DOMAIN kept
      /\ Outcome(s, es, now, capacity) = "seen" => e.key \in DOMAIN kept
  BY <1>1 DEF Outcome, Conflict, kept
<1>4. /\ DOMAIN Insert(kept, es) = DOMAIN kept \cup {e.key}
      /\ Insert(kept, es)[e.key] = e.expires_at
      /\ \A k \in DOMAIN kept \ {e.key} : Insert(kept, es)[k] = kept[k]
  BY <1>1 DEF Insert
<1>5. new = IF Outcome(s, es, now, capacity) = "fresh" THEN Insert(kept, es) ELSE kept
  BY DEF StoreAfter, kept, es
<1>6. CASE Outcome(s, es, now, capacity) = "fresh"
  <2>1. e.key \notin DOMAIN kept /\ ~(e.key \in DOMAIN s /\ s[e.key] > now)
    BY <1>2, <1>3, <1>6
  <2>2. DOMAIN new = DOMAIN kept \cup {e.key} /\ new[e.key] = e.expires_at
    BY <1>4, <1>5, <1>6
  <2>3. \A k \in DOMAIN kept : new[k] = s[k]
    BY <1>2, <1>4, <1>5, <1>6, <2>1
  <2>4. Outcome(s, <<e>>, now, capacity) = "fresh"
    BY <1>6 DEF es
  <2>5. QED
    BY <1>2, <2>1, <2>2, <2>3, <2>4 DEF Stored
<1>7. CASE Outcome(s, es, now, capacity) # "fresh"
  BY <1>2, <1>3, <1>5, <1>7 DEF es, Stored
<1>8. QED
  BY <1>6, <1>7

LEMMA OutcomeFacts ==
  ASSUME NEW s, NEW es, NEW now, NEW capacity
  PROVE  /\ Outcome(s, es, now, capacity) \in {"fresh", "seen", "full"}
         /\ CacheVerdict("fresh", "ArtifactResolveReplay") = "accepted"
         /\ CacheVerdict("seen", "ArtifactResolveReplay") = "ArtifactResolveReplay"
         /\ CacheVerdict("full", "ArtifactResolveReplay") = "ReplayCacheFull"
BY DEF Outcome, CacheVerdict

-----------------------------------------------------------------------------
(* Calls, requests, answers and authorisations are not taken back.         *)

LEMMA BothOk ==
  ASSUME NEW a, NEW b
  PROVE  (a && b) = "Ok" <=> a = "Ok" /\ b = "Ok"
BY DEF &&

LEMMA MessagesKept ==
  ASSUME [Next]_vars
  PROVE  resolves \subseteq resolves' /\ replies \subseteq replies'
<1>1. ASSUME NEW c, NEW s, NEW t, NEW i, NEW artifact, NEW sign, NEW verify,
             StartResolve(c, s, t, i, artifact, sign, verify)
      PROVE  resolves \subseteq resolves'
  BY <1>1 DEF StartResolve
<1>2. resolves \subseteq resolves'
  BY <1>1, Frames DEF CallStarts, ForeignSent, ForeignResolve
<1>3. replies \subseteq replies'
  BY Frames DEF AnswerTaken, TakeAndAnswer
<1>4. QED
  BY <1>2, <1>3

(* A started call keeps everything but its result and the answer it took.  *)
Resumed(x, y) == \E pc, reply : y = [x EXCEPT !.pc = pc, !.reply = reply]

LEMMA CallsKept ==
  ASSUME Shaped, Calls, [Next]_vars, NEW c \in Call, call[c] # Idle
  PROVE  call'[c] # Idle /\ Resumed(call[c], call'[c])
<1>1. call[c].pc # "idle"
      /\ call[c] = [pc |-> call[c].pc, sp |-> call[c].sp, tracker |-> call[c].tracker,
                    idp |-> call[c].idp, roots |-> call[c].roots, artifact |-> call[c].artifact,
                    sign |-> call[c].sign, verify |-> call[c].verify, now |-> call[c].now,
                    reply |-> call[c].reply]
  BY DEF Calls, CallOk
<1>2. \A y : Resumed(call[c], y) => y # Idle
  BY <1>1 DEF Resumed, Idle
<1>3. CASE call'[c] = call[c]
  <2>1. call[c] = [call[c] EXCEPT !.pc = call[c].pc, !.reply = call[c].reply]
    BY <1>1
  <2>2. QED
    BY <1>2, <1>3, <2>1 DEF Resumed
<1>4. CASE CallStarts
  <2>1. ASSUME NEW d, NEW s, NEW t, NEW i, NEW artifact, NEW sign, NEW verify,
               StartResolve(d, s, t, i, artifact, sign, verify)
        PROVE  call'[c] = call[c]
    <3>1. PICK new : call' = [call EXCEPT ![d] = new]
      BY <2>1 DEF StartResolve
    <3>2. d # c
      BY <1>1, <2>1 DEF StartResolve
    <3>3. QED
      BY <3>1, <3>2 DEF Shaped
  <2>2. QED
    BY <1>3, <1>4, <2>1 DEF CallStarts
<1>5. CASE CallFinishes
  <2>1. PICK d, pc, reply : call' = [call EXCEPT ![d].pc = pc, ![d].reply = reply]
    BY <1>5 DEF CallFinishes, FinishResolve
  <2>2. call'[c] = IF c = d THEN [call[c] EXCEPT !.pc = pc, !.reply = reply] ELSE call[c]
    BY <2>1 DEF Shaped
  <2>3. QED
    BY <1>2, <1>3, <2>2 DEF Resumed
<1>6. CASE CallFails
  <2>1. PICK d, pc : call' = [call EXCEPT ![d].pc = pc]
    BY <1>6 DEF CallFails, ResolveFails
  <2>2. call'[c] = IF c = d THEN [call[c] EXCEPT !.pc = pc] ELSE call[c]
    BY <2>1 DEF Shaped
  <2>3. [call[c] EXCEPT !.pc = pc] = [call[c] EXCEPT !.pc = pc, !.reply = call[c].reply]
    BY <1>1
  <2>4. QED
    BY <1>2, <1>3, <2>2, <2>3 DEF Resumed
<1>7. QED
  BY <1>3, <1>4, <1>5, <1>6, Frames

LEMMA ResumedFacts ==
  ASSUME Calls, NEW c \in Call, call[c] # Idle, NEW y, Resumed(call[c], y)
  PROVE  /\ y.sp = call[c].sp /\ y.tracker = call[c].tracker /\ y.idp = call[c].idp
         /\ y.roots = call[c].roots /\ y.artifact = call[c].artifact /\ y.now = call[c].now
         /\ y.verify = call[c].verify
         /\ y = [pc |-> y.pc, sp |-> y.sp, tracker |-> y.tracker, idp |-> y.idp,
                 roots |-> y.roots, artifact |-> y.artifact, sign |-> y.sign,
                 verify |-> y.verify, now |-> y.now, reply |-> y.reply]
<1>1. PICK pc, reply : y = [call[c] EXCEPT !.pc = pc, !.reply = reply]
  BY DEF Resumed
<1>2. call[c] = [pc |-> call[c].pc, sp |-> call[c].sp, tracker |-> call[c].tracker,
                 idp |-> call[c].idp, roots |-> call[c].roots, artifact |-> call[c].artifact,
                 sign |-> call[c].sign, verify |-> call[c].verify, now |-> call[c].now,
                 reply |-> call[c].reply]
  BY DEF Calls, CallOk
<1>3. y = [pc |-> pc, sp |-> call[c].sp, tracker |-> call[c].tracker,
           idp |-> call[c].idp, roots |-> call[c].roots, artifact |-> call[c].artifact,
           sign |-> call[c].sign, verify |-> call[c].verify, now |-> call[c].now,
           reply |-> reply]
  BY <1>1, <1>2
<1>4. QED
  BY <1>3

(* An authorisation stands, and so does what it was for.                   *)
LEMMA HandlersKept ==
  ASSUME Shaped, Handlers, [Next]_vars, NEW g \in Handler, handler[g] # Idle
  PROVE  /\ \E pc : handler'[g] = [handler[g] EXCEPT !.pc = pc]
         /\ handler'[g].request = handler[g].request
         /\ g \in Authorised' <=> g \in Authorised
         /\ handler'[g].pc = "ArtifactResolveReplay" <=> handler[g].pc = "ArtifactResolveReplay"
         /\ handler'[g].pc \in {"accepted", "served", "gone", "ArtifactResolveReplay",
                                "ReplayCacheFull"}
<1>1. /\ handler[g].pc \in {"accepted", "served", "gone", "ArtifactResolveReplay",
                            "ReplayCacheFull"}
      /\ handler[g] = [pc |-> handler[g].pc, idp |-> handler[g].idp,
                       request |-> handler[g].request, sp |-> handler[g].sp]
  BY DEF Handlers
<1>2. CASE handler' = handler
  <2>1. handler[g] = [handler[g] EXCEPT !.pc = handler[g].pc]
    BY <1>1
  <2>2. QED
    BY <1>1, <1>2, <2>1 DEF Authorised
<1>3. CASE ResolveConsumed
  <2>1. PICK f, new : handler' = [handler EXCEPT ![f] = new] /\ handler[f].pc = "idle"
    BY <1>3 DEF ResolveConsumed, consume_artifact_resolve
  <2>2. handler'[g] = handler[g]
    BY <1>1, <2>1 DEF Shaped
  <2>3. handler[g] = [handler[g] EXCEPT !.pc = handler[g].pc]
    BY <1>1
  <2>4. QED
    BY <1>1, <2>2, <2>3 DEF Authorised
<1>4. CASE AnswerTaken
  <2>1. PICK f, pc : handler' = [handler EXCEPT ![f].pc = pc] /\ handler[f].pc = "accepted"
                    /\ pc \in {"gone", "served"}
    BY <1>4 DEF AnswerTaken, TakeAndAnswer
  <2>2. handler'[g] = IF g = f THEN [handler[g] EXCEPT !.pc = pc] ELSE handler[g]
    BY <2>1 DEF Shaped
  <2>3. CASE g = f
    <3>1. handler'[g] = [handler[g] EXCEPT !.pc = pc]
      BY <2>2, <2>3
    <3>2. handler'[g].pc = pc /\ handler'[g].request = handler[g].request
      BY <1>1, <3>1
    <3>3. g \in Authorised /\ g \in Authorised'
      BY <2>1, <2>3, <3>2 DEF Authorised
    <3>4. QED
      BY <2>1, <2>3, <3>1, <3>2, <3>3
  <2>4. CASE g # f
    <3>1. handler'[g] = handler[g]
      BY <2>2, <2>4
    <3>2. handler[g] = [handler[g] EXCEPT !.pc = handler[g].pc]
      BY <1>1
    <3>3. QED
      BY <1>1, <3>1, <3>2 DEF Authorised
  <2>5. QED
    BY <2>3, <2>4
<1>5. QED
  BY <1>2, <1>3, <1>4, Frames

-----------------------------------------------------------------------------
(* The two service providers' side of a resolve request, and its answer.   *)

LEMMA StepSent ==
  ASSUME Shaped, Calls, Sent, [Next]_vars
  PROVE  Sent'
<1>1. ASSUME NEW q \in resolves
      PROVE  /\ q.request_id \in Call /\ q.issue_instant \in Nat /\ q.issue_instant <= clock'
             /\ \/ /\ q.by = "call" /\ call'[q.request_id] # Idle
                   /\ q.artifact = call'[q.request_id].artifact
                   /\ \E t \in call'[q.request_id].tracker : \E e \in t.ars :
                        e.url = q.destination
                \/ /\ q.by = "foreign"
                   /\ q.sig # {} /\ q.sig \cap SpCerts[CallSp[q.request_id]] = {}
  <2>1. q.request_id \in Call /\ q.issue_instant \in Nat /\ q.issue_instant <= clock'
    BY LoginsKept DEF Sent, Shaped
  <2>2. CASE q.by = "call" /\ call[q.request_id] # Idle
    <3>1. /\ call'[q.request_id] # Idle
          /\ call'[q.request_id].artifact = call[q.request_id].artifact
          /\ call'[q.request_id].tracker = call[q.request_id].tracker
      BY <2>1, <2>2, CallsKept, ResumedFacts
    <3>2. QED
      BY <2>1, <2>2, <3>1 DEF Sent
  <2>3. QED
    BY <2>1, <2>2 DEF Sent
<1>2. CASE resolves' = resolves
  BY <1>1, <1>2 DEF Sent
<1>3. ASSUME NEW c \in Call, NEW s, NEW i, NEW t, NEW artifact, NEW sign, NEW verify,
             StartResolve(c, s, t, i, artifact, sign, verify)
      PROVE  Sent'
  <2>1. PICK x : x = ConsumeArtifactResponse(s, t, i, artifact, sign, verify)
    OBVIOUS
  <2>2. call' = [call EXCEPT ![c] = x]
    BY <1>3, <2>1 DEF StartResolve
  <2>3. call'[c] = x
    BY <2>2 DEF Shaped
  <2>4. x # Idle /\ x.artifact = artifact /\ x.tracker = t
    BY <2>1 DEF ConsumeArtifactResponse, Idle
  <2>5. PICK p \in t : \E e \in PinnedArs(p, artifact) :
          resolves' = resolves \cup {build_artifact_resolve(x, c, e.url)}
    BY <1>3, <2>1 DEF StartResolve
  <2>6. PICK e \in PinnedArs(p, artifact) :
          resolves' = resolves \cup {build_artifact_resolve(x, c, e.url)}
    BY <2>5
  <2>7. PICK q : q = build_artifact_resolve(x, c, e.url)
    OBVIOUS
  <2>8. /\ q.request_id = c /\ q.issue_instant = clock /\ q.by = "call"
        /\ q.artifact = artifact /\ q.destination = e.url
    BY <2>4, <2>7 DEF build_artifact_resolve
  <2>9. e \in p.ars
    BY DEF PinnedArs
  <2>10. clock' = clock /\ clock \in Nat
    BY <1>3 DEF StartResolve, Shaped
  <2>11. QED
    BY <1>1, <2>3, <2>4, <2>6, <2>7, <2>8, <2>9, <2>10 DEF Sent
<1>4. CASE ForeignSent
  <2>1. PICK id \in Call : \E s, artifact, url : \E k \in AllSpCerts \ SpCerts[CallSp[id]] :
          ForeignResolve([request_id |-> id, issuer |-> s, artifact |-> artifact,
                          destination |-> url, issue_instant |-> clock, sig |-> {k},
                          by |-> "foreign"])
    BY <1>4, Zenon DEF ForeignSent
  <2>2. PICK s, artifact, url : \E k \in AllSpCerts \ SpCerts[CallSp[id]] :
          ForeignResolve([request_id |-> id, issuer |-> s, artifact |-> artifact,
                          destination |-> url, issue_instant |-> clock, sig |-> {k},
                          by |-> "foreign"])
    BY <2>1, Zenon
  <2>3. PICK k \in AllSpCerts \ SpCerts[CallSp[id]] :
          ForeignResolve([request_id |-> id, issuer |-> s, artifact |-> artifact,
                          destination |-> url, issue_instant |-> clock, sig |-> {k},
                          by |-> "foreign"])
    BY <2>2, Zenon
  <2>4. PICK q : q = [request_id |-> id, issuer |-> s, artifact |-> artifact,
                      destination |-> url, issue_instant |-> clock, sig |-> {k},
                      by |-> "foreign"]
    OBVIOUS
  <2>5. resolves' = resolves \cup {q} /\ clock' = clock
    BY <2>3, <2>4 DEF ForeignResolve
  <2>6. /\ q.request_id = id /\ q.issue_instant = clock /\ q.by = "foreign"
        /\ q.sig # {} /\ q.sig \cap SpCerts[CallSp[id]] = {}
    BY <2>4
  <2>7. clock \in Nat
    BY DEF Shaped
  <2>8. QED
    BY <1>1, <2>5, <2>6, <2>7 DEF Sent
<1>5. QED
  BY <1>2, <1>3, <1>4, Frames DEF CallStarts

LEMMA StepAnswered ==
  ASSUME Shaped, Bound, Handlers, Answered, [Next]_vars
  PROVE  Answered'
<1>1. ASSUME NEW r \in replies
      PROVE  r.request \in resolves' /\ \E a \in Issued' : Carries(r, a)
  BY MessagesKept, LoginsKept DEF Answered
<1>2. CASE replies' = replies
  BY <1>1, <1>2 DEF Answered
<1>3. ASSUME NEW g \in Handler, NEW k, TakeAndAnswer(g, k)
      PROVE  Answered'
  <2>1. PICK q, h : q = handler[g].request /\ h = q.artifact.message_handle
    OBVIOUS
  <2>2. handler[g] # Idle
    BY <1>3 DEF TakeAndAnswer, Idle
  <2>3. PICK b \in Issued : Entitled(q, b)
    BY <2>1, <2>2 DEF Handlers
  <2>4. PICK n \in Handle : b \in issued[n]
    BY DEF Issued
  <2>5. issued[n] = {b} /\ Answers(n, b)
    BY <2>4 DEF Bound
  <2>6. b.artifact.message_handle = n /\ b.transaction.artifact = b.artifact
    BY <2>5 DEF Answers, make_artifact, bind_artifact
  <2>7. h = n
    BY <2>1, <2>3, <2>6 DEF Entitled
  <2>8. replies' = replies \cup
          {build_artifact_response(q, a, k) : a \in {a \in issued[h] : h \notin taken}}
    BY <1>3, <2>1 DEF TakeAndAnswer
  <2>9. replies' \subseteq replies \cup {build_artifact_response(q, b, k)}
    BY <2>5, <2>7, <2>8
  <2>10. PICK r : r = build_artifact_response(q, b, k)
    OBVIOUS
  <2>11. Carries(r, b) /\ r.request = q
    BY <2>3, <2>10 DEF Carries, build_artifact_response
  <2>12. q \in resolves
    BY <2>1, <2>2 DEF Handlers
  <2>13. b \in Issued' /\ q \in resolves'
    BY <2>12, MessagesKept, LoginsKept
  <2>14. QED
    BY <1>1, <2>9, <2>10, <2>11, <2>13 DEF Answered
<1>4. QED
  BY <1>2, <1>3, Frames DEF AnswerTaken

-----------------------------------------------------------------------------
(* What consume_artifact_resolve authorises.                               *)

LEMMA VerdictEntitles ==
  ASSUME NEW i, NEW q, NEW s, NEW a, NEW url,
         ResolveVerdict(i, q, s, a.transaction, url) = "Ok"
  PROVE  Entitled(q, a) /\ ~ResolveExpired(q)
<1> DEFINE tr == a.transaction
<1>1. /\ Reject(q.issuer # tr.sp, "IssuerMismatch") = "Ok"
      /\ Reject(q.artifact # tr.artifact, "MalformedArtifact") = "Ok"
      /\ Reject(ResolveExpired(q), "Expired") = "Ok"
      /\ ResolveSignature(q, s, tr) = "Ok"
  <2> DEFINE place ==
         Reject(tr.artifact.source_id # i, "MalformedArtifact")
      && Reject(ReceivingArs(i, tr.artifact) = {}, "MalformedArtifact")
      && Reject(\E e \in ReceivingArs(i, tr.artifact) : e.url # url, "InvalidConfiguration")
      && Reject(q.issuer # s, "IssuerMismatch")
  <2> DEFINE asked == place && Reject(q.issuer # tr.sp, "IssuerMismatch")
                            && Reject(q.artifact # tr.artifact, "MalformedArtifact")
  <2>1. ResolveVerdict(i, q, s, tr, url) =
          (((asked && Reject(q.destination # url, "DestinationMismatch"))
            && Reject(ResolveExpired(q), "Expired")) && ResolveSignature(q, s, tr))
    BY DEF ResolveVerdict
  <2> HIDE DEF place
  <2>2. asked = "Ok" => /\ Reject(q.issuer # tr.sp, "IssuerMismatch") = "Ok"
                        /\ Reject(q.artifact # tr.artifact, "MalformedArtifact") = "Ok"
    BY BothOk
  <2> HIDE DEF asked
  <2>3. QED
    BY <2>1, <2>2, BothOk
<1>2. q.issuer = tr.sp /\ q.artifact = tr.artifact /\ ~ResolveExpired(q)
  BY <1>1 DEF Reject
<1>3. q.sig \subseteq tr.certs /\ (RequireSigned => q.sig # {})
  <2>1. CASE q.sig = {}
    BY <1>1, <2>1 DEF ResolveSignature, Reject
  <2>2. CASE q.sig # {}
    <3>1. Reject(~(q.sig \subseteq pinned_sp_certs(s, tr)), "SignatureVerification") = "Ok"
      BY <1>1, <2>2, BothOk DEF ResolveSignature
    <3>2. q.sig \subseteq pinned_sp_certs(s, tr)
      BY <3>1 DEF Reject
    <3>3. QED
      BY <2>2, <3>2 DEF pinned_sp_certs
  <2>3. QED
    BY <2>1, <2>2
<1>4. QED
  BY <1>2, <1>3 DEF Entitled

(* One consume_artifact_resolve: the request it was about, and the three   *)
(* things that can come of it.                                             *)
Consumed(g, q, e) ==
  /\ g \in Handler /\ handler[g].pc = "idle" /\ q \in resolves
  /\ (\E a \in Issued : Entitled(q, a)) /\ ~ResolveExpired(q)
  /\ e.key = Key(q) /\ e.expires_at = ExpiresAt(q)
  /\ store' = StoreAfter(store, <<e>>, clock, Capacity)
  /\ handler'[g].request = q
  /\ handler'[g] = [pc |-> handler'[g].pc, idp |-> handler'[g].idp,
                    request |-> q, sp |-> handler'[g].sp]
  /\ handler'[g].pc = CacheVerdict(Outcome(store, <<e>>, clock, Capacity),
                                   "ArtifactResolveReplay")
  /\ \A h \in Handler \ {g} : handler'[h] = handler[h]
  /\ UNCHANGED <<clock, issued, resolves, request>>

LEMMA ConsumedFacts ==
  ASSUME Shaped, ResolveConsumed
  PROVE  \E g, q, e : Consumed(g, q, e)
<1>1. PICK g \in Handler, i \in Idp, q \in resolves, s \in Provider, a \in Issued :
        \E url : consume_artifact_resolve(g, i, q, s, a.transaction, url)
  BY DEF ResolveConsumed
<1>2. PICK url : consume_artifact_resolve(g, i, q, s, a.transaction, url)
  BY <1>1
<1>3. PICK e : e = ResolveEntry(q, a.transaction)
  OBVIOUS
<1>4. PICK new : new = [pc |-> CacheVerdict(Outcome(store, <<e>>, clock, Capacity),
                                           "ArtifactResolveReplay"),
                        idp |-> i, request |-> q, sp |-> a.transaction.sp]
  OBVIOUS
<1>5. /\ handler[g].pc = "idle"
      /\ ResolveVerdict(i, q, s, a.transaction, url) = "Ok"
      /\ store' = StoreAfter(store, <<e>>, clock, Capacity)
      /\ handler' = [handler EXCEPT ![g] = new]
      /\ UNCHANGED <<clock, issued, resolves, request>>
  BY <1>2, <1>3, <1>4 DEF consume_artifact_resolve
<1>6. Entitled(q, a) /\ ~ResolveExpired(q)
  BY <1>5, VerdictEntitles
<1>7. e.key = Key(q) /\ e.expires_at = ExpiresAt(q)
  BY <1>3, <1>6 DEF ResolveEntry, ReplayEntry, Key, ExpiresAt, Entitled
<1>8. handler'[g] = new /\ \A h \in Handler \ {g} : handler'[h] = handler[h]
  BY <1>5 DEF Shaped
<1>9. /\ new.pc = CacheVerdict(Outcome(store, <<e>>, clock, Capacity), "ArtifactResolveReplay")
      /\ new.request = q
      /\ new = [pc |-> new.pc, idp |-> new.idp, request |-> q, sp |-> new.sp]
  BY <1>4
<1>10. Consumed(g, q, e)
  BY <1>5, <1>6, <1>7, <1>8, <1>9 DEF Consumed
<1>11. QED
  BY <1>10

LEMMA StepHandlers ==
  ASSUME Shaped, Handlers, Tombstones, [Next]_vars
  PROVE  Handlers'
<1> DEFINE Authorises(g) ==
      /\ handler[g] = [pc |-> handler[g].pc, idp |-> handler[g].idp,
                       request |-> handler[g].request, sp |-> handler[g].sp]
      /\ handler[g].request \in resolves
      /\ handler[g].pc \in {"accepted", "served", "gone", "ArtifactResolveReplay",
                            "ReplayCacheFull"}
      /\ \E a \in Issued : Entitled(handler[g].request, a)
<1>1. ASSUME NEW g \in Handler, handler[g] # Idle
      PROVE  Authorises(g)'
  <2>1. PICK pc : handler'[g] = [handler[g] EXCEPT !.pc = pc]
    BY <1>1, HandlersKept
  <2>2. handler[g] = [pc |-> handler[g].pc, idp |-> handler[g].idp,
                      request |-> handler[g].request, sp |-> handler[g].sp]
    BY <1>1 DEF Handlers
  <2>3. handler'[g] = [pc |-> pc, idp |-> handler[g].idp,
                       request |-> handler[g].request, sp |-> handler[g].sp]
    BY <2>1, <2>2
  <2>4. handler'[g] = [pc |-> handler'[g].pc, idp |-> handler'[g].idp,
                       request |-> handler'[g].request, sp |-> handler'[g].sp]
    BY <2>3
  <2>5. /\ handler'[g].request = handler[g].request
        /\ handler'[g].pc \in {"accepted", "served", "gone", "ArtifactResolveReplay",
                               "ReplayCacheFull"}
    BY <1>1, HandlersKept
  <2>6. handler[g].request \in resolves /\ \E a \in Issued : Entitled(handler[g].request, a)
    BY <1>1 DEF Handlers
  <2>7. QED
    BY <2>4, <2>5, <2>6, MessagesKept, LoginsKept
<1>2. ASSUME NEW g \in Handler, handler[g].pc = "ArtifactResolveReplay"
      PROVE  \E h \in Authorised' : Key(handler'[h].request) = Key(handler'[g].request)
  <2>1. handler[g] # Idle
    BY <1>2 DEF Idle
  <2>2. PICK h \in Authorised : Key(handler[h].request) = Key(handler[g].request)
    BY <1>2 DEF Handlers
  <2>3. h \in Handler /\ handler[h] # Idle
    BY DEF Authorised, Idle
  <2>4. QED
    BY <2>1, <2>2, <2>3, HandlersKept
<1>3. CASE handler' = handler \/ AnswerTaken
  <2>1. ASSUME NEW g \in Handler, handler[g] = Idle
        PROVE  handler'[g] = Idle
    <3>1. CASE AnswerTaken
      <4>1. PICK f, pc : handler' = [handler EXCEPT ![f].pc = pc] /\ handler[f].pc = "accepted"
        BY <3>1 DEF AnswerTaken, TakeAndAnswer
      <4>2. f # g
        BY <2>1, <4>1 DEF Idle
      <4>3. QED
        BY <2>1, <4>1, <4>2 DEF Shaped
    <3>2. QED
      BY <1>3, <2>1, <3>1
  <2>2. \A g \in Handler : handler'[g] # Idle => Authorises(g)'
    BY <1>1, <2>1
  <2>3. ASSUME NEW g \in Handler, handler'[g].pc = "ArtifactResolveReplay"
        PROVE  \E h \in Authorised' : Key(handler'[h].request) = Key(handler'[g].request)
    <3>1. handler[g] # Idle
      BY <2>1, <2>3 DEF Idle
    <3>2. QED
      BY <1>2, <2>3, <3>1, HandlersKept
  <2>4. QED
    BY <2>2, <2>3 DEF Handlers
<1>4. CASE ResolveConsumed
  <2>1. PICK f, q, e : Consumed(f, q, e)
    BY <1>4, ConsumedFacts
  <2>2. f \in Handler /\ handler'[f].request = q /\ \A h \in Handler \ {f} : handler'[h] = handler[h]
    BY <2>1 DEF Consumed
  <2>3. PICK outcome : /\ outcome = Outcome(store, <<e>>, clock, Capacity)
                       /\ handler'[f].pc = CacheVerdict(outcome, "ArtifactResolveReplay")
    BY <2>1 DEF Consumed
  <2>4. /\ outcome \in {"fresh", "seen", "full"}
        /\ outcome = "fresh" => handler'[f].pc = "accepted"
        /\ outcome = "seen" => handler'[f].pc = "ArtifactResolveReplay"
        /\ outcome = "full" => handler'[f].pc = "ReplayCacheFull"
    BY <2>3, OutcomeFacts
  <2>5. Authorises(f)'
    BY <2>1, <2>2, <2>4, MessagesKept, LoginsKept DEF Consumed
  <2>6. \A g \in Handler : handler'[g] # Idle => Authorises(g)'
    BY <1>1, <2>2, <2>5
  <2>7. ASSUME NEW g \in Handler, handler'[g].pc = "ArtifactResolveReplay"
        PROVE  \E h \in Authorised' : Key(handler'[h].request) = Key(handler'[g].request)
    <3>1. CASE g # f
      BY <1>2, <2>2, <2>7, <3>1
    <3>2. CASE g = f
      <4>1. outcome = "seen"
        BY <2>4, <2>7, <3>2
      <4>2. e.key \in DOMAIN store /\ e.key = Key(q)
        <5>1. PICK new : new = StoreAfter(store, <<e>>, clock, Capacity)
          OBVIOUS
        <5>2. Stored(store, e, clock, Capacity, new)
          BY <5>1, StoreFacts
        <5>3. QED
          BY <2>1, <2>3, <4>1, <5>2 DEF Stored, Consumed
      <4>3. PICK h \in Authorised : e.key = Key(handler[h].request)
        BY <4>2 DEF Tombstones
      <4>4. h \in Handler /\ handler[h] # Idle
        BY DEF Authorised, Idle
      <4>5. QED
        BY <2>2, <3>2, <4>2, <4>3, <4>4, HandlersKept
    <3>3. QED
      BY <3>1, <3>2
  <2>8. QED
    BY <2>6, <2>7 DEF Handlers
<1>5. QED
  BY <1>3, <1>4, Frames

(* Every authorisation of a request that is still fresh has its tombstone, *)
(* and the cache holds no other; a second authorisation would find it.     *)
LEMMA StepTombstones ==
  ASSUME Shaped, Sent, Handlers, Tombstones, ResolveOnce, [Next]_vars
  PROVE  Tombstones' /\ ResolveOnce'
<1> DEFINE Kept(q) == clock < ExpiresAt(q) =>
                        Key(q) \in DOMAIN store /\ store[Key(q)] = ExpiresAt(q)
<1>1. ASSUME NEW g \in Authorised
      PROVE  /\ g \in Handler /\ handler[g] # Idle /\ handler[g].request \in resolves
             /\ Kept(handler[g].request)
             /\ g \in Authorised' /\ handler'[g].request = handler[g].request
  <2>1. g \in Handler /\ handler[g] # Idle
    BY DEF Authorised, Idle
  <2>2. QED
    BY <2>1, HandlersKept DEF Handlers, Tombstones
<1>2. \A q \in resolves : ExpiresAt(q) \in Nat
  BY ArtifactAssumption DEF ExpiresAt, Sent
<1>3. CASE ~ResolveConsumed
  <2>1. store' = store
    BY <1>3, Frames
  <2>2. ASSUME NEW g \in Authorised'
        PROVE  g \in Authorised
    <3>1. CASE handler[g] = Idle
      <4>1. CASE handler' = handler
        BY <2>2, <4>1 DEF Authorised
      <4>2. CASE AnswerTaken
        <5>1. PICK f, pc : handler' = [handler EXCEPT ![f].pc = pc] /\ handler[f].pc = "accepted"
          BY <4>2 DEF AnswerTaken, TakeAndAnswer
        <5>2. f # g
          BY <3>1, <5>1 DEF Idle
        <5>3. handler'[g] = handler[g]
          BY <2>2, <5>1, <5>2 DEF Shaped, Authorised
        <5>4. QED
          BY <2>2, <5>3 DEF Authorised
      <4>3. QED
        BY <1>3, <4>1, <4>2, Frames
    <3>2. CASE handler[g] # Idle
      BY <2>2, <3>2, HandlersKept DEF Authorised
    <3>3. QED
      BY <3>1, <3>2
  <2>3. ASSUME NEW g \in Authorised'
        PROVE  Kept(handler[g].request)'
    <3>1. g \in Authorised
      BY <2>2, <2>3
    <3>2. PICK q : q = handler[g].request
      OBVIOUS
    <3>3. handler'[g].request = q /\ q \in resolves /\ Kept(q)
      BY <1>1, <3>1, <3>2
    <3>4. ExpiresAt(q) \in Nat /\ clock \in Nat /\ clock' \in Nat /\ clock' >= clock
      BY <1>2, <3>3, LoginsKept DEF Shaped
    <3>5. QED
      BY <2>1, <3>3, <3>4 DEF ExpiresAt, Key
  <2>4. ASSUME NEW k \in DOMAIN store'
        PROVE  \E g \in Authorised' : k = Key(handler'[g].request)
    BY <1>1, <2>1, <2>4 DEF Tombstones
  <2>5. Tombstones'
    BY <2>3, <2>4 DEF Tombstones
  <2>6. ResolveOnce'
    BY <1>1, <2>2 DEF ResolveOnce
  <2>7. QED
    BY <2>5, <2>6
<1>4. CASE ResolveConsumed
  <2>1. PICK f, q, e : Consumed(f, q, e)
    BY <1>4, ConsumedFacts
  <2>2. /\ f \in Handler /\ f \notin Authorised /\ q \in resolves /\ handler'[f].request = q
        /\ e.key = Key(q) /\ e.expires_at = ExpiresAt(q) /\ clock' = clock
        /\ \A h \in Handler \ {f} : handler'[h] = handler[h]
    BY <2>1 DEF Consumed, Authorised
  <2>3. PICK new : new = StoreAfter(store, <<e>>, clock, Capacity) /\ store' = new
    BY <2>1 DEF Consumed
  <2>4. PICK outcome : /\ outcome = Outcome(store, <<e>>, clock, Capacity)
                       /\ handler'[f].pc = CacheVerdict(outcome, "ArtifactResolveReplay")
    BY <2>1 DEF Consumed
  <2>5. f \in Authorised' <=> outcome = "fresh"
    BY <2>2, <2>4, OutcomeFacts DEF Authorised
  <2>6. \A g \in Authorised' : g = f \/ g \in Authorised
    BY <2>2 DEF Authorised
  <2>7. /\ \A k \in DOMAIN store : store[k] > clock => k \in DOMAIN new /\ new[k] = store[k]
        /\ \A k \in DOMAIN new : k = e.key \/ k \in DOMAIN store
        /\ outcome = "fresh" => /\ e.key \in DOMAIN new /\ new[e.key] = e.expires_at
                                /\ ~(e.key \in DOMAIN store /\ store[e.key] > clock)
        /\ outcome # "fresh" => DOMAIN new \subseteq DOMAIN store
    <3>1. Stored(store, e, clock, Capacity, new)
      BY <2>3, StoreFacts
    <3>2. QED
      BY <2>4, <3>1 DEF Stored
  <2>8. clock \in Nat
    BY DEF Shaped
  <2>9. ASSUME NEW g \in Authorised'
        PROVE  Kept(handler[g].request)'
    <3>1. CASE g = f
      BY <2>2, <2>3, <2>5, <2>7, <2>9, <3>1 DEF Key, ExpiresAt
    <3>2. CASE g \in Authorised
      <4>1. PICK p : p = handler[g].request
        OBVIOUS
      <4>2. handler'[g].request = p /\ p \in resolves /\ Kept(p)
        BY <1>1, <3>2, <4>1
      <4>3. ExpiresAt(p) \in Nat
        BY <1>2, <4>2
      <4>4. clock < ExpiresAt(p) => Key(p) \in DOMAIN new /\ new[Key(p)] = ExpiresAt(p)
        BY <2>7, <2>8, <4>2, <4>3
      <4>5. QED
        BY <2>2, <2>3, <4>2, <4>4 DEF Key, ExpiresAt
    <3>3. QED
      BY <2>6, <2>9, <3>1, <3>2
  <2>10. ASSUME NEW k \in DOMAIN store'
         PROVE  \E g \in Authorised' : k = Key(handler'[g].request)
    <3>1. CASE k \in DOMAIN store
      BY <1>1, <3>1 DEF Tombstones
    <3>2. CASE k \notin DOMAIN store
      <4>1. outcome = "fresh" /\ k = e.key
        BY <2>3, <2>7, <2>10, <3>2
      <4>2. QED
        BY <2>2, <2>5, <4>1
    <3>3. QED
      BY <3>1, <3>2
  <2>11. Tombstones'
    BY <2>9, <2>10 DEF Tombstones
  <2>12. ASSUME NEW h \in Authorised, f \in Authorised'
         PROVE  handler[h].request # q
    <3>1. SUFFICES ASSUME handler[h].request = q
                   PROVE  FALSE
      OBVIOUS
    <3>2. Kept(q)
      BY <1>1, <3>1
    <3>3. ~ResolveExpired(q)
      BY <2>1 DEF Consumed
    <3>4. clock < ExpiresAt(q)
      BY <2>2, <2>8, <3>3, ArtifactAssumption DEF ResolveExpired, ExpiresAt, Sent
    <3>5. e.key \in DOMAIN store /\ store[e.key] > clock
      BY <1>2, <2>2, <2>8, <3>2, <3>4
    <3>6. QED
      BY <2>5, <2>7, <2>12, <3>5
  <2>13. ASSUME NEW g \in Authorised', NEW h \in Authorised', g # h
         PROVE  handler'[g].request # handler'[h].request
    BY <1>1, <2>2, <2>6, <2>12, <2>13 DEF ResolveOnce
  <2>14. ResolveOnce'
    BY <2>13 DEF ResolveOnce
  <2>15. QED
    BY <2>11, <2>14
<1>5. QED
  BY <1>3, <1>4

-----------------------------------------------------------------------------
(* The end of a call.                                                      *)

(* No verdict is mistaken for a state of the call.                         *)
Ended(v) == v # "idle" /\ v # "resolving" /\ v # "accepted"

LEMMA BothEnded ==
  ASSUME NEW a, NEW b, Ended(a), Ended(b)
  PROVE  Ended(a && b)
BY DEF &&

LEMMA ResponseEnded ==
  ASSUME NEW resp, NEW cx
  PROVE  Ended(validate_response(resp, cx))
<1> DEFINE a == resp.assertions[1]
<1>1. Ended(ResponseChecks(resp, cx))
  BY DEF ResponseChecks, InResponseTo, enforce_signature_positions, Reject, &&, Ended
<1>2. Ended(SignatureGate(resp, a, cx))
  <2>1. \A sigs, certs, element : /\ Ended(VerifyRequired(sigs, certs, element))
                                  /\ Ended(VerifyPresent(sigs, certs, element))
    BY DEF VerifyRequired, VerifyPresent, Reject, &&, Ended
  <2>2. Ended(verify_response_and_or_assertion(resp, a, cx))
    BY <2>1, BothEnded DEF verify_response_and_or_assertion
  <2>3. Ended(handle_encrypted(resp, a, cx))
    BY <2>1 DEF handle_encrypted, decrypt_encrypted_assertion, Reject, &&, Ended
  <2>4. QED
    BY <2>2, <2>3 DEF SignatureGate
<1>3. Ended(AssertionChecks(a, cx))
  <2>1. \A sc : Ended(ConfirmationVerdict(sc, cx))
    BY DEF ConfirmationVerdict, Reject, &&, Ended
  <2>2. Ended(find_valid_subject_confirmation(a, cx))
    BY <2>1 DEF find_valid_subject_confirmation, Ended
  <2>3. Ended(decrypt_subject_encrypted_id(a, cx))
    BY DEF decrypt_subject_encrypted_id, decrypt_encrypted_assertion, Reject, Ended
  <2>4. Ended(ConditionsWindow(a, cx))
    BY DEF ConditionsWindow, Reject, &&, Ended
  <2>5. Ended(AudienceCheck(a, cx)) /\ Ended(SessionCheck(a, cx))
    BY DEF AudienceCheck, SessionCheck, Reject, Ended
  <2>6. Ended(check_authn_context(a, cx))
    BY DEF check_authn_context, Reject, Ended
  <2>7. Ended(Reject(a.issuer # cx.idp, "IssuerMismatch"))
    BY DEF Reject, Ended
  <2>8. QED
    BY <2>2, <2>3, <2>4, <2>5, <2>6, <2>7, BothEnded DEF AssertionChecks
<1>4. QED
  BY <1>1, <1>2, <1>3, BothEnded DEF validate_response

LEMMA AnswerEnded ==
  ASSUME NEW c, NEW x, NEW r
  PROVE  Ended(AnswerVerdict(c, x, r))
<1>1. \A sp, y : Ended(validate_tracker_context(sp, y))
  BY DEF validate_tracker_context, Reject, &&, Ended
<1>2. \A sp, y : Ended(NameIdCheck(sp, y)) /\ Ended(OneTimeUseCheck(y))
  BY DEF NameIdCheck, OneTimeUseCheck, Reject, &&, Ended
<1>3. \A sp, y : Ended(Validation(sp, y))
  BY <1>1, <1>2, ResponseEnded, BothEnded DEF Validation
<1>4. Ended(validate_artifact_response_protocol(c, r)) /\ Ended(verify_artifact_response(x, r))
  BY DEF validate_artifact_response_protocol, verify_artifact_response, Reject, &&, Ended
<1>5. QED
  BY <1>3, <1>4, BothEnded DEF AnswerVerdict

(* What an accepted answer has in common with its call.                    *)
LEMMA AnswerFacts ==
  ASSUME NEW c, NEW x, NEW r, AnswerVerdict(c, x, r) = "Ok"
  PROVE  /\ r.in_response_to = c /\ r.payload.url = x.sp /\ r.payload.issuer = x.idp
         /\ r.payload.in_response_to = TrackedRequest(x)
<1> DEFINE y == ResponseCall(x, r.payload)
           resp == Wire(Sp(x.sp), r.payload)
           cx == Context(Sp(x.sp), y)
<1>1. /\ validate_artifact_response_protocol(c, r) = "Ok"
      /\ Validation(Sp(x.sp), y) = "Ok"
  BY BothOk DEF AnswerVerdict
<1>2. y.msg = r.payload
  BY DEF ResponseCall
<1>3. validate_response(resp, cx) = "Ok"
  BY <1>1, <1>2, BothOk DEF Validation
<1>4. ResponseChecks(resp, cx) = "Ok"
  BY <1>3, BothOk DEF validate_response
<1>5. /\ resp.destination = {r.payload.url} /\ resp.issuer = {r.payload.issuer}
      /\ resp.in_response_to = r.payload.in_response_to
  BY DEF Wire
<1>6. /\ cx.idp = x.idp /\ cx.tracker = TrackedRequest(x) /\ cx.destination = x.sp
      /\ cx.allow_unsolicited = FALSE
  BY DEF Context, ResponseCall, AcsOf, Sp, TrackedRequest
<1> HIDE DEF resp, cx
<1>7. /\ Reject(~(resp.destination \subseteq {cx.destination}), "DestinationMismatch") = "Ok"
      /\ Reject(resp.issuer # {cx.idp}, "IssuerMismatch") = "Ok"
      /\ InResponseTo(resp.in_response_to, cx) = "Ok"
  BY <1>4, BothOk DEF ResponseChecks
<1>8. resp.destination \subseteq {cx.destination} /\ resp.issuer = {cx.idp}
  BY <1>7 DEF Reject
<1>9. resp.in_response_to = cx.tracker
  BY <1>6, <1>7 DEF InResponseTo, Reject
<1>10. r.in_response_to = c
  BY <1>1 DEF validate_artifact_response_protocol, Reject
<1>11. QED
  BY <1>5, <1>6, <1>8, <1>9, <1>10

(* What the IdP puts into the response for the login with tracker t.       *)
Made(m, t) ==
  /\ m.issuer = t.idp /\ m.url = t.sp /\ m.in_response_to = {t.request_id}
  /\ m.confirmed_until = m.not_on_or_after /\ m.not_on_or_after \in Nat
  /\ m.session_end = {} /\ m.one_time_use = FALSE /\ m.name_id.format = "Transient"

(* A call of the SP of tracker t, for the IdP and the ACS of t.            *)
Of(x, t) ==
  /\ x.tracker = {t} /\ x.sp = t.sp /\ x.idp = t.idp /\ t.acs = AcsOf(t.sp)
  /\ t.format = {} /\ t.requested = {} /\ t.certs \cap x.roots # {} /\ x.now \in Nat

LEMMA ResponseCompletes ==
  ASSUME NEW x, NEW m, NEW t, Of(x, t), Made(m, t),
         m.cert \in t.certs \cap x.roots, x.now < m.not_on_or_after
  PROVE  Validation(Sp(x.sp), ResponseCall(x, m)) = "Ok"
<1> DEFINE y == ResponseCall(x, m)
           resp == Wire(Sp(x.sp), m)
           cx == Context(Sp(x.sp), y)
           a == resp.assertions[1]
           sc == a.confirmations[1]
<1>1. /\ y.msg = m /\ y.tracker = {t} /\ y.idp = t.idp /\ y.roots = x.roots
      /\ y.route = AcsOf(t.sp) /\ y.now = x.now
  BY DEF ResponseCall, Of
<1>2. /\ resp.destination = {t.sp} /\ resp.issuer = {t.idp} /\ resp.sig = {}
      /\ resp.in_response_to = {t.request_id} /\ resp.success = TRUE
      /\ resp.stray_signature = FALSE /\ Len(resp.assertions) = 1
  BY DEF Wire, Sp, Made
<1>3. /\ a.issuer = t.idp /\ a.enc = {} /\ a.encrypted_id = {}
      /\ a.sig = {[cert |-> m.cert, covers |-> "Assertion", intact |-> TRUE]}
      /\ a.not_before = {} /\ a.not_on_or_after = {m.not_on_or_after}
      /\ a.audiences = {{t.sp}} /\ a.session_end = {} /\ DOMAIN a.confirmations = {1}
  BY DEF Wire, Sp, Made, Of
<1>4. /\ sc.method = "bearer" /\ sc.recipient = {t.sp} /\ sc.not_on_or_after = {m.not_on_or_after}
      /\ sc.not_before = {} /\ sc.in_response_to = {t.request_id}
  BY DEF Wire, Made
<1>5. TrackedRequest(y) = {t.request_id} /\ ValidationCerts(y) = x.roots \cap t.certs
      /\ UNION {u.requested : u \in y.tracker} = {}
  BY <1>1 DEF TrackedRequest, ValidationCerts, Of
<1>6. /\ cx.idp = t.idp /\ cx.sp = t.sp /\ cx.destination = t.sp /\ cx.certs = x.roots \cap t.certs
      /\ cx.tracker = {t.request_id} /\ cx.want_response = FALSE /\ cx.want_assertions = TRUE
      /\ cx.now = x.now /\ cx.skew = Skew /\ cx.requested = {} /\ cx.presenter = {}
  <2>1. t.sp = x.sp
    BY DEF Of
  <2>2. QED
    BY <1>1, <1>5, <2>1 DEF Context, Sp, AcsOf
<1>7. validate_tracker_context(Sp(x.sp), y) = "Ok"
  <2>1. AcsOf(t.sp).url \in {e.url : e \in Sp(x.sp).acs}
    BY DEF Of, Sp
  <2>2. t.idp = y.idp /\ t.acs = y.route /\ t.certs \cap y.roots # {}
    BY <1>1 DEF Of
  <2>3. QED
    BY <1>1, <2>1, <2>2 DEF validate_tracker_context, Reject, &&
<1>8. NameIdCheck(Sp(x.sp), y) = "Ok" /\ OneTimeUseCheck(y) = "Ok"
  BY <1>1 DEF NameIdCheck, OneTimeUseCheck, Reject, &&, Made, Of
<1> HIDE DEF resp, cx
<1>9. ResponseChecks(resp, cx) = "Ok"
  BY <1>2, <1>6 DEF ResponseChecks, InResponseTo, enforce_signature_positions, Reject, &&
<1>10. SignatureGate(resp, a, cx) = "Ok"
  <2>1. VerifyRequired(a.sig, cx.certs, "Assertion") = "Ok"
    <3>1. \A sig \in a.sig : verify_signature(sig, cx.certs, "Assertion") = "Ok"
      BY <1>3, <1>6 DEF verify_signature, Reject
    <3>2. a.sig # {}
      BY <1>3
    <3>3. QED
      BY <3>1, <3>2 DEF VerifyRequired, VerifyPresent, Reject, &&
  <2>2. QED
    BY <1>3, <1>6, <2>1 DEF SignatureGate, verify_response_and_or_assertion
<1>11. ~Over({m.not_on_or_after}, cx) /\ ~Over({}, cx) /\ ~NotYet({}, cx)
  <2>1. ~(m.not_on_or_after <= x.now - Skew)
    BY ArtifactAssumption DEF Made, Of
  <2>2. QED
    BY <1>6, <2>1 DEF Over, NotYet
<1>12. find_valid_subject_confirmation(a, cx) = "Ok"
  <2>1. ConfirmationVerdict(sc, cx) = "Ok"
    BY <1>4, <1>6, <1>11 DEF ConfirmationVerdict, Reject, &&
  <2>2. 1 \in Candidates(a, cx)
    BY <1>3, <1>4 DEF Candidates
  <2>3. 1 \in Satisfying(a, cx)
    BY <2>1, <2>2 DEF Satisfying
  <2>4. Candidates(a, cx) # {} /\ Satisfying(a, cx) # {}
    BY <2>2, <2>3
  <2>5. QED
    BY <2>4 DEF find_valid_subject_confirmation
<1>13. AssertionChecks(a, cx) = "Ok"
  <2>1. decrypt_subject_encrypted_id(a, cx) = "Ok"
    BY <1>3 DEF decrypt_subject_encrypted_id
  <2>2. ConditionsWindow(a, cx) = "Ok"
    BY <1>3, <1>11 DEF ConditionsWindow, Reject, &&
  <2>3. AudienceCheck(a, cx) = "Ok"
    BY <1>3, <1>6 DEF AudienceCheck, Reject
  <2>4. check_authn_context(a, cx) = "Ok"
    BY <1>6 DEF check_authn_context, Reject
  <2>5. SessionCheck(a, cx) = "Ok"
    BY <1>3, <1>11 DEF SessionCheck, Reject
  <2>6. Reject(a.issuer # cx.idp, "IssuerMismatch") = "Ok"
    BY <1>3, <1>6 DEF Reject
  <2>7. QED
    BY <1>12, <2>1, <2>2, <2>3, <2>4, <2>5, <2>6, BothOk DEF AssertionChecks
<1>14. validate_response(resp, cx) = "Ok"
  BY <1>9, <1>10, <1>13, BothOk DEF validate_response
<1>15. validate_response(Wire(Sp(x.sp), y.msg), Context(Sp(x.sp), y)) = "Ok"
  BY <1>1, <1>14 DEF resp, cx
<1>16. QED
  BY <1>7, <1>8, <1>15, BothOk DEF Validation

LEMMA AnswerCompletes ==
  ASSUME NEW c, NEW x, NEW r, NEW t, Of(x, t), Made(r.payload, t), r.sig # {},
         Completes(c, x, r, t)
  PROVE  AnswerVerdict(c, x, r) = "Ok"
<1>1. Validation(Sp(x.sp), ResponseCall(x, r.payload)) = "Ok"
  BY ResponseCompletes DEF Completes
<1>2. validate_artifact_response_protocol(c, r) = "Ok"
  BY DEF Completes, validate_artifact_response_protocol, Reject
<1>3. verify_artifact_response(x, r) = "Ok"
  <2>1. r.sig \subseteq EnvelopeCerts(x)
    BY DEF Completes, EnvelopeCerts, Of
  <2>2. QED
    BY <2>1 DEF verify_artifact_response, Reject, &&
<1>4. QED
  BY <1>1, <1>2, <1>3, BothOk DEF AnswerVerdict

(* The preflight binds the call to its tracker.                            *)
LEMMA PreflightFacts ==
  ASSUME NEW x, Preflight(x) = "Ok"
  PROVE  /\ x.tracker # {}
         /\ \A t \in x.tracker : /\ t.idp = x.idp /\ x.artifact.source_id = t.idp
                                 /\ t.certs \cap x.roots # {}
<1>1. /\ validate_tracker_context(Sp(x.sp), ResponseCall(x, {})) = "Ok"
      /\ Reject(x.tracker = {}, "ArtifactTrackerRequired") = "Ok"
      /\ (IF \A t \in x.tracker : SourceCheck(t, x.artifact) = "Ok"
            THEN "Ok" ELSE "ArtifactSourceIdMismatch") = "Ok"
  <2> DEFINE context == validate_tracker_context(Sp(x.sp), ResponseCall(x, {}))
             tracked == Reject(x.tracker = {}, "ArtifactTrackerRequired")
             source == IF \A t \in x.tracker : SourceCheck(t, x.artifact) = "Ok"
                         THEN "Ok" ELSE "ArtifactSourceIdMismatch"
             pinned == Reject(\E t \in x.tracker : PinnedArs(t, x.artifact) = {},
                              "ArtifactResolutionServiceMismatch")
             rooted == Reject(x.verify # {} /\ EnvelopeCerts(x) = {}, "IdpTrustRootMismatch")
  <2>1. ((((context && tracked) && source) && pinned) && rooted) = "Ok"
    BY DEF Preflight
  <2> HIDE DEF context, tracked, source, pinned, rooted
  <2>2. context = "Ok" /\ tracked = "Ok" /\ source = "Ok"
    BY <2>1, BothOk
  <2>3. QED
    BY <2>2 DEF context, tracked, source
<1>2. \A t \in x.tracker : t.idp = x.idp /\ t.certs \cap x.roots # {}
  <2>1. /\ ResponseCall(x, {}).tracker = x.tracker /\ ResponseCall(x, {}).idp = x.idp
        /\ ResponseCall(x, {}).roots = x.roots
    BY DEF ResponseCall
  <2>2. QED
    BY <1>1, <2>1 DEF validate_tracker_context, Reject, &&
<1>3. x.tracker # {}
  BY <1>1 DEF Reject
<1>4. \A t \in x.tracker : x.artifact.source_id = t.idp
  BY <1>1 DEF SourceCheck, Reject
<1>5. QED
  BY <1>2, <1>3, <1>4

(* An answer for the login of a tracker was made for that tracker.         *)
LEMMA AnswerMade ==
  ASSUME Logins, Bound, Answered, NEW r \in replies, NEW l \in Login, NEW t \in tracker[l],
         r.payload.in_response_to = {t.request_id}
  PROVE  Made(r.payload, t) /\ r.sig # {}
<1>1. PICK a \in Issued : Carries(r, a)
  BY DEF Answered
<1>2. PICK h \in Handle : a \in issued[h]
  BY DEF Issued
<1>3. PICK m \in Login : \E q \in request[m] :
        /\ a.response.in_response_to = {m} /\ a.response.issuer = q.idp
        /\ a.response.url = q.sp /\ a.response.confirmed_until = a.response.not_on_or_after
        /\ a.response.session_end = {} /\ a.response.one_time_use = FALSE
        /\ a.response.name_id.format = "Transient" /\ a.response.not_on_or_after \in Nat
  BY <1>2 DEF Bound, Answers
<1>4. PICK q \in request[m] :
        /\ a.response.in_response_to = {m} /\ a.response.issuer = q.idp
        /\ a.response.url = q.sp /\ a.response.confirmed_until = a.response.not_on_or_after
        /\ a.response.session_end = {} /\ a.response.one_time_use = FALSE
        /\ a.response.name_id.format = "Transient" /\ a.response.not_on_or_after \in Nat
  BY <1>3
<1>5. PICK u \in tracker[m] : q.sp = u.sp /\ q.idp = u.idp
  BY DEF Logins, Requested
<1>6. r.payload = a.response /\ r.sig # {}
  BY <1>1 DEF Carries
<1>7. t.request_id = l /\ tracker[l] = {t}
  BY DEF Logins, Tracked
<1>8. u = t
  BY <1>4, <1>6, <1>7
<1>9. QED
  BY <1>4, <1>5, <1>6, <1>8 DEF Made

LEMMA CallBegins ==
  ASSUME Shaped, Logins, NEW c \in Call, NEW i, NEW artifact, NEW sign, NEW verify, NEW x,
         NEW t \in {{}} \cup {tracker[l] : l \in Login}, \A p \in t : p.sp = CallSp[c],
         x = ConsumeArtifactResponse(CallSp[c], t, i, artifact, sign, verify),
         Preflight(x) = "Ok"
  PROVE  CallOk(c, x)
<1>1. /\ x = [pc |-> x.pc, sp |-> x.sp, tracker |-> x.tracker, idp |-> x.idp,
              roots |-> x.roots, artifact |-> x.artifact, sign |-> x.sign,
              verify |-> x.verify, now |-> x.now, reply |-> x.reply]
      /\ x.pc = "resolving" /\ x.sp = CallSp[c] /\ x.tracker = t /\ x.now = clock
      /\ x.reply = {}
  BY DEF ConsumeArtifactResponse
<1>2. t # {} /\ \A p \in t : p.idp = x.idp /\ x.artifact.source_id = p.idp
                             /\ p.certs \cap x.roots # {}
  BY <1>1, PreflightFacts
<1>3. PICK l \in Login : t = tracker[l]
  BY <1>2
<1>4. PICK p \in tracker[l] : tracker[l] = {p}
  BY <1>2, <1>3 DEF Logins
<1>5. Started(c, x)
  <2>1. x.sp = CallSp[c] /\ x.tracker = {p} /\ p \in t
    BY <1>1, <1>3, <1>4
  <2>2. /\ p.sp = x.sp /\ x.idp = p.idp /\ x.artifact.source_id = p.idp
        /\ p.certs \cap x.roots # {}
    BY <1>2, <2>1
  <2>3. QED
    BY <2>1, <2>2 DEF Started
<1>6. QED
  BY <1>1, <1>5 DEF CallOk, Shaped

LEMMA CallEnds ==
  ASSUME Logins, Bound, Answered, NEW c \in Call, NEW r \in replies, NEW x, NEW y, NEW v,
         CallOk(c, x), v = AnswerVerdict(c, x, r),
         y = [x EXCEPT !.pc = IF v = "Ok" THEN "accepted" ELSE v, !.reply = {r}]
  PROVE  CallOk(c, y)
<1>1. x = [pc |-> x.pc, sp |-> x.sp, tracker |-> x.tracker, idp |-> x.idp,
           roots |-> x.roots, artifact |-> x.artifact, sign |-> x.sign,
           verify |-> x.verify, now |-> x.now, reply |-> x.reply]
  BY DEF CallOk
<1>2. PICK pc : pc = IF v = "Ok" THEN "accepted" ELSE v
  OBVIOUS
<1>3. y = [pc |-> pc, sp |-> x.sp, tracker |-> x.tracker, idp |-> x.idp,
           roots |-> x.roots, artifact |-> x.artifact, sign |-> x.sign,
           verify |-> x.verify, now |-> x.now, reply |-> {r}]
  BY <1>1, <1>2
<1>4. /\ y.pc = pc /\ y.sp = x.sp /\ y.tracker = x.tracker /\ y.idp = x.idp
      /\ y.roots = x.roots /\ y.artifact = x.artifact /\ y.now = x.now /\ y.reply = {r}
  BY ONLY <1>3
<1>5. Ended(v) /\ pc # "idle" /\ pc # "resolving" /\ (pc = "accepted" <=> v = "Ok")
  BY <1>2, AnswerEnded DEF Ended
<1>6. y.pc = "accepted" =>
        /\ r.in_response_to = c /\ r.payload.url = y.sp /\ r.payload.issuer = y.idp
        /\ r.payload.in_response_to = TrackedRequest(y)
  BY <1>4, <1>5, AnswerFacts DEF TrackedRequest
<1>7. ASSUME NEW t \in y.tracker, Completes(c, y, r, t)
      PROVE  y.pc = "accepted"
  <2>1. Completes(c, x, r, t)
    BY <1>4, <1>7 DEF Completes
  <2>2. Started(c, x) /\ x.now \in Nat
    BY DEF CallOk
  <2>3. PICK l \in Login : t \in tracker[l] /\ x.tracker = {t} /\ t.sp = x.sp /\ x.idp = t.idp
                          /\ t.certs \cap x.roots # {}
    BY <1>4, <1>7, <2>2 DEF Started
  <2>4. Tracked(l, t)
    BY <2>3 DEF Logins
  <2>5. Of(x, t)
    BY <2>2, <2>3, <2>4 DEF Of, Tracked
  <2>6. r.payload.in_response_to = {t.request_id}
    BY <2>1 DEF Completes
  <2>7. Made(r.payload, t) /\ r.sig # {}
    BY <2>3, <2>6, AnswerMade
  <2>8. AnswerVerdict(c, x, r) = "Ok"
    BY <2>1, <2>5, <2>7, AnswerCompletes
  <2>9. QED
    BY <1>4, <1>5, <2>8
<1>8. Started(c, y) /\ y.now \in Nat /\ y.reply \subseteq replies
  BY <1>4 DEF CallOk, Started
<1>9. y = [pc |-> y.pc, sp |-> y.sp, tracker |-> y.tracker, idp |-> y.idp,
           roots |-> y.roots, artifact |-> y.artifact, sign |-> y.sign,
           verify |-> y.verify, now |-> y.now, reply |-> y.reply]
  BY <1>3
<1>10. QED
  BY <1>4, <1>5, <1>6, <1>7, <1>8, <1>9 DEF CallOk

LEMMA StepCalls ==
  ASSUME Shaped, Logins, Bound, Answered, Calls, [Next]_vars
  PROVE  Calls'
<1>1. ASSUME NEW c \in Call, NEW x, CallOk(c, x), call'[c] = x
      PROVE  CallOk(c, call[c])'
  <2>1. Started(c, x)
    BY <1>1 DEF CallOk
  <2>2. \A l \in Login : \A t \in tracker[l] : t \in tracker'[l]
    BY LoginsKept
  <2>3. Started(c, call[c])'
    BY <1>1, <2>1, <2>2 DEF Started
  <2>4. x.reply \subseteq replies'
    BY <1>1, MessagesKept DEF CallOk
  <2>5. QED
    BY <1>1, <2>3, <2>4 DEF CallOk, Completes, TrackedRequest
<1>2. \A c \in Call : call[c] # Idle => CallOk(c, call[c])
  BY DEF Calls
<1>3. CASE call' = call
  <2>1. \A c \in Call : call'[c] # Idle => CallOk(c, call[c])'
    BY <1>1, <1>2, <1>3
  <2>2. QED
    BY <2>1 DEF Calls
<1>4. ASSUME NEW d \in Call, NEW new, CallOk(d, new), call' = [call EXCEPT ![d] = new]
      PROVE  Calls'
  <2>1. \A c \in Call : call'[c] = IF c = d THEN new ELSE call[c]
    BY <1>4 DEF Shaped
  <2>2. \A c \in Call : call'[c] # Idle => CallOk(c, call[c])'
    BY <1>1, <1>2, <1>4, <2>1
  <2>3. QED
    BY <2>2 DEF Calls
<1>5. CASE CallStarts
  <2>1. PICK c \in Call, i \in Idp, a \in Issued, verify \in Verify : \E sign :
          \E t \in {{}} \cup {tracker[l] : l \in Login} :
            /\ \A p \in t : p.sp = CallSp[c]
            /\ StartResolve(c, CallSp[c], t, i, a.artifact, sign, verify)
    BY <1>5, Zenon DEF CallStarts
  <2>2. PICK sign : \E t \in {{}} \cup {tracker[l] : l \in Login} :
            /\ \A p \in t : p.sp = CallSp[c]
            /\ StartResolve(c, CallSp[c], t, i, a.artifact, sign, verify)
    BY <2>1, Zenon
  <2>3. PICK t \in {{}} \cup {tracker[l] : l \in Login} :
            /\ \A p \in t : p.sp = CallSp[c]
            /\ StartResolve(c, CallSp[c], t, i, a.artifact, sign, verify)
    BY <2>2, Zenon
  <2>4. PICK x : x = ConsumeArtifactResponse(CallSp[c], t, i, a.artifact, sign, verify)
    OBVIOUS
  <2>5. Preflight(x) = "Ok" /\ call' = [call EXCEPT ![c] = x]
    BY <2>3, <2>4 DEF StartResolve
  <2>6. CallOk(c, x)
    BY <2>3, <2>4, <2>5, CallBegins
  <2>7. QED
    BY <1>4, <2>5, <2>6
<1>6. CASE CallFinishes
  <2>1. PICK c \in Call, r \in replies : FinishResolve(c, r)
    BY <1>6 DEF CallFinishes
  <2>2. PICK v : v = AnswerVerdict(c, call[c], r)
    OBVIOUS
  <2>3. /\ call[c].pc = "resolving"
        /\ call' = [call EXCEPT ![c].pc = IF v = "Ok" THEN "accepted" ELSE v, ![c].reply = {r}]
    BY <2>1, <2>2 DEF FinishResolve
  <2>4. PICK y : y = [call[c] EXCEPT !.pc = IF v = "Ok" THEN "accepted" ELSE v, !.reply = {r}]
    OBVIOUS
  <2>5. CallOk(c, call[c])
    BY <1>2, <2>3 DEF Idle
  <2>6. CallOk(c, y)
    BY <2>2, <2>4, <2>5, CallEnds
  <2>7. call' = [call EXCEPT ![c] = y]
    BY <2>3, <2>4 DEF Shaped
  <2>8. QED
    BY <1>4, <2>6, <2>7
<1>7. CASE CallFails
  <2>1. PICK c \in Call : ResolveFails(c)
    BY <1>7 DEF CallFails
  <2>2. call[c].pc = "resolving" /\ call' = [call EXCEPT ![c].pc = "failed"]
    BY <2>1 DEF ResolveFails
  <2>3. PICK y : y = [call[c] EXCEPT !.pc = "failed"]
    OBVIOUS
  <2>4. CallOk(c, call[c])
    BY <1>2, <2>2 DEF Idle
  <2>5. CallOk(c, y)
    <3>1. PICK x : x = call[c]
      OBVIOUS
    <3>2. /\ x.reply = {} /\ Started(c, x) /\ x.now \in Nat
          /\ x = [pc |-> x.pc, sp |-> x.sp, tracker |-> x.tracker, idp |-> x.idp,
                  roots |-> x.roots, artifact |-> x.artifact, sign |-> x.sign,
                  verify |-> x.verify, now |-> x.now, reply |-> x.reply]
      BY <2>2, <2>4, <3>1 DEF CallOk
    <3>3. y = [pc |-> "failed", sp |-> x.sp, tracker |-> x.tracker, idp |-> x.idp,
               roots |-> x.roots, artifact |-> x.artifact, sign |-> x.sign,
               verify |-> x.verify, now |-> x.now, reply |-> {}]
      BY <2>3, <3>1, <3>2
    <3>4. /\ y.pc = "failed" /\ y.sp = x.sp /\ y.tracker = x.tracker /\ y.idp = x.idp
          /\ y.roots = x.roots /\ y.artifact = x.artifact /\ y.now = x.now /\ y.reply = {}
          /\ y = [pc |-> y.pc, sp |-> y.sp, tracker |-> y.tracker, idp |-> y.idp,
                  roots |-> y.roots, artifact |-> y.artifact, sign |-> y.sign,
                  verify |-> y.verify, now |-> y.now, reply |-> y.reply]
      BY <3>3
    <3>5. Started(c, y)
      BY <3>2, <3>4 DEF Started
    <3>6. QED
      BY <3>2, <3>4, <3>5 DEF CallOk
  <2>6. call' = [call EXCEPT ![c] = y]
    BY <2>2, <2>3 DEF Shaped
  <2>7. QED
    BY <1>4, <2>5, <2>6
<1>8. QED
  BY <1>3, <1>5, <1>6, <1>7, Frames

-----------------------------------------------------------------------------
(* The invariant.                                                          *)

LEMMA InitInv == ASSUME Init PROVE ArtifactInv
<1>1. Shaped /\ Logins /\ Bound /\ Sent /\ Answered
  BY DEF Init, Shaped, Logins, Bound, Sent, Answered
<1>2. Calls /\ Handlers /\ Tombstones /\ ResolveOnce
  BY DEF Init, Calls, Handlers, Tombstones, ResolveOnce, Authorised, Idle, EmptyStore
<1>3. QED
  BY <1>1, <1>2 DEF ArtifactInv

LEMMA StepInv == ASSUME ArtifactInv, [Next]_vars PROVE ArtifactInv'
BY StepShaped, StepLogins, StepBound, StepSent, StepAnswered, StepCalls, StepHandlers,
   StepTombstones DEF ArtifactInv

(* The three exchanges stay tied together: a tracker pins what its IdP     *)
(* published, an artifact answers one request and is bound to who made it, *)
(* an answer carries what was issued under the artifact asked for, calls   *)
(* and handlers know only these, and the cache holds exactly the           *)
(* authorised requests, each at least as long as it is fresh.              *)
THEOREM ArtifactInvariant == Spec => []ArtifactInv
<1>1. Init => ArtifactInv
  BY InitInv
<1>2. ArtifactInv /\ [Next]_vars => ArtifactInv'
  BY StepInv
<1>3. QED
  BY <1>1, <1>2, PTL DEF Spec

(* A response is disclosed to the SP it was issued to, on a request signed *)
(* with a key the IdP knew it by at the AuthnRequest (bind_artifact and    *)
(* consume_artifact_resolve).                                              *)
THEOREM ArtifactDisclosure == Spec => []DisclosedToAddressee
<1>1. ASSUME ArtifactInv, NEW r \in replies, NEW l \in r.payload.in_response_to,
             NEW q \in request[l]
      PROVE  /\ r.request.issuer = q.sp /\ r.request.sig \subseteq q.certs
             /\ RequireSigned => r.request.sig # {}
  <2>1. PICK a \in Issued : Carries(r, a)
    BY <1>1 DEF ArtifactInv, Answered
  <2>2. PICK h \in Handle : a \in issued[h]
    BY DEF Issued
  <2>3. Answers(h, a)
    BY <1>1, <2>2 DEF ArtifactInv, Bound
  <2>4. PICK m \in Login : \E p \in request[m] :
          a.transaction = bind_artifact(p, a.artifact) /\ a.response.in_response_to = {m}
    BY <2>3 DEF Answers
  <2>5. PICK p \in request[m] :
          a.transaction = bind_artifact(p, a.artifact) /\ a.response.in_response_to = {m}
    BY <2>4
  <2>6. r.payload = a.response /\ Entitled(r.request, a)
    BY <2>1 DEF Carries
  <2>7. m = l
    BY <2>5, <2>6
  <2>8. request[m] = {p}
    BY <1>1 DEF ArtifactInv, Logins
  <2>9. p = q
    BY <2>7, <2>8
  <2>10. a.transaction.sp = q.sp /\ a.transaction.certs = q.certs
    BY <2>5, <2>9 DEF bind_artifact
  <2>11. QED
    BY <2>6, <2>10 DEF Entitled
<1>2. ArtifactInv => DisclosedToAddressee
  BY <1>1 DEF DisclosedToAddressee
<1>3. QED
  BY <1>2, ArtifactInvariant, PTL

(* A captured ArtifactResolve is good for one authorisation: up to the     *)
(* last instant at which it is accepted its tombstone is in the cache.     *)
THEOREM ArtifactResolvedOnce == Spec => []ResolveOnce
BY ArtifactInvariant, PTL DEF ArtifactInv

(* Service providers cannot use up each other's request IDs, because the   *)
(* tombstone's key names the SP and an entry stands for an authorisation.  *)
THEOREM ArtifactReplayIsOwn == Spec => []ReplayIsOwn
<1>1. ASSUME ArtifactInv
      PROVE  ReplayIsOwn
  BY <1>1 DEF ArtifactInv, Handlers, ReplayIsOwn, Key
<1>2. QED
  BY <1>1, ArtifactInvariant, PTL

(* An SP sends an artifact only to an endpoint published by the IdP the    *)
(* artifact names: the tracker pinned that IdP's services, and the IdP it  *)
(* names is the tracker's.                                                 *)
THEOREM ArtifactHome == Spec => []ArtifactStaysHome
<1>1. ASSUME ArtifactInv, NEW q \in resolves, q.by = "call"
      PROVE  \E d \in IdpMetadata[q.artifact.source_id] : \E e \in d.ars :
               e.url = q.destination
  <2>1. PICK c : c = q.request_id
    OBVIOUS
  <2>2. /\ c \in Call /\ call[c] # Idle /\ q.artifact = call[c].artifact
        /\ \E t \in call[c].tracker : \E e \in t.ars : e.url = q.destination
    BY <1>1, <2>1 DEF ArtifactInv, Sent
  <2>3. Started(c, call[c])
    BY <1>1, <2>2 DEF ArtifactInv, Calls, CallOk
  <2>4. PICK l \in Login : \E t \in tracker[l] :
          call[c].tracker = {t} /\ call[c].artifact.source_id = t.idp
    BY <2>3 DEF Started
  <2>5. PICK t \in tracker[l] : call[c].tracker = {t} /\ call[c].artifact.source_id = t.idp
    BY <2>4
  <2>6. \E d \in IdpMetadata[t.idp] : t.ars = d.ars
    BY <1>1 DEF ArtifactInv, Logins, Tracked
  <2>7. QED
    BY <2>2, <2>5, <2>6
<1>2. ArtifactInv => ArtifactStaysHome
  BY <1>1 DEF ArtifactStaysHome
<1>3. QED
  BY <1>2, ArtifactInvariant, PTL

(* An SP accepts what was issued under the artifact that was presented,    *)
(* for the login whose tracker was used: an answer to a request that was   *)
(* not the call's own cannot be, since the IdP knew that SP by none of the *)
(* keys such a request is signed with.                                     *)
THEOREM ArtifactPresented == Spec => []ResolvedIsPresented
<1>1. ASSUME ArtifactInv, NEW c \in Call, call[c].pc = "accepted",
             NEW r \in call[c].reply, NEW t \in call[c].tracker
      PROVE  /\ r.artifact = call[c].artifact
             /\ r.payload.in_response_to = {t.request_id}
             /\ r.payload.issuer = t.idp /\ r.payload.url = t.sp
  <2>1. PICK x : x = call[c]
    OBVIOUS
  <2>2. CallOk(c, x)
    BY <1>1, <2>1 DEF ArtifactInv, Calls, Idle
  <2>3. /\ r \in replies /\ r.in_response_to = c /\ r.payload.url = x.sp
        /\ r.payload.issuer = x.idp /\ r.payload.in_response_to = TrackedRequest(x)
    BY <1>1, <2>1, <2>2 DEF CallOk
  <2>4. x.sp = CallSp[c] /\ x.tracker = {t} /\ t.sp = x.sp /\ x.idp = t.idp
    BY <1>1, <2>1, <2>2 DEF CallOk, Started
  <2>5. TrackedRequest(x) = {t.request_id}
    BY <2>4 DEF TrackedRequest
  <2>6. r.request \in resolves /\ \E b \in Issued : Carries(r, b)
    BY <1>1, <2>3 DEF ArtifactInv, Answered
  <2>7. PICK a \in Issued : Carries(r, a)
    BY <2>6
  <2>8. PICK q : q = r.request
    OBVIOUS
  <2>9. /\ q.request_id = c /\ Entitled(q, a) /\ r.artifact = a.artifact
        /\ r.payload = a.response
    BY <2>3, <2>7, <2>8 DEF Carries
  <2>10. PICK h \in Handle : a \in issued[h]
    BY DEF Issued
  <2>11. PICK m \in Login : \E p \in request[m] :
           a.transaction = bind_artifact(p, a.artifact) /\ a.response.url = p.sp
    BY <1>1, <2>10 DEF ArtifactInv, Bound, Answers
  <2>12. PICK p \in request[m] :
           a.transaction = bind_artifact(p, a.artifact) /\ a.response.url = p.sp
    BY <2>11
  <2>13. /\ a.transaction.artifact = a.artifact /\ a.transaction.sp = p.sp
         /\ a.transaction.certs = p.certs
    BY <2>12 DEF bind_artifact
  <2>14. p.certs \in SpMetadata[p.sp]
    BY <1>1 DEF ArtifactInv, Logins, Requested
  <2>15. p.sp = CallSp[c] /\ CallSp[c] \in Provider
    BY <2>3, <2>4, <2>9, <2>12, ArtifactAssumption
  <2>16. q.sig \subseteq SpCerts[CallSp[c]]
    BY <2>9, <2>13, <2>14, <2>15, ArtifactAssumption DEF Entitled
  <2>17. q.by = "call" /\ q.artifact = call[c].artifact
    BY <1>1, <2>6, <2>8, <2>9, <2>16 DEF ArtifactInv, Sent
  <2>18. r.artifact = call[c].artifact
    BY <2>9, <2>13, <2>17 DEF Entitled
  <2>19. QED
    BY <2>3, <2>4, <2>5, <2>18
<1>2. ArtifactInv => ResolvedIsPresented
  BY <1>1 DEF ResolvedIsPresented
<1>3. QED
  BY <1>2, ArtifactInvariant, PTL

-----------------------------------------------------------------------------
(* A login over an artifact completes.                                     *)

LEMMA LeastNumber ==
  ASSUME NEW T \in SUBSET Nat, T # {}
  PROVE  \E n \in T : \A m \in T : n <= m
<1> DEFINE R == OpToRel(<, Nat)
<1>1. IsWellFoundedOn(R, Nat)
  BY NatLessThanWellFounded
<1>2. \A x, y \in Nat : x < y => <<x, y>> \in R
  BY DEF OpToRel
<1> HIDE DEF R
<1>3. PICK n \in T : \A m \in T : ~(<<m, n>> \in R)
  <2>1. T \subseteq Nat
    OBVIOUS
  <2>2. QED
    BY ONLY <1>1, <2>1, T # {}, WFMin, Zenon
<1>4. ASSUME NEW m \in T PROVE n <= m
  <2>1. ~(m < n)
    BY <1>2, <1>3, Zenon
  <2>2. n \in Nat /\ m \in Nat
    OBVIOUS
  <2>3. QED
    BY <2>1, <2>2
<1>5. QED
  BY <1>4

(* The service written into an artifact is one the IdP is configured with. *)
LEMMA DefaultIsConfigured ==
  ASSUME NEW i \in Idp, Ars[i] # <<>>
  PROVE  \E n \in DOMAIN Ars[i] : artifact_resolution_service_for(i) = Ars[i][n]
<1> DEFINE defaults == {n \in DOMAIN Ars[i] : Ars[i][n].is_default}
<1>1. DOMAIN Ars[i] \subseteq Nat /\ 1 \in DOMAIN Ars[i]
  <2>1. Ars[i] \in Seq([index : Nat, url : STRING, is_default : BOOLEAN])
    BY ArtifactAssumption
  <2>2. QED
    BY <2>1
<1>2. artifact_resolution_service_for(i) =
        Ars[i][IF defaults = {} THEN 1
               ELSE CHOOSE n \in defaults : \A m \in defaults : n <= m]
  BY DEF artifact_resolution_service_for
<1>3. CASE defaults = {}
  BY <1>1, <1>2, <1>3
<1>4. CASE defaults # {}
  <2>1. defaults \in SUBSET Nat /\ defaults \subseteq DOMAIN Ars[i]
    BY <1>1
  <2> HIDE DEF defaults
  <2>2. \E n \in defaults : \A m \in defaults : n <= m
    BY <1>4, <2>1, LeastNumber
  <2>3. (CHOOSE n \in defaults : \A m \in defaults : n <= m) \in defaults
    BY <2>2
  <2>4. QED
    BY <1>2, <1>4, <2>1, <2>3
<1>5. QED
  BY <1>3, <1>4

(* The service an artifact names by its index is the one with that index.  *)
LEMMA ReceivingIsOne ==
  ASSUME NEW i \in Idp, NEW n \in DOMAIN Ars[i], NEW artifact,
         artifact.endpoint_index = Ars[i][n].index
  PROVE  ReceivingArs(i, artifact) = {Ars[i][n]}
<1>1. UniqueIndices(i)
  BY ArtifactAssumption
<1>2. \A m \in DOMAIN Ars[i] : Ars[i][m].index = artifact.endpoint_index => m = n
  BY <1>1 DEF UniqueIndices
<1>3. QED
  BY <1>2 DEF ReceivingArs

(* The IdP serves the addressee's own fresh request for its own artifact.  *)
LEMMA OwnRequestServed ==
  ASSUME ArtifactInv, NEW q \in resolves, NEW a \in Issued,
         q.artifact = a.artifact, q.issuer = a.transaction.sp,
         q.destination = artifact_resolution_service_for(a.artifact.source_id).url,
         q.issue_instant + Skew >= clock, q.sig # {},
         q.sig \subseteq a.transaction.certs \cap spmeta[q.issuer]
  PROVE  ResolveVerdict(a.artifact.source_id, q, q.issuer, a.transaction, q.destination) = "Ok"
<1> DEFINE i == a.artifact.source_id
           tr == a.transaction
           url == q.destination
<1>1. PICK h \in Handle : a \in issued[h]
  BY DEF Issued
<1>2. PICK l \in Login : \E r \in request[l] :
        /\ Ars[r.idp] # <<>> /\ a.artifact = make_artifact(r.idp, h)
        /\ tr = bind_artifact(r, a.artifact)
  BY <1>1 DEF ArtifactInv, Bound, Answers
<1>3. PICK r \in request[l] :
        /\ Ars[r.idp] # <<>> /\ a.artifact = make_artifact(r.idp, h)
        /\ tr = bind_artifact(r, a.artifact)
  BY <1>2
<1>4. i = r.idp /\ r.idp \in Idp
  <2>1. i = r.idp
    BY <1>3 DEF make_artifact
  <2>2. \E t \in tracker[l] : r.idp = t.idp /\ t.idp \in Idp
    BY DEF ArtifactInv, Logins, Requested, Tracked
  <2>3. QED
    BY <2>1, <2>2
<1>5. PICK n \in DOMAIN Ars[i] : artifact_resolution_service_for(i) = Ars[i][n]
  BY <1>3, <1>4, DefaultIsConfigured
<1>6. tr.artifact = a.artifact /\ a.artifact.endpoint_index = Ars[i][n].index
  BY <1>3, <1>4, <1>5 DEF bind_artifact, make_artifact
<1>7. ReceivingArs(i, tr.artifact) = {Ars[i][n]}
  BY <1>4, <1>5, <1>6, ReceivingIsOne
<1>8. Ars[i][n].url = url
  BY <1>5
<1>9. ~ResolveExpired(q)
  BY ArtifactAssumption DEF ResolveExpired, ArtifactInv, Sent, Shaped
<1>10. ResolveSignature(q, q.issuer, tr) = "Ok"
  <2>1. q.sig \subseteq pinned_sp_certs(q.issuer, tr) /\ pinned_sp_certs(q.issuer, tr) # {}
    BY DEF pinned_sp_certs
  <2>2. QED
    BY <2>1 DEF ResolveSignature, Reject, &&
<1>11. /\ Reject(tr.artifact.source_id # i, "MalformedArtifact") = "Ok"
       /\ Reject(ReceivingArs(i, tr.artifact) = {}, "MalformedArtifact") = "Ok"
       /\ Reject(\E e \in ReceivingArs(i, tr.artifact) : e.url # url, "InvalidConfiguration") = "Ok"
       /\ Reject(q.issuer # q.issuer, "IssuerMismatch") = "Ok"
       /\ Reject(q.issuer # tr.sp, "IssuerMismatch") = "Ok"
       /\ Reject(q.artifact # tr.artifact, "MalformedArtifact") = "Ok"
       /\ Reject(q.destination # url, "DestinationMismatch") = "Ok"
       /\ Reject(ResolveExpired(q), "Expired") = "Ok"
  BY <1>6, <1>7, <1>8, <1>9 DEF Reject
<1>12. QED
  BY <1>10, <1>11 DEF ResolveVerdict, &&

(* A certificate the SP gained, or another party's answers, do not stand   *)
(* in the way of a login: what is the addressee's own is served, and the   *)
(* answer to its own request completes it.                                 *)
THEOREM ArtifactCompletes == Spec => []OwnExchangeCompletes
<1>1. ASSUME ArtifactInv, NEW c \in Call, call[c].pc # "idle", NEW r \in call[c].reply,
             NEW t \in call[c].tracker, Completes(c, call[c], r, t)
      PROVE  call[c].pc = "accepted"
  <2>1. PICK x : x = call[c]
    OBVIOUS
  <2>2. x # Idle
    BY <1>1, <2>1 DEF Idle
  <2>3. CallOk(c, x)
    BY <1>1, <2>1, <2>2 DEF ArtifactInv, Calls
  <2>4. r \in x.reply /\ t \in x.tracker /\ Completes(c, x, r, t)
    BY <1>1, <2>1
  <2>5. x.pc = "accepted"
    BY <2>3, <2>4 DEF CallOk
  <2>6. QED
    BY <2>1, <2>5
<1>2. ArtifactInv => OwnExchangeCompletes
  BY <1>1, OwnRequestServed DEF OwnExchangeCompletes, Completes
<1>3. QED
  BY <1>2, ArtifactInvariant, PTL
=============================================================================
