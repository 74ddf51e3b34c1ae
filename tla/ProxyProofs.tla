----------------------------- MODULE ProxyProofs -----------------------------
(***************************************************************************)
(* Proofs about the proxy, for any deployments, instances, transactions    *)
(* and flows, any lifetimes, capacity and skew, and any NameID transforms  *)
(* and attribute release policies.                                         *)
(***************************************************************************)
EXTENDS Proxy, TLAPS, WellFoundedInduction

-----------------------------------------------------------------------------
(* What an accepting consume_upstream_response establishes.                *)

LEMMA BothOk ==
  ASSUME NEW a, NEW b
  PROVE  (a && b) = "Ok" <=> a = "Ok" /\ b = "Ok"
BY DEF &&

(* A signature that verifies was made with a key in use.                   *)
LEMMA Verifies ==
  ASSUME NEW sigs, NEW certs, NEW element, NEW sig \in sigs,
         VerifyRequired(sigs, certs, element) = "Ok"
  PROVE  sig.cert \in certs
BY BothOk DEF VerifyRequired, VerifyPresent, verify_signature, Reject

(* The response answers the request of the context's tracker and is signed *)
(* with a key the tracker pinned.                                          *)
LEMMA ValidationFacts ==
  ASSUME NEW ctx, NEW m, Validation(ProxySp, UpstreamCall(ctx, m)) = "Ok"
  PROVE  /\ m.in_response_to = {ctx.tracker.request_id}
         /\ m.cert \in ctx.tracker.certs
<1> DEFINE x == UpstreamCall(ctx, m)
           resp == Wire(ProxySp, m)
           context_of == Context(ProxySp, x)
           a == resp.assertions[1]
           signature == [cert |-> m.cert, covers |-> "Assertion", intact |-> TRUE]
<1>1. resp.in_response_to = m.in_response_to /\ resp.sig = {} /\ a.sig = {signature} /\ a.enc = {}
  BY DEF Wire, ProxySp
<1>2. /\ context_of.tracker = {ctx.tracker.request_id}
      /\ context_of.certs = {k \in roots : k \in ctx.tracker.certs}
      /\ context_of.want_response = FALSE /\ context_of.want_assertions = TRUE
  BY DEF Context, UpstreamCall, TrackedRequest, ValidationCerts, ProxySp
<1>3. validate_response(resp, context_of) = "Ok"
  BY BothOk DEF Validation, UpstreamCall
<1> HIDE DEF resp, context_of, signature
<1>4. ResponseChecks(resp, context_of) = "Ok" /\ SignatureGate(resp, a, context_of) = "Ok"
  BY <1>3, BothOk DEF validate_response
<1>5. InResponseTo(resp.in_response_to, context_of) = "Ok"
  BY <1>4, BothOk DEF ResponseChecks
<1>6. m.in_response_to = {ctx.tracker.request_id}
  BY <1>1, <1>2, <1>5 DEF InResponseTo, Reject
<1>7. VerifyRequired(a.sig, context_of.certs, "Assertion") = "Ok"
  <2>1. verify_response_and_or_assertion(resp, a, context_of) = "Ok"
    BY <1>1, <1>4 DEF SignatureGate
  <2>2. QED
    BY <1>2, <2>1 DEF verify_response_and_or_assertion
<1>8. signature.cert \in context_of.certs
  BY <1>1, <1>7, Verifies
<1>9. m.cert \in ctx.tracker.certs
  BY <1>2, <1>8 DEF signature
<1>10. QED
  BY <1>6, <1>9

(* And the context has not expired.                                        *)
LEMMA UpstreamFacts ==
  ASSUME NEW ctx, NEW m, UpstreamVerdict(ctx, m) = "Ok"
  PROVE  /\ ~(ctx.expires_at <= clock)
         /\ m.in_response_to = {ctx.tracker.request_id}
         /\ m.cert \in ctx.tracker.certs
<1>1. /\ Reject(ctx.expires_at <= clock, "Expired") = "Ok"
      /\ Validation(ProxySp, UpstreamCall(ctx, m)) = "Ok"
  BY BothOk DEF UpstreamVerdict
<1>2. QED
  BY <1>1, ValidationFacts DEF Reject

-----------------------------------------------------------------------------
(* The store operators.                                                    *)

(* No call loses a tombstone that is still live.                           *)
LEMMA StoreKeeps ==
  ASSUME NEW s, NEW e, NEW now, NEW capacity, NEW k \in DOMAIN s, s[k] > now
  PROVE  /\ k \in DOMAIN StoreAfter(s, <<e>>, now, capacity)
         /\ StoreAfter(s, <<e>>, now, capacity)[k] = s[k]
<1> DEFINE es == <<e>>
           swept == Sweep(s, now)
<1>1. DOMAIN es = {1} /\ es[1] = e /\ Keys(es) = {e.key}
  BY DEF Keys
<1>2. k \in DOMAIN swept /\ swept[k] = s[k]
  BY DEF Sweep
<1> HIDE DEF es, swept
<1>3. CASE Outcome(s, es, now, capacity) = "fresh"
  <2>1. e.key \notin DOMAIN swept
    BY <1>1, <1>3 DEF Outcome, Conflict, swept
  <2>2. k \in DOMAIN Insert(swept, es) /\ Insert(swept, es)[k] = swept[k]
    BY <1>1, <1>2, <2>1 DEF Insert
  <2>3. StoreAfter(s, es, now, capacity) = Insert(swept, es)
    BY <1>3 DEF StoreAfter, swept
  <2>4. QED
    BY <1>2, <2>2, <2>3 DEF es
<1>4. CASE Outcome(s, es, now, capacity) # "fresh"
  <2>1. StoreAfter(s, es, now, capacity) = swept
    BY <1>4 DEF StoreAfter, swept
  <2>2. QED
    BY <1>2, <2>1 DEF es
<1>5. QED
  BY <1>3, <1>4

(* A fresh entry had no live tombstone, and has one now.                   *)
LEMMA StoreFresh ==
  ASSUME NEW s, NEW e, NEW now, NEW capacity, Outcome(s, <<e>>, now, capacity) = "fresh"
  PROVE  /\ e.key \in DOMAIN StoreAfter(s, <<e>>, now, capacity)
         /\ StoreAfter(s, <<e>>, now, capacity)[e.key] = e.expires_at
         /\ ~(e.key \in DOMAIN s /\ s[e.key] > now)
<1> DEFINE es == <<e>>
           swept == Sweep(s, now)
<1>1. DOMAIN es = {1} /\ es[1] = e /\ Keys(es) = {e.key}
  BY DEF Keys
<1>2. DOMAIN swept = {k \in DOMAIN s : s[k] > now}
  BY DEF Sweep
<1> HIDE DEF es, swept
<1>3. Outcome(s, es, now, capacity) = "fresh"
  BY DEF es
<1>4. e.key \notin DOMAIN swept
  BY <1>1, <1>3 DEF Outcome, Conflict, swept
<1>5. e.key \in DOMAIN Insert(swept, es) /\ Insert(swept, es)[e.key] = e.expires_at
  BY <1>1 DEF Insert
<1>6. StoreAfter(s, es, now, capacity) = Insert(swept, es)
  BY <1>3 DEF StoreAfter, swept
<1>7. QED
  BY <1>2, <1>4, <1>5, <1>6 DEF es

LEMMA OutcomeFacts ==
  ASSUME NEW s, NEW es, NEW now, NEW capacity
  PROVE  /\ CacheVerdict(Outcome(s, es, now, capacity), "ProxyTransactionReplay")
              \in {"accepted", "ProxyTransactionReplay", "ReplayCacheFull"}
         /\ CacheVerdict(Outcome(s, es, now, capacity), "ProxyTransactionReplay") = "accepted"
              <=> Outcome(s, es, now, capacity) = "fresh"
<1>1. Outcome(s, es, now, capacity) \in {"fresh", "seen", "full"}
  BY DEF Outcome
<1>2. /\ CacheVerdict("fresh", "ProxyTransactionReplay") = "accepted"
      /\ CacheVerdict("seen", "ProxyTransactionReplay") = "ProxyTransactionReplay"
      /\ CacheVerdict("full", "ProxyTransactionReplay") = "ReplayCacheFull"
  BY DEF CacheVerdict
<1>3. QED
  BY <1>1, <1>2

-----------------------------------------------------------------------------
(* The inductive invariant.                                                *)

(* What the browser holds: one context per transaction, sealed once, with  *)
(* a tracker of that transaction's request; responses with deadlines.      *)
Deadlines(m) == {m.not_on_or_after, m.confirmed_until} \cup m.session_end

Sealed ==
  /\ deployed \in Deployment /\ clock \in Nat
  /\ context = [x \in Transaction |-> context[x]]
  /\ \A x \in Transaction : \A ctx \in context[x] :
       /\ context[x] = {ctx}
       /\ ctx.tracker.request_id = x /\ ctx.tracker.certs = ctx.certs
       /\ ctx.tracker.idp = "upstream"
       /\ ctx.expires_at \in Nat
       /\ \A p, q \in ctx.format : p = q
  /\ \A m \in wire : Deadlines(m) \subseteq Nat

(* What consume_upstream_response has established of every flow.           *)
Flows ==
  /\ flow = [f \in Flow |-> flow[f]]
  /\ \A f \in Flow : flow[f].pc # "idle" =>
       /\ flow[f] = [pc |-> flow[f].pc, instance |-> flow[f].instance,
                     transaction |-> flow[f].transaction, context |-> flow[f].context,
                     identity |-> flow[f].identity]
       /\ flow[f].transaction \in Transaction
       /\ context[flow[f].transaction] = {flow[f].context}
       /\ flow[f].identity.in_response_to = {flow[f].transaction}
       /\ flow[f].identity.cert \in flow[f].context.certs
       /\ Deadlines(flow[f].identity) \subseteq Nat

Taken(f) == flow[f].pc \notin {"idle", "ProxyTransactionReplay", "ReplayCacheFull"}

(* A transaction that became a flow keeps its tombstone for as long as its *)
(* context could be presented.                                             *)
Held ==
  \A f \in Flow : Taken(f) /\ flow[f].context.expires_at > clock =>
    /\ <<"ProxyTransaction", flow[f].transaction>> \in DOMAIN store
    /\ store[<<"ProxyTransaction", flow[f].transaction>>] = flow[f].context.expires_at

(* What a downstream response r says, held against the context ctx it is   *)
(* issued for.                                                             *)
Answers(r, ctx) ==
  /\ r.sp = ctx.sp /\ r.acs = ctx.acs
  /\ EncryptAssertions => r.enc = ctx.enc
  /\ \A format \in ctx.format : r.name_id.format = format
  /\ r.upstream.in_response_to = {r.transaction}
  /\ r.upstream.cert \in ctx.certs
  /\ \A q \in ctx.requested : is_satisfied(q, r.class_ref)
  /\ r.class_ref \in r.upstream.class_ref \cup {"Unspecified"}

(* Its name and its attributes,                                            *)
Discloses(r) ==
  /\ r.transform.kind = "PersistentPerSpHmac" =>
       r.name_id.value = <<"hmac", "upstream", r.upstream.name_id.value, r.sp>>
  /\ \A i \in DOMAIN r.attributes :
       r.sp \in DOMAIN deployed.allow_lists /\ r.attributes[i].name \in deployed.allow_lists[r.sp]

(* and its deadlines.                                                      *)
Ends(r) ==
  /\ \A t \in Deadlines(r.upstream) : r.session_end <= t
  /\ r.at < r.session_end \/ SessionLifetime = 0

Relays ==
  \A r \in relayed :
    /\ \E ctx : /\ r.transaction \in Transaction /\ context[r.transaction] = {ctx}
                /\ Answers(r, ctx)
    /\ Discloses(r)
    /\ Ends(r)

ProxyInv == Sealed /\ Flows /\ Held /\ OneFlowPerTransaction /\ Relays

-----------------------------------------------------------------------------
(* What relay_to_downstream issues.                                        *)

(* There is a first of any deadlines.                                      *)
LEMMA EarliestFacts ==
  ASSUME NEW S \in SUBSET Nat, S # {}
  PROVE  Earliest(S) \in S /\ \A t \in S : Earliest(S) <= t
<1>1. PICK t \in S : \A u \in S : <<u, t>> \notin OpToRel(<, Nat)
  BY NatLessThanWellFounded, WFMin
<1>2. \A u \in S : t <= u
  <2>1. \A u \in S : ~(u < t)
    BY <1>1 DEF OpToRel
  <2>2. QED
    BY <2>1
<1>3. QED
  BY <1>2 DEF Earliest

LEMMA TransformFacts ==
  ASSUME NEW t, NEW ctx, NEW m, NEW s, ctx.tracker.idp = "upstream",
         t.kind = "PersistentPerSpHmac"
  PROVE  \A n \in transform(t, ctx, m, s) : n.value = <<"hmac", "upstream", m.name_id.value, s>>
BY DEF transform, PersistentPerSpHmac, MintedNameId

(* A name that passes the checks is there, in the format asked for.        *)
LEMMA NameFacts ==
  ASSUME NEW x, NEW s, NEW names, TransformedNameIdCheck(x, s, names) = "Ok",
         \A p, q \in x.context.format : p = q
  PROVE  /\ (CHOOSE n \in names : TRUE) \in names
         /\ \A n \in names : \A format \in x.context.format : n.format = format
<1>1. names # {}
  BY BothOk DEF TransformedNameIdCheck, Reject
<1>2. \A n \in names : IF x.context.format = {} THEN n.format = DefaultFormat
                                                ELSE n.format \in x.context.format
  BY BothOk DEF TransformedNameIdCheck, Reject
<1>3. QED
  BY <1>1, <1>2

(* An accepted flow that is relayed answers its context, under a name and  *)
(* with attributes meant for the service provider, in time.                *)
LEMMA RelayFacts ==
  ASSUME Sealed, NEW x, NEW p, NEW s, NEW passthrough, NEW t, NEW r,
         RelayVerdict(x, p, s, passthrough, t) = "Ok",
         r = DownstreamResponse(x, s, passthrough, t),
         x.transaction \in Transaction, context[x.transaction] = {x.context},
         x.identity.in_response_to = {x.transaction},
         x.identity.cert \in x.context.certs,
         Deadlines(x.identity) \subseteq Nat
  PROVE  /\ r.transaction = x.transaction
         /\ Answers(r, x.context) /\ Discloses(r) /\ Ends(r)
<1> DEFINE ctx == x.context
           m == x.identity
           names == transform(t, ctx, m, s)
           class_ref == downstream_class_ref(m, passthrough)
<1>1. ctx.tracker.idp = "upstream" /\ \A f, g \in ctx.format : f = g
  BY DEF Sealed
<1>2. /\ Reject(EncryptAssertions /\ ctx.enc # meta[s].enc, "SpKeyMaterialMismatch") = "Ok"
      /\ Reject(ctx.sp # s, "IssuerMismatch") = "Ok"
      /\ Reject(ctx.acs \notin meta[s].acs, "UnregisteredAcs") = "Ok"
      /\ EmittedClassCheck(x, passthrough) = "Ok"
      /\ Reject(upstream_expiry(m) <= clock, "Expired") = "Ok"
      /\ TransformedNameIdCheck(x, s, names) = "Ok"
  BY BothOk DEF RelayVerdict
<1>3. /\ EncryptAssertions => ctx.enc = meta[s].enc
      /\ ctx.sp = s /\ ctx.acs \in meta[s].acs
      /\ \A q \in ctx.requested : is_satisfied(q, class_ref)
      /\ ~(upstream_expiry(m) <= clock)
  BY <1>2 DEF EmittedClassCheck, Reject
<1>4. (CHOOSE acs \in meta[s].acs : acs = ctx.acs) = ctx.acs
  BY <1>3
<1>5. /\ r.transaction = x.transaction /\ r.sp = s /\ r.acs = ctx.acs /\ r.transform = t
      /\ r.name_id = CHOOSE n \in names : TRUE
      /\ r.attributes = ReleasePerSp(deployed.allow_lists, m.attributes, s)
      /\ r.class_ref = class_ref
      /\ r.enc = IF EncryptAssertions THEN meta[s].enc ELSE {}
      /\ r.session_end = Earliest({clock + SessionLifetime, upstream_expiry(m)})
      /\ r.upstream = m /\ r.at = clock
  BY <1>4 DEF DownstreamResponse, for_proxy_reissue
<1>6. /\ (CHOOSE n \in names : TRUE) \in names
      /\ \A n \in names : \A format \in ctx.format : n.format = format
  BY <1>1, <1>2, NameFacts
<1>7. class_ref \in m.class_ref \cup {"Unspecified"}
  BY DEF downstream_class_ref
<1> HIDE DEF names, class_ref
<1>8. Answers(r, ctx)
  BY <1>3, <1>5, <1>6, <1>7 DEF Answers
<1>9. Discloses(r)
  <2>1. t.kind = "PersistentPerSpHmac" =>
          r.name_id.value = <<"hmac", "upstream", m.name_id.value, s>>
    BY <1>1, <1>5, <1>6, TransformFacts DEF names
  <2>2. \A i \in DOMAIN r.attributes :
          s \in DOMAIN deployed.allow_lists /\ r.attributes[i].name \in deployed.allow_lists[s]
    BY <1>5 DEF ReleasePerSp, ReleaseAllowList
  <2>3. QED
    BY <1>5, <2>1, <2>2 DEF Discloses
<1>10. Ends(r)
  <2>1. PICK expiry : expiry = upstream_expiry(m)
    OBVIOUS
  <2>2. expiry \in Nat /\ \A d \in Deadlines(m) : expiry <= d
    BY <2>1, EarliestFacts DEF upstream_expiry, Deadlines
  <2>3. clock \in Nat /\ SessionLifetime \in Nat
    BY ProxyAssumption DEF Sealed
  <2>4. /\ r.session_end \in {clock + SessionLifetime, expiry}
        /\ r.session_end <= expiry
    BY <1>5, <2>1, <2>2, <2>3, EarliestFacts
  <2>5. \A d \in Deadlines(m) : r.session_end <= d
    BY <2>2, <2>3, <2>4
  <2>6. clock < r.session_end \/ SessionLifetime = 0
    BY <1>3, <2>1, <2>2, <2>3, <2>4
  <2>7. QED
    BY <1>5, <2>5, <2>6 DEF Ends
<1>11. QED
  BY <1>5, <1>8, <1>9, <1>10

-----------------------------------------------------------------------------
(* The initial state and the steps.                                        *)

LEMMA InitInv == Init => ProxyInv
<1> SUFFICES ASSUME Init PROVE ProxyInv
  OBVIOUS
<1>1. \A f \in Flow : flow[f].pc = "idle"
  BY DEF Init, Idle
<1>2. Sealed
  BY DEF Init, Sealed
<1>3. Flows /\ Held /\ OneFlowPerTransaction
  BY <1>1 DEF Init, Flows, Held, Taken, OneFlowPerTransaction
<1>4. Relays
  BY DEF Init, Relays
<1>5. QED
  BY <1>2, <1>3, <1>4 DEF ProxyInv

(* The responses an upstream IdP may send now.                             *)
Sent(x, aid, c, k, e, u, n) ==
  [aid |-> aid, issuer |-> "upstream", in_response_to |-> {x},
   url |-> UpstreamAcs.url, not_on_or_after |-> clock + Lifetime,
   confirmed_until |-> clock + u, session_end |-> {clock + t : t \in e},
   class_ref |-> c, one_time_use |-> FALSE, cert |-> k,
   name_id |-> n, attributes |-> deployed.attributes]

LEMMA NextCases ==
  ASSUME [Next]_vars
  PROVE  /\ deployed' = deployed
         /\ \/ Tick
            \/ \E x \in Transaction, n \in deployed.formats :
                 \E s, acs, r, propagate : bounce_to_upstream(x, s, acs, r, n, propagate)
            \/ \E e \in deployed.session_ends, u \in deployed.confirmations :
                 \E x, aid, c, k, n : UpstreamResponds(Sent(x, aid, c, k, e, u, n))
            \/ \E certs : UpstreamRotates(certs)
            \/ \E s, d : DownstreamChanges(s, d)
            \/ \E f \in Flow, x \in Transaction, m \in wire :
                 \E p : \E ctx \in context[x] : consume_upstream_response(f, p, x, ctx, m)
            \/ \E f \in Flow : \E p, s, passthrough, t : relay_to_downstream(f, p, s, passthrough, t)
            \/ UNCHANGED vars
<1>1. CASE UNCHANGED vars
  BY <1>1 DEF vars
<1>2. CASE Next
  <2>1. Step /\ deployed' = deployed
    BY <1>2 DEF Next
  <2>2. QED
    BY <2>1, Zenon DEF Step, Sent
<1>3. QED
  BY <1>1, <1>2

LEMMA StepSealed ==
  ASSUME Sealed, [Next]_vars
  PROVE  /\ Sealed'
         /\ deployed' = deployed /\ clock' >= clock
         /\ \A x \in Transaction : context[x] # {} => context'[x] = context[x]
<1> USE ProxyAssumption
<1>1. CASE Tick
  BY <1>1, NextCases DEF Tick, Sealed
<1>2. ASSUME NEW x \in Transaction, NEW n \in deployed.formats,
             NEW s, NEW acs, NEW r, NEW propagate, bounce_to_upstream(x, s, acs, r, n, propagate)
      PROVE  /\ Sealed'
             /\ deployed' = deployed /\ clock' >= clock
             /\ \A y \in Transaction : context[y] # {} => context'[y] = context[y]
  <2>1. PICK ctx : ctx = ProxyContextPayload(x, s, acs, r, n, propagate)
    OBVIOUS
  <2>2. /\ ctx.tracker.request_id = x /\ ctx.tracker.certs = ctx.certs
        /\ ctx.tracker.idp = "upstream" /\ ctx.expires_at = clock + CtxLifetime
        /\ ctx.format = n
    BY <2>1 DEF ProxyContextPayload
  <2>3. /\ context[x] = {} /\ context' = [context EXCEPT ![x] = {ctx}]
        /\ UNCHANGED <<clock, wire>>
    BY <1>2, <2>1 DEF bounce_to_upstream
  <2>4. \A y \in Transaction : context'[y] = IF y = x THEN {ctx} ELSE context[y]
    BY <2>3 DEF Sealed
  <2>5. context' = [y \in Transaction |-> context'[y]]
    BY <2>3 DEF Sealed
  <2>6. /\ deployed' = deployed /\ clock' = clock
        /\ \A p, q \in n : p = q
    BY <2>3, NextCases DEF Sealed
  <2>7. /\ \A y \in Transaction : context[y] # {} => context'[y] = context[y]
        /\ clock' >= clock
    BY <2>3, <2>4, <2>6 DEF Sealed
  <2>8. Sealed'
    BY <2>2, <2>3, <2>4, <2>5, <2>6 DEF Sealed
  <2>9. QED
    BY <2>6, <2>7, <2>8
<1>3. ASSUME NEW e \in deployed.session_ends, NEW u \in deployed.confirmations,
             NEW x, NEW aid, NEW c, NEW k, NEW n,
             UpstreamResponds(Sent(x, aid, c, k, e, u, n))
      PROVE  /\ Sealed'
             /\ deployed' = deployed /\ clock' >= clock
             /\ \A y \in Transaction : context[y] # {} => context'[y] = context[y]
  <2>1. PICK m : m = Sent(x, aid, c, k, e, u, n)
    OBVIOUS
  <2>2. wire' = wire \cup {m} /\ UNCHANGED <<clock, context>>
    BY <1>3, <2>1 DEF UpstreamResponds
  <2>3. Deadlines(m) \subseteq Nat
    <3>1. Deadlines(m) = {clock + Lifetime, clock + u} \cup {clock + t : t \in e}
      BY <2>1 DEF Sent, Deadlines
    <3>2. clock \in Nat /\ u \in Nat /\ e \subseteq Nat
      BY DEF Sealed
    <3>3. QED
      BY <3>1, <3>2
  <2>4. QED
    BY <2>2, <2>3, NextCases DEF Sealed
<1>4. CASE UNCHANGED <<clock, context, wire>>
  BY <1>4, NextCases DEF Sealed
<1>5. \/ Tick \/ UNCHANGED <<clock, context, wire>>
      \/ \E x \in Transaction, n \in deployed.formats :
           \E s, acs, r, propagate : bounce_to_upstream(x, s, acs, r, n, propagate)
      \/ \E e \in deployed.session_ends, u \in deployed.confirmations :
           \E x, aid, c, k, n : UpstreamResponds(Sent(x, aid, c, k, e, u, n))
  <2> DEFINE Same == UNCHANGED <<clock, context, wire>>
  <2>1. /\ \A certs : UpstreamRotates(certs) => Same
        /\ \A s, d : DownstreamChanges(s, d) => Same
    BY DEF UpstreamRotates, DownstreamChanges
  <2>2. \A f, p, x, ctx, m : consume_upstream_response(f, p, x, ctx, m) => Same
    BY DEF consume_upstream_response
  <2>3. \A f, p, s, passthrough, t : relay_to_downstream(f, p, s, passthrough, t) => Same
    BY DEF relay_to_downstream
  <2>4. UNCHANGED vars => Same
    BY DEF vars
  <2> HIDE DEF Same
  <2>5. \/ Tick \/ Same
        \/ \E x \in Transaction, n \in deployed.formats :
             \E s, acs, r, propagate : bounce_to_upstream(x, s, acs, r, n, propagate)
        \/ \E e \in deployed.session_ends, u \in deployed.confirmations :
             \E x, aid, c, k, n : UpstreamResponds(Sent(x, aid, c, k, e, u, n))
    BY Zenon, NextCases, <2>1, <2>2, <2>3, <2>4
  <2>6. QED
    BY <2>5 DEF Same
<1>6. QED
  BY <1>1, <1>2, <1>3, <1>4, <1>5

(* A step leaves the flows and the cache alone, or it is one of the two    *)
(* operations on flows.                                                    *)
LEMMA FlowSteps ==
  ASSUME [Next]_vars
  PROVE  \/ UNCHANGED <<flow, store, relayed>>
         \/ \E f \in Flow, x \in Transaction, m \in wire :
              \E p : \E ctx \in context[x] : consume_upstream_response(f, p, x, ctx, m)
         \/ \E f \in Flow : \E p, s, passthrough, t : relay_to_downstream(f, p, s, passthrough, t)
<1> DEFINE Same == UNCHANGED <<flow, store, relayed>>
<1>1. Tick => Same
  BY DEF Tick
<1>2. \A x, s, acs, r, n, propagate : bounce_to_upstream(x, s, acs, r, n, propagate) => Same
  BY DEF bounce_to_upstream
<1>3. \A m : UpstreamResponds(m) => Same
  BY DEF UpstreamResponds
<1>4. /\ \A certs : UpstreamRotates(certs) => Same
      /\ \A s, d : DownstreamChanges(s, d) => Same
  BY DEF UpstreamRotates, DownstreamChanges
<1>5. UNCHANGED vars => Same
  BY DEF vars
<1> HIDE DEF Same
<1>6. \/ Same
      \/ \E f \in Flow, x \in Transaction, m \in wire :
           \E p : \E ctx \in context[x] : consume_upstream_response(f, p, x, ctx, m)
      \/ \E f \in Flow : \E p, s, passthrough, t : relay_to_downstream(f, p, s, passthrough, t)
  BY Zenon, NextCases, <1>1, <1>2, <1>3, <1>4, <1>5
<1>7. QED
  BY <1>6 DEF Same

(* What consume_upstream_response makes of a flow.                         *)
LEMMA ConsumeFlow ==
  ASSUME Flows, NEW f \in Flow, NEW p, NEW x, NEW ctx, NEW m,
         consume_upstream_response(f, p, x, ctx, m)
  PROVE  /\ flow' = [g \in Flow |-> flow'[g]]
         /\ \A g \in Flow : g # f => flow'[g] = flow[g]
         /\ flow'[f] = [pc |-> flow'[f].pc, instance |-> p, transaction |-> x,
                        context |-> ctx, identity |-> m]
<1>1. PICK pc : pc = CacheVerdict(Outcome(store, <<proxy_transaction(x, ctx, m)>>, clock, Capacity),
                                  "ProxyTransactionReplay")
  OBVIOUS
<1>2. PICK new : new = [pc |-> pc, instance |-> p, transaction |-> x,
                        context |-> ctx, identity |-> m]
  OBVIOUS
<1>3. new.pc = pc /\ flow' = [flow EXCEPT ![f] = new]
  BY <1>1, <1>2 DEF consume_upstream_response
<1>4. QED
  BY <1>2, <1>3 DEF Flows

LEMMA ConsumeCache ==
  ASSUME Flows, NEW f \in Flow, NEW p, NEW x, NEW ctx, NEW m,
         consume_upstream_response(f, p, x, ctx, m)
  PROVE  /\ flow[f].pc = "idle" /\ UNCHANGED <<clock, context, relayed>>
         /\ flow'[f].pc \in {"accepted", "ProxyTransactionReplay", "ReplayCacheFull"}
         /\ flow'[f].pc = "accepted" <=>
              Outcome(store, <<proxy_transaction(x, ctx, m)>>, clock, Capacity) = "fresh"
         /\ store' = StoreAfter(store, <<proxy_transaction(x, ctx, m)>>, clock, Capacity)
<1>1. PICK pc : pc = CacheVerdict(Outcome(store, <<proxy_transaction(x, ctx, m)>>, clock, Capacity),
                                  "ProxyTransactionReplay")
  OBVIOUS
<1>2. /\ pc \in {"accepted", "ProxyTransactionReplay", "ReplayCacheFull"}
      /\ pc = "accepted" <=>
           Outcome(store, <<proxy_transaction(x, ctx, m)>>, clock, Capacity) = "fresh"
  BY <1>1, OutcomeFacts
<1>3. PICK new : new = [pc |-> pc, instance |-> p, transaction |-> x,
                        context |-> ctx, identity |-> m]
  OBVIOUS
<1>4. /\ flow[f].pc = "idle" /\ flow' = [flow EXCEPT ![f] = new]
      /\ store' = StoreAfter(store, <<proxy_transaction(x, ctx, m)>>, clock, Capacity)
      /\ UNCHANGED <<clock, context, relayed>>
  BY <1>1, <1>3 DEF consume_upstream_response
<1>5. flow'[f] = new /\ new.pc = pc
  BY <1>3, <1>4 DEF Flows
<1>6. QED
  BY <1>2, <1>4, <1>5

(* What it has checked.                                                    *)
Checked(x, ctx, m) ==
  /\ context[x] = {ctx} /\ ctx.expires_at > clock
  /\ m.in_response_to = {x} /\ m.cert \in ctx.certs
  /\ Deadlines(m) \subseteq Nat

LEMMA ConsumeChecks ==
  ASSUME Sealed, NEW f, NEW p, NEW x \in Transaction, NEW ctx \in context[x], NEW m \in wire,
         consume_upstream_response(f, p, x, ctx, m)
  PROVE  Checked(x, ctx, m)
<1>1. UpstreamVerdict(ctx, m) = "Ok"
  BY DEF consume_upstream_response
<1>2. /\ context[x] = {ctx} /\ ctx.tracker.request_id = x /\ ctx.tracker.certs = ctx.certs
      /\ ctx.expires_at \in Nat /\ clock \in Nat /\ Deadlines(m) \subseteq Nat
  BY DEF Sealed
<1>3. QED
  BY <1>1, <1>2, UpstreamFacts DEF Checked

(* What relay_to_downstream makes of one.                                  *)
LEMMA RelaySteps ==
  ASSUME Flows, NEW f \in Flow, NEW p, NEW s, NEW passthrough, NEW t,
         relay_to_downstream(f, p, s, passthrough, t)
  PROVE  /\ flow[f].pc = "accepted"
         /\ flow' = [g \in Flow |-> flow'[g]]
         /\ \A g \in Flow : g # f => flow'[g] = flow[g]
         /\ flow'[f] = [pc |-> flow'[f].pc, instance |-> flow[f].instance,
                        transaction |-> flow[f].transaction, context |-> flow[f].context,
                        identity |-> flow[f].identity]
         /\ UNCHANGED <<clock, context, store>>
         /\ \/ relayed' = relayed
            \/ /\ RelayVerdict(flow[f], p, s, passthrough, t) = "Ok"
               /\ relayed' = relayed \cup {DownstreamResponse(flow[f], s, passthrough, t)}
<1>1. PICK verdict : verdict = RelayVerdict(flow[f], p, s, passthrough, t)
  OBVIOUS
<1>2. PICK pc : pc = IF verdict = "Ok" THEN "relayed" ELSE verdict
  OBVIOUS
<1>3. /\ flow[f].pc = "accepted" /\ flow' = [flow EXCEPT ![f].pc = pc]
      /\ UNCHANGED <<clock, context, store>>
      /\ relayed' = IF verdict = "Ok"
                      THEN relayed \cup {DownstreamResponse(flow[f], s, passthrough, t)}
                      ELSE relayed
  BY <1>1, <1>2 DEF relay_to_downstream
<1>4. flow[f] = [pc |-> flow[f].pc, instance |-> flow[f].instance,
                 transaction |-> flow[f].transaction, context |-> flow[f].context,
                 identity |-> flow[f].identity]
  BY <1>3 DEF Flows
<1>5. PICK new : new = [flow[f] EXCEPT !.pc = pc]
  OBVIOUS
<1>6. new = [pc |-> new.pc, instance |-> flow[f].instance,
             transaction |-> flow[f].transaction, context |-> flow[f].context,
             identity |-> flow[f].identity]
  BY <1>4, <1>5
<1>7. /\ flow' = [g \in Flow |-> flow'[g]] /\ flow'[f] = new
      /\ \A g \in Flow : g # f => flow'[g] = flow[g]
  BY <1>3, <1>5 DEF Flows
<1>8. QED
  BY <1>1, <1>3, <1>6, <1>7

LEMMA StepFlows ==
  ASSUME Sealed, Flows, [Next]_vars
  PROVE  Flows'
<1>0. \A f \in Flow : flow[f].pc # "idle" =>
        context'[flow[f].transaction] = {flow[f].context}
  BY StepSealed DEF Flows
<1>1. CASE UNCHANGED <<flow, store, relayed>>
  BY <1>0, <1>1 DEF Flows
<1>2. ASSUME NEW f \in Flow, NEW p, NEW x \in Transaction, NEW ctx \in context[x],
             NEW m \in wire, consume_upstream_response(f, p, x, ctx, m)
      PROVE  Flows'
  <2>1. /\ flow' = [g \in Flow |-> flow'[g]]
        /\ \A g \in Flow : g # f => flow'[g] = flow[g]
        /\ flow'[f] = [pc |-> flow'[f].pc, instance |-> p, transaction |-> x,
                       context |-> ctx, identity |-> m]
    BY <1>2, ConsumeFlow
  <2>2. context' = context
    BY <1>2, ConsumeCache
  <2>3. /\ context[x] = {ctx} /\ m.in_response_to = {x} /\ m.cert \in ctx.certs
        /\ Deadlines(m) \subseteq Nat
    <3>1. Checked(x, ctx, m)
      BY <1>2, ConsumeChecks
    <3>2. QED
      BY <3>1 DEF Checked
  <2>4. /\ flow'[f].instance = p /\ flow'[f].transaction = x /\ flow'[f].context = ctx
        /\ flow'[f].identity = m
    BY <2>1
  <2>5. /\ flow'[f] = [pc |-> flow'[f].pc, instance |-> flow'[f].instance,
                       transaction |-> flow'[f].transaction, context |-> flow'[f].context,
                       identity |-> flow'[f].identity]
        /\ flow'[f].transaction \in Transaction
        /\ context'[flow'[f].transaction] = {flow'[f].context}
        /\ flow'[f].identity.in_response_to = {flow'[f].transaction}
        /\ flow'[f].identity.cert \in flow'[f].context.certs
        /\ Deadlines(flow'[f].identity) \subseteq Nat
    BY <2>1, <2>2, <2>3, <2>4
  <2>6. QED
    BY <1>0, <2>1, <2>2, <2>5 DEF Flows
<1>3. ASSUME NEW f \in Flow, NEW p, NEW s, NEW passthrough, NEW t,
             relay_to_downstream(f, p, s, passthrough, t)
      PROVE  Flows'
  <2>1. /\ flow[f].pc = "accepted"
        /\ flow' = [g \in Flow |-> flow'[g]]
        /\ \A g \in Flow : g # f => flow'[g] = flow[g]
        /\ flow'[f] = [pc |-> flow'[f].pc, instance |-> flow[f].instance,
                       transaction |-> flow[f].transaction, context |-> flow[f].context,
                       identity |-> flow[f].identity]
    BY <1>3, RelaySteps
  <2>2. /\ flow'[f].instance = flow[f].instance /\ flow'[f].transaction = flow[f].transaction
        /\ flow'[f].context = flow[f].context /\ flow'[f].identity = flow[f].identity
    BY <2>1
  <2>3. QED
    BY <1>0, <2>1, <2>2 DEF Flows
<1>4. QED
  BY <1>1, <1>2, <1>3, FlowSteps

LEMMA TombstoneFacts ==
  ASSUME NEW x, NEW ctx, NEW m
  PROVE  /\ proxy_transaction(x, ctx, m).key = <<"ProxyTransaction", x>>
         /\ proxy_transaction(x, ctx, m).expires_at = ctx.expires_at
BY DEF proxy_transaction, ReplayEntry

LEMMA StepHeld ==
  ASSUME Sealed, Flows, Held, [Next]_vars
  PROVE  Held'
<1> SUFFICES ASSUME NEW g \in Flow, Taken(g)', flow'[g].context.expires_at > clock'
             PROVE  /\ <<"ProxyTransaction", flow'[g].transaction>> \in DOMAIN store'
                    /\ store'[<<"ProxyTransaction", flow'[g].transaction>>] =
                         flow'[g].context.expires_at
  BY DEF Held
<1>1. CASE UNCHANGED <<flow, store, relayed>>
  <2>1. Taken(g) /\ flow[g].context.expires_at \in Nat /\ clock \in Nat /\ clock' \in Nat
    BY <1>1, StepSealed DEF Taken, Flows, Sealed
  <2>2. flow[g].context.expires_at > clock
    BY <1>1, <2>1, StepSealed
  <2>3. QED
    BY <1>1, <2>1, <2>2 DEF Held
<1>2. ASSUME NEW f \in Flow, NEW p, NEW x \in Transaction, NEW ctx \in context[x],
             NEW m \in wire, consume_upstream_response(f, p, x, ctx, m)
      PROVE  /\ <<"ProxyTransaction", flow'[g].transaction>> \in DOMAIN store'
             /\ store'[<<"ProxyTransaction", flow'[g].transaction>>] =
                  flow'[g].context.expires_at
  <2>1. PICK e : e = proxy_transaction(x, ctx, m)
    OBVIOUS
  <2>2. e.key = <<"ProxyTransaction", x>> /\ e.expires_at = ctx.expires_at
    BY <2>1, TombstoneFacts
  <2>3. /\ \A h \in Flow : h # f => flow'[h] = flow[h]
        /\ flow'[f] = [pc |-> flow'[f].pc, instance |-> p, transaction |-> x,
                       context |-> ctx, identity |-> m]
    BY <1>2, ConsumeFlow
  <2>4. /\ flow'[f].pc \in {"accepted", "ProxyTransactionReplay", "ReplayCacheFull"}
        /\ flow'[f].pc = "accepted" <=> Outcome(store, <<e>>, clock, Capacity) = "fresh"
        /\ store' = StoreAfter(store, <<e>>, clock, Capacity)
        /\ clock' = clock
    BY <1>2, <2>1, ConsumeCache
  <2>5. CASE g = f
    <3>1. Outcome(store, <<e>>, clock, Capacity) = "fresh"
      BY <2>4, <2>5 DEF Taken
    <3>2. flow'[g].transaction = x /\ flow'[g].context = ctx
      BY <2>3, <2>5
    <3>3. e.key \in DOMAIN store' /\ store'[e.key] = e.expires_at
      <4>1. /\ e.key \in DOMAIN StoreAfter(store, <<e>>, clock, Capacity)
            /\ StoreAfter(store, <<e>>, clock, Capacity)[e.key] = e.expires_at
        BY ONLY <3>1, StoreFresh, Zenon
      <4>2. QED
        BY <2>4, <4>1
    <3>4. QED
      BY <2>2, <3>2, <3>3
  <2>6. CASE g # f
    <3>1. Taken(g) /\ flow'[g] = flow[g] /\ flow[g].context.expires_at > clock
      BY <2>3, <2>6, <2>4 DEF Taken
    <3>2. PICK k : k = <<"ProxyTransaction", flow[g].transaction>>
      OBVIOUS
    <3>3. k \in DOMAIN store /\ store[k] = flow[g].context.expires_at
      BY <3>1, <3>2 DEF Held
    <3>4. k \in DOMAIN store' /\ store'[k] = store[k]
      BY <2>4, <3>1, <3>3, StoreKeeps
    <3>5. QED
      BY <3>1, <3>2, <3>3, <3>4
  <2>7. QED
    BY <2>5, <2>6
<1>3. ASSUME NEW f \in Flow, NEW p, NEW s, NEW passthrough, NEW t,
             relay_to_downstream(f, p, s, passthrough, t)
      PROVE  /\ <<"ProxyTransaction", flow'[g].transaction>> \in DOMAIN store'
             /\ store'[<<"ProxyTransaction", flow'[g].transaction>>] =
                  flow'[g].context.expires_at
  <2>1. /\ flow[f].pc = "accepted"
        /\ \A h \in Flow : h # f => flow'[h] = flow[h]
        /\ flow'[f] = [pc |-> flow'[f].pc, instance |-> flow[f].instance,
                       transaction |-> flow[f].transaction, context |-> flow[f].context,
                       identity |-> flow[f].identity]
        /\ clock' = clock /\ store' = store
    BY <1>3, RelaySteps
  <2>2. Taken(g) /\ flow'[g].transaction = flow[g].transaction /\ flow'[g].context = flow[g].context
    BY <2>1 DEF Taken
  <2>3. QED
    BY <2>1, <2>2 DEF Held
<1>4. QED
  BY <1>1, <1>2, <1>3, FlowSteps

(* A new flow of a transaction that already became one finds its tombstone *)
(* alive: the context they share has not expired.                          *)
LEMMA StepOneFlow ==
  ASSUME Sealed, Flows, Held, OneFlowPerTransaction, [Next]_vars
  PROVE  OneFlowPerTransaction'
<1> SUFFICES ASSUME NEW g \in Flow, NEW h \in Flow, g # h, Taken(g)', Taken(h)'
             PROVE  flow'[g].transaction # flow'[h].transaction
  BY DEF OneFlowPerTransaction, Taken
<1>1. CASE UNCHANGED <<flow, store, relayed>>
  BY <1>1 DEF OneFlowPerTransaction, Taken
<1>2. ASSUME NEW f \in Flow, NEW p, NEW x \in Transaction, NEW ctx \in context[x],
             NEW m \in wire, consume_upstream_response(f, p, x, ctx, m)
      PROVE  flow'[g].transaction # flow'[h].transaction
  <2>1. PICK e : e = proxy_transaction(x, ctx, m)
    OBVIOUS
  <2>2. e.key = <<"ProxyTransaction", x>>
    BY <2>1, TombstoneFacts
  <2>3. /\ \A i \in Flow : i # f => flow'[i] = flow[i]
        /\ flow'[f].transaction = x
    <3>1. /\ \A i \in Flow : i # f => flow'[i] = flow[i]
          /\ flow'[f] = [pc |-> flow'[f].pc, instance |-> p, transaction |-> x,
                         context |-> ctx, identity |-> m]
      BY <1>2, ConsumeFlow
    <3>2. QED
      BY <3>1
  <2>4. /\ flow[f].pc = "idle"
        /\ flow'[f].pc \in {"accepted", "ProxyTransactionReplay", "ReplayCacheFull"}
        /\ flow'[f].pc = "accepted" => Outcome(store, <<e>>, clock, Capacity) = "fresh"
    BY <1>2, <2>1, ConsumeCache
  <2>5. Checked(x, ctx, m)
    BY <1>2, ConsumeChecks
  <2>6. ASSUME NEW i \in Flow, i # f, Taken(i)', Taken(f)'
        PROVE  flow'[i].transaction # flow'[f].transaction
    <3>1. Taken(i) /\ flow'[i] = flow[i]
      BY <2>3, <2>6 DEF Taken
    <3>2. SUFFICES ASSUME flow[i].transaction = x
                   PROVE  FALSE
      BY <2>3, <3>1
    <3>3. context[x] = {flow[i].context}
      BY <3>1, <3>2 DEF Flows, Taken
    <3>4. flow[i].context = ctx /\ ctx.expires_at > clock
      BY <2>5, <3>3 DEF Checked
    <3>5. e.key \in DOMAIN store /\ store[e.key] = ctx.expires_at
      BY <2>2, <3>1, <3>2, <3>4 DEF Held
    <3>6. Outcome(store, <<e>>, clock, Capacity) = "fresh"
      BY <2>4, <2>6 DEF Taken
    <3>7. ~(e.key \in DOMAIN store /\ store[e.key] > clock)
      BY ONLY <3>6, StoreFresh, Zenon
    <3>8. QED
      BY <3>4, <3>5, <3>7
  <2>7. CASE g # f /\ h # f
    BY <2>3, <2>7 DEF OneFlowPerTransaction, Taken
  <2>8. QED
    BY <2>6, <2>7
<1>3. ASSUME NEW f \in Flow, NEW p, NEW s, NEW passthrough, NEW t,
             relay_to_downstream(f, p, s, passthrough, t)
      PROVE  flow'[g].transaction # flow'[h].transaction
  <2>1. /\ flow[f].pc = "accepted"
        /\ \A i \in Flow : i # f => flow'[i] = flow[i]
        /\ flow'[f].transaction = flow[f].transaction
    <3>1. /\ flow[f].pc = "accepted"
          /\ \A i \in Flow : i # f => flow'[i] = flow[i]
          /\ flow'[f] = [pc |-> flow'[f].pc, instance |-> flow[f].instance,
                         transaction |-> flow[f].transaction, context |-> flow[f].context,
                         identity |-> flow[f].identity]
      BY <1>3, RelaySteps
    <3>2. QED
      BY <3>1
  <2>2. \A i \in Flow : Taken(i)' => Taken(i) /\ flow'[i].transaction = flow[i].transaction
    BY <2>1 DEF Taken
  <2>3. QED
    BY <2>2 DEF OneFlowPerTransaction, Taken
<1>4. QED
  BY <1>1, <1>2, <1>3, FlowSteps

LEMMA StepRelays ==
  ASSUME Sealed, Flows, Relays, [Next]_vars
  PROVE  Relays'
<1>0. /\ deployed' = deployed
      /\ \A x \in Transaction : \A ctx : context[x] = {ctx} => context'[x] = {ctx}
  BY StepSealed
<1>1. ASSUME NEW r \in relayed
      PROVE  /\ \E ctx : /\ r.transaction \in Transaction /\ context'[r.transaction] = {ctx}
                         /\ Answers(r, ctx)
             /\ Discloses(r)' /\ Ends(r)
  BY <1>0 DEF Relays, Discloses
<1>2. CASE relayed' = relayed
  BY <1>1, <1>2 DEF Relays, Answers, Ends
<1>3. ASSUME NEW f \in Flow, NEW p, NEW s, NEW passthrough, NEW t,
             relay_to_downstream(f, p, s, passthrough, t), relayed' # relayed
      PROVE  Relays'
  <2>1. /\ flow[f].pc = "accepted"
        /\ RelayVerdict(flow[f], p, s, passthrough, t) = "Ok"
        /\ relayed' = relayed \cup {DownstreamResponse(flow[f], s, passthrough, t)}
    <3>1. /\ flow[f].pc = "accepted"
          /\ \/ relayed' = relayed
             \/ /\ RelayVerdict(flow[f], p, s, passthrough, t) = "Ok"
                /\ relayed' = relayed \cup {DownstreamResponse(flow[f], s, passthrough, t)}
      BY <1>3, RelaySteps
    <3>2. QED
      BY <1>3, <3>1
  <2>2. PICK x : x = flow[f]
    OBVIOUS
  <2>3. /\ x.transaction \in Transaction /\ context[x.transaction] = {x.context}
        /\ x.identity.in_response_to = {x.transaction}
        /\ x.identity.cert \in x.context.certs /\ Deadlines(x.identity) \subseteq Nat
    BY <2>1, <2>2 DEF Flows
  <2>4. PICK r : r = DownstreamResponse(x, s, passthrough, t)
    OBVIOUS
  <2>5. RelayVerdict(x, p, s, passthrough, t) = "Ok"
    BY <2>1, <2>2
  <2>6. r.transaction = x.transaction /\ Answers(r, x.context) /\ Discloses(r) /\ Ends(r)
    BY <2>3, <2>4, <2>5, RelayFacts
  <2>7. /\ r.transaction \in Transaction /\ context'[r.transaction] = {x.context}
        /\ Answers(r, x.context) /\ Discloses(r)' /\ Ends(r)
    BY <1>0, <2>3, <2>6 DEF Discloses
  <2>8. relayed' = relayed \cup {r}
    BY <2>1, <2>2, <2>4
  <2>9. QED
    BY SMTT(20), <1>1, <2>7, <2>8 DEF Relays, Answers, Ends
<1>4. relayed' # relayed =>
        \E f \in Flow : \E p, s, passthrough, t : relay_to_downstream(f, p, s, passthrough, t)
  BY FlowSteps, ConsumeCache
<1>5. QED
  BY <1>2, <1>3, <1>4

LEMMA StepInv == ProxyInv /\ [Next]_vars => ProxyInv'
<1> SUFFICES ASSUME ProxyInv, [Next]_vars
             PROVE  ProxyInv'
  OBVIOUS
<1>1. Sealed'
  BY StepSealed DEF ProxyInv
<1>2. Flows' /\ Held'
  BY StepFlows, StepHeld DEF ProxyInv
<1>3. OneFlowPerTransaction' /\ Relays'
  BY StepOneFlow, StepRelays DEF ProxyInv
<1>4. QED
  BY <1>1, <1>2, <1>3 DEF ProxyInv

-----------------------------------------------------------------------------
(* The theorems.                                                           *)

(* The invariant holds of every reachable state, whatever deployments,     *)
(* lifetimes and capacity the proxy is given.                              *)
THEOREM ProxyInvariant == Spec => []ProxyInv
<1>1. Init => ProxyInv
  BY InitInv
<1>2. ProxyInv /\ [Next]_vars => ProxyInv'
  BY StepInv
<1>3. QED
  BY <1>1, <1>2, PTL DEF Spec

(* Of one transaction at most one upstream response ever becomes a flow,   *)
(* on whichever instance it is consumed (consume_upstream_response).       *)
THEOREM ProxyOneFlow == Spec => []OneFlowPerTransaction
<1>1. ProxyInv => OneFlowPerTransaction
  BY DEF ProxyInv
<1>2. QED
  BY <1>1, ProxyInvariant, PTL

(* Every downstream response is bound to the context it was asked for in,  *)
(* its pseudonym to one upstream subject at one service provider, and its  *)
(* attributes to what that one is allowed (relay_to_downstream).           *)
THEOREM ProxyRelayBound == Spec => []RelayBound
<1>1. ASSUME ProxyInv
      PROVE  RelayBound
  <2> SUFFICES ASSUME NEW r \in relayed, NEW ctx \in context[r.transaction]
               PROVE  /\ r.sp = ctx.sp /\ r.acs = ctx.acs
                      /\ EncryptAssertions => r.enc = ctx.enc
                      /\ \A format \in ctx.format : r.name_id.format = format
                      /\ r.upstream.in_response_to = {r.transaction}
                      /\ r.upstream.cert \in ctx.certs
                      /\ \A i \in DOMAIN r.attributes :
                           /\ r.sp \in DOMAIN deployed.allow_lists
                           /\ r.attributes[i].name \in deployed.allow_lists[r.sp]
                      /\ \A q \in relayed :
                           /\ q.transform.kind = "PersistentPerSpHmac"
                           /\ r.transform.kind = "PersistentPerSpHmac"
                           => (q.name_id.value = r.name_id.value
                                <=> <<q.sp, q.upstream.name_id.value>>
                                      = <<r.sp, r.upstream.name_id.value>>)
    BY DEF RelayBound
  <2>1. PICK c : context[r.transaction] = {c} /\ Answers(r, c)
    BY <1>1 DEF ProxyInv, Relays
  <2>2. Answers(r, ctx)
    BY <2>1
  <2>3. \A q \in relayed : Discloses(q)
    BY <1>1 DEF ProxyInv, Relays
  <2>4. ASSUME NEW q \in relayed, q.transform.kind = "PersistentPerSpHmac",
               r.transform.kind = "PersistentPerSpHmac"
        PROVE  q.name_id.value = r.name_id.value
                 <=> <<q.sp, q.upstream.name_id.value>> = <<r.sp, r.upstream.name_id.value>>
    <3>1. /\ q.name_id.value = <<"hmac", "upstream", q.upstream.name_id.value, q.sp>>
          /\ r.name_id.value = <<"hmac", "upstream", r.upstream.name_id.value, r.sp>>
      BY <2>3, <2>4 DEF Discloses
    <3>2. QED
      BY <3>1
  <2>5. \A i \in DOMAIN r.attributes :
          r.sp \in DOMAIN deployed.allow_lists /\ r.attributes[i].name \in deployed.allow_lists[r.sp]
    BY <2>3 DEF Discloses
  <2>6. QED
    BY <2>2, <2>4, <2>5 DEF Answers
<1>2. QED
  BY <1>1, ProxyInvariant, PTL

(* The downstream session ends with the first upstream deadline or before  *)
(* it, and starts before that (upstream_expiry, relay_to_downstream).      *)
THEOREM ProxyNeverOutlives == Spec => []NeverOutlivesUpstream
<1>1. ASSUME ProxyInv
      PROVE  NeverOutlivesUpstream
  <2>1. \A r \in relayed : Ends(r)
    BY <1>1 DEF ProxyInv, Relays
  <2>2. QED
    BY <2>1 DEF NeverOutlivesUpstream, Ends, Deadlines
<1>2. QED
  BY <1>1, ProxyInvariant, PTL

(* What is advertised downstream satisfies what the service provider asked *)
(* for, and was asserted upstream or claims nothing (EmittedClassCheck).   *)
THEOREM ProxyNonDowngrade == Spec => []NonDowngrade
<1>1. ASSUME ProxyInv
      PROVE  NonDowngrade
  <2>1. ASSUME NEW r \in relayed
        PROVE  \E c : context[r.transaction] = {c} /\ Answers(r, c)
    BY <1>1 DEF ProxyInv, Relays
  <2>2. QED
    BY <2>1 DEF NonDowngrade, Answers
<1>2. QED
  BY <1>1, ProxyInvariant, PTL
=============================================================================
