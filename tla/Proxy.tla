------------------------------- MODULE Proxy -------------------------------
(***************************************************************************)
(* The proxy (src/src/proxy.rs): an IdP to downstream service providers    *)
(* that is itself an SP of an upstream IdP. bounce_to_upstream seals what  *)
(* the downstream SP asked for into a context that travels through the     *)
(* browser; consume_upstream_response validates an upstream response       *)
(* against that context and yields an UpstreamFlow; relay_to_downstream    *)
(* turns the flow into one downstream assertion.                           *)
(*                                                                         *)
(* Everything in the browser (contexts, upstream responses) may be         *)
(* presented any number of times, in any pairing, to any proxy instance.   *)
(***************************************************************************)
EXTENDS ConsumeResponse

CONSTANTS
  Transaction,        \* transaction IDs, also the upstream request IDs
  Flow,               \* consume_upstream_response calls
  Supported,          \* supported_name_id_formats
  DefaultFormat,      \* default_name_id_format
  EncryptAssertions,  \* encrypt_assertions_when_possible
  CtxLifetime,        \* PROXY_CONTEXT_LIFETIME
  CodecMaxAge,        \* the codec's max_age (or the store's ttl)
  Lifetime,           \* validity of upstream assertions
  SessionLifetime,    \* session_lifetime the proxy asks for downstream
  Skew, Capacity,
  Deployment          \* deployments explored, each with the inputs that meet it:
                      \*   instances: Proxy values, sharing one replay cache
                      \*   metadata[s]: descriptors [enc, acs : sets] downstream
                      \*     service provider s may have
                      \*   certs: signing certificates of the upstream IdP
                      \*   aids: upstream assertion IDs
                      \*   requested: options of RequestedAuthnContext
                      \*   class_refs: options of class reference upstream asserts
                      \*   formats: options of NameID format downstream asks for
                      \*   name_ids: NameIDs [value, format, sp_name_qualifier]
                      \*   attributes: the attributes upstream asserts, a
                      \*     sequence of [name, values]
                      \*   transforms: NameIdTransforms of the relays
                      \*   allow_lists[s]: what ReleasePerSp releases to s
                      \*   session_ends: options of SessionNotOnOrAfter, from issue
                      \*   confirmations: SubjectConfirmation lifetimes
                      \*   max_time, max_messages, max_flows: bounds

ASSUME ProxyAssumption ==
  /\ CtxLifetime \in Nat /\ CodecMaxAge \in Nat /\ Lifetime \in Nat
  /\ SessionLifetime \in Nat /\ Skew \in Nat /\ Capacity \in Nat
  /\ \A d \in Deployment : {d.max_time, d.max_messages, d.max_flows} \subseteq Nat
  /\ \A d \in Deployment : d.session_ends \subseteq SUBSET Nat /\ d.confirmations \subseteq Nat
  /\ \A d \in Deployment : \A format \in d.formats : \A p, q \in format : p = q
  /\ EncryptAssertions \in BOOLEAN
  /\ DefaultFormat \in Supported

VARIABLES
  deployed,   \* the deployment; no action changes it
  clock, store,
  roots,      \* certificates in the proxy's metadata of the upstream IdP
  meta,       \* meta[s]: the proxy's current descriptor of downstream SP s
  context,    \* context[x]: option of the ProxyContextPayload sealed for x
  wire,       \* upstream responses
  flow,       \* flow[f]: a consume_upstream_response call and what became of it
  relayed     \* downstream responses issued

vars == <<deployed, clock, store, roots, meta, context, wire, flow, relayed>>

DownSp == DOMAIN deployed.metadata

UpstreamAcs == [url |-> "proxy/acs", binding |-> "HttpPost"]

ProxySp == [entity |-> "proxy", acs |-> {UpstreamAcs}, allow_unsolicited |-> FALSE,
            want_response |-> FALSE, want_assertions |-> TRUE, skew |-> Skew]

Idle == [pc |-> "idle"]

Init ==
  /\ deployed \in Deployment
  /\ clock = 0 /\ store = EmptyStore
  /\ roots \in {{k} : k \in deployed.certs}
  /\ meta \in [DownSp -> UNION {deployed.metadata[s] : s \in DownSp}]
  /\ \A s \in DownSp : meta[s] \in deployed.metadata[s]
  /\ context = [x \in Transaction |-> {}]
  /\ wire = {} /\ relayed = {}
  /\ flow = [f \in Flow |-> Idle]

Tick ==
  /\ clock < deployed.max_time
  /\ clock' = clock + 1
  /\ UNCHANGED <<store, roots, meta, context, wire, flow, relayed>>

-----------------------------------------------------------------------------
(* bounce_to_upstream for a validated downstream request. What downstream  *)
(* asked for is sealed whether or not it is propagated upstream. (The      *)
(* upstream request's binding, ForceAuthn and IsPassive are left out, and  *)
(* with them the refusal to sign a Redirect request, a configuration.)     *)

ProxyContextPayload(x, s, acs, requested, format, propagate) ==
  [sp |-> s, acs |-> acs, requested |-> requested, format |-> format,
   enc |-> meta[s].enc, certs |-> roots,
   issued_at |-> clock, expires_at |-> clock + CtxLifetime,
   tracker |-> [request_id |-> x, issued_at |-> clock, idp |-> "upstream",
                acs |-> UpstreamAcs, certs |-> roots,
                format |-> IF "name_id" \in propagate THEN format ELSE {},
                requested |-> IF "authn_context" \in propagate THEN requested ELSE {}]]

bounce_to_upstream(x, s, acs, requested, format, propagate) ==
  /\ context[x] = {}
  /\ Cardinality({y \in Transaction : context[y] # {}}) < deployed.max_flows
  /\ roots # {}                                      \* start_login
  /\ context' = [context EXCEPT
       ![x] = {ProxyContextPayload(x, s, acs, requested, format, propagate)}]
  /\ UNCHANGED <<clock, store, roots, meta, wire, flow, relayed>>

(* The upstream IdP answers a request, once or more often; metadata of     *)
(* either side changes at any time.                                        *)
UpstreamResponds(m) ==
  /\ m \notin wire /\ Cardinality(wire) < deployed.max_messages
  /\ \A x \in m.in_response_to : context[x] # {}
  /\ wire' = wire \cup {m}
  /\ UNCHANGED <<clock, store, roots, meta, context, flow, relayed>>

UpstreamRotates(certs) ==
  /\ certs # roots
  /\ roots' = certs
  /\ UNCHANGED <<clock, store, meta, context, wire, flow, relayed>>

DownstreamChanges(s, d) ==
  /\ d # meta[s]
  /\ meta' = [meta EXCEPT ![s] = d]
  /\ UNCHANGED <<clock, store, roots, context, wire, flow, relayed>>

-----------------------------------------------------------------------------
(* consume_upstream_response, one synchronous call.                        *)

(* The codec opens only what it sealed, and only so long after. (A context *)
(* from the future is refused too; here all instances read one clock.)     *)
decode(ctx, now) == Reject(now - ctx.issued_at > CodecMaxAge, "InvalidConfiguration")

(* What it opens may not claim to live longer than the proxy lets it.      *)
decode_context(ctx, now) ==
     decode(ctx, now)
  && Reject(ctx.expires_at - ctx.issued_at > CtxLifetime, "InvalidConfiguration")

(* The call handed to the SP role: the tracker is the context's own, the   *)
(* replay mode is All.                                                     *)
UpstreamCall(ctx, m) ==
  [msg |-> m, tracker |-> {ctx.tracker}, idp |-> "upstream", roots |-> roots,
   route |-> UpstreamAcs, mode |-> "All", now |-> clock]

UpstreamVerdict(ctx, m) ==
     decode_context(ctx, clock)
  && Reject(ctx.expires_at <= clock, "Expired")
  && Reject(roots \cap ctx.certs = {}, "UpstreamTrustRootMismatch")
  && Validation(ProxySp, UpstreamCall(ctx, m))

(* Mutant: the assertion's own tombstone is not substituted.               *)
AssertionTombstone(x, ctx, m) == AssertionEntry(ProxySp, UpstreamCall(ctx, m))

(* The transaction tombstone that stands in for the assertion's.           *)
proxy_transaction(x, ctx, m) == ReplayEntry("ProxyTransaction", x, ctx.expires_at)

consume_upstream_response(f, p, x, ctx, m) ==
  LET entries == <<proxy_transaction(x, ctx, m)>> IN
  /\ flow[f].pc = "idle"
  /\ Cardinality({g \in Flow : flow[g] # Idle}) < deployed.max_flows
  /\ UpstreamVerdict(ctx, m) = "Ok"
  /\ flow' = [flow EXCEPT ![f] =
       [pc |-> CacheVerdict(Outcome(store, entries, clock, Capacity),
                            "ProxyTransactionReplay"),
        instance |-> p, transaction |-> x, context |-> ctx, identity |-> m]]
  /\ store' = StoreAfter(store, entries, clock, Capacity)
  /\ UNCHANGED <<clock, roots, meta, context, wire, relayed>>

-----------------------------------------------------------------------------
(* relay_to_downstream: takes the flow by value, so a flow is relayed or   *)
(* refused once.                                                           *)

Earliest(S) == CHOOSE t \in S : \A u \in S : t <= u

(* The class the downstream assertion advertises.                          *)
downstream_class_ref(m, passthrough) ==
  IF passthrough /\ m.class_ref # {} THEN CHOOSE c \in m.class_ref : TRUE
                                     ELSE "Unspecified"

(* Mutant: the SubjectConfirmation's deadline is overlooked.               *)
SessionExpiry(m) == Earliest({m.not_on_or_after} \cup m.session_end)

(* The earliest of the upstream deadlines.                                 *)
upstream_expiry(m) ==
  Earliest({m.not_on_or_after, m.confirmed_until} \cup m.session_end)

(* Mutant: the upstream class is checked, whatever class is emitted.       *)
UpstreamClassCheck(x, passthrough) ==
  Reject(\E r \in x.context.requested :
           ~is_satisfied(r, downstream_class_ref(x.identity, TRUE)),
         "AuthnContextDowngrade")

(* Non-downgrade, held against the class that will be emitted.             *)
EmittedClassCheck(x, passthrough) ==
  Reject(\E r \in x.context.requested :
           ~is_satisfied(r, downstream_class_ref(x.identity, passthrough)),
         "AuthnContextDowngrade")

(* NameIdTransform, an option: the upstream NameID, a pseudonym of the     *)
(* upstream subject at the downstream SP - no two tuples have the same     *)
(* HMAC - or the first value of an attribute, in the transform's format.   *)
MintedNameId(t, value, s) ==
  [value |-> value, format |-> t.format, sp_name_qualifier |-> {s}]

PersistentPerSpHmac(t, ctx, m, s) ==
  {MintedNameId(t, <<"hmac", ctx.tracker.idp, m.name_id.value, s>>, s)}

Firsts(attributes, name) ==
  LET named == {i \in DOMAIN attributes : attributes[i].name = name}
  IN  {attributes[i].values : i \in {i \in named : \A j \in named : i <= j}} \ {<<>>}
NameIdFromAttribute(t, m, s) ==
  {MintedNameId(t, values[1], s) : values \in Firsts(m.attributes, t.attribute)}

transform(t, ctx, m, s) ==
  CASE t.kind = "PassThrough"         -> {m.name_id}
    [] t.kind = "PersistentPerSpHmac" -> PersistentPerSpHmac(t, ctx, m, s)
    [] t.kind = "NameIdFromAttribute" -> NameIdFromAttribute(t, m, s)

(* AttributeReleasePolicy: the service provider's allow list, or by        *)
(* default nothing. What is released stays at its place.                   *)
ReleaseAllowList(names, attributes) ==
  [i \in {i \in DOMAIN attributes : attributes[i].name \in names} |-> attributes[i]]
ReleasePerSp(allow_lists, attributes, s) ==
  ReleaseAllowList(IF s \in DOMAIN allow_lists THEN allow_lists[s] ELSE {}, attributes)

(* resolve_name_id_format, then the checks on what the NameIdTransform     *)
(* returned.                                                               *)
TransformedNameIdCheck(x, s, name_id) ==
     Reject(name_id = {}, "InvalidConfiguration")
  && Reject(~(x.context.format \subseteq Supported), "UnsupportedNameIdPolicy")
  && Reject(\E n \in name_id : IF x.context.format = {} THEN n.format # DefaultFormat
                                                       ELSE n.format \notin x.context.format,
            "NameIdFormatMismatch")
  && Reject(\E n \in name_id : n.format = "Persistent" /\ ~(n.sp_name_qualifier \subseteq {s}),
            "NameIdSpQualifierMismatch")

(* The checks before anything is issued; an endpoint is its URL, binding   *)
(* and index. (issuance_instants, which only refuses instants SystemTime   *)
(* cannot hold, is left out.)                                              *)
RelayVerdict(x, p, s, passthrough, t) ==
  LET ctx == x.context IN
     Reject(x.instance # p, "ForeignProxyFlow")
  && Reject(EncryptAssertions /\ ctx.enc # meta[s].enc, "SpKeyMaterialMismatch")
  && Reject(ctx.sp # s, "IssuerMismatch")
  && Reject(ctx.acs.binding = "HttpArtifact", "ArtifactTransactionRequired")
  && Reject(ctx.acs \notin meta[s].acs, "UnregisteredAcs")
  && EmittedClassCheck(x, passthrough)
  && Reject(upstream_expiry(x.identity) <= clock, "Expired")
  && TransformedNameIdCheck(x, s, transform(t, ctx, x.identity, s))

(* for_proxy_reissue: the request the context stands for, its endpoint     *)
(* resolved once more in the metadata it was just found in.                *)
for_proxy_reissue(s, ctx) ==
  [sp |-> s, acs |-> CHOOSE acs \in meta[s].acs : acs = ctx.acs, enc |-> meta[s].enc]

(* issue_response for the synthetic request.                               *)
DownstreamResponse(x, s, passthrough, t) ==
  LET request == for_proxy_reissue(s, x.context) IN
  [transaction |-> x.transaction, sp |-> request.sp, acs |-> request.acs, transform |-> t,
   name_id |-> CHOOSE n \in transform(t, x.context, x.identity, s) : TRUE,
   attributes |-> ReleasePerSp(deployed.allow_lists, x.identity.attributes, s),
   class_ref |-> downstream_class_ref(x.identity, passthrough),
   enc |-> IF EncryptAssertions THEN request.enc ELSE {},
   session_end |-> Earliest({clock + SessionLifetime, upstream_expiry(x.identity)}),
   upstream |-> x.identity, at |-> clock]

relay_to_downstream(f, p, s, passthrough, t) ==
  LET verdict == RelayVerdict(flow[f], p, s, passthrough, t) IN
  /\ flow[f].pc = "accepted"
  /\ flow' = [flow EXCEPT ![f].pc = IF verdict = "Ok" THEN "relayed" ELSE verdict]
  /\ relayed' = IF verdict = "Ok"
                  THEN relayed \cup {DownstreamResponse(flow[f], s, passthrough, t)}
                  ELSE relayed
  /\ UNCHANGED <<clock, store, roots, meta, context, wire>>

-----------------------------------------------------------------------------

Step ==
  \/ Tick
  \/ \E x \in Transaction, s \in DownSp, r \in deployed.requested, n \in deployed.formats,
        propagate \in SUBSET {"authn_context", "name_id"} :
       \E acs \in meta[s].acs : bounce_to_upstream(x, s, acs, r, n, propagate)
  \/ \E x \in Transaction, aid \in deployed.aids, c \in deployed.class_refs,
        k \in deployed.certs, e \in deployed.session_ends, u \in deployed.confirmations,
        n \in deployed.name_ids :
       UpstreamResponds(
         [aid |-> aid, issuer |-> "upstream", in_response_to |-> {x},
          url |-> UpstreamAcs.url, not_on_or_after |-> clock + Lifetime,
          confirmed_until |-> clock + u, session_end |-> {clock + t : t \in e},
          class_ref |-> c, one_time_use |-> FALSE, cert |-> k,
          name_id |-> n, attributes |-> deployed.attributes])
  \/ \E certs \in SUBSET deployed.certs : UpstreamRotates(certs)
  \/ \E s \in DownSp : \E d \in deployed.metadata[s] : DownstreamChanges(s, d)
  \/ \E f \in Flow, p \in deployed.instances, x \in Transaction, m \in wire :
       \E ctx \in context[x] : consume_upstream_response(f, p, x, ctx, m)
  \/ \E f \in Flow, p \in deployed.instances, s \in DownSp, passthrough \in BOOLEAN,
        t \in deployed.transforms :
       relay_to_downstream(f, p, s, passthrough, t)

Next == Step /\ UNCHANGED deployed

Spec == Init /\ [][Next]_vars

-----------------------------------------------------------------------------

(* One downstream login, one downstream assertion: however many upstream   *)
(* assertions answer it, with whatever IDs, on whichever instance, at most *)
(* one of them ever becomes a flow (the transaction tombstone of           *)
(* consume_upstream_response outlives the context).                        *)
OneFlowPerTransaction ==
  \A f, g \in Flow :
    /\ f # g
    /\ flow[f].pc \notin {"idle", "ProxyTransactionReplay", "ReplayCacheFull"}
    /\ flow[g].pc \notin {"idle", "ProxyTransactionReplay", "ReplayCacheFull"}
    => flow[f].transaction # flow[g].transaction

(* A downstream response answers the SP that asked, at the endpoint it     *)
(* nominated, encrypted to the keys it had then, under a NameID of the     *)
(* format it asked for, on the strength of an upstream response to this    *)
(* transaction signed by a key that was trusted when the transaction began *)
(* (relay_to_downstream and consume_upstream_response). A pseudonym means  *)
(* one upstream subject to one SP, whichever transaction or instance it    *)
(* came by, and nothing to another; and no attribute is released that the  *)
(* SP is not allowed.                                                      *)
RelayBound ==
  \A r \in relayed : \A ctx \in context[r.transaction] :
    /\ r.sp = ctx.sp /\ r.acs = ctx.acs
    /\ EncryptAssertions => r.enc = ctx.enc
    /\ \A format \in ctx.format : r.name_id.format = format
    /\ r.upstream.in_response_to = {r.transaction}
    /\ r.upstream.cert \in ctx.certs
    /\ \A i \in DOMAIN r.attributes :
         r.sp \in DOMAIN deployed.allow_lists /\ r.attributes[i].name \in deployed.allow_lists[r.sp]
    /\ \A q \in relayed :
         q.transform.kind = "PersistentPerSpHmac" /\ r.transform.kind = "PersistentPerSpHmac" =>
           (q.name_id.value = r.name_id.value
              <=> <<q.sp, q.upstream.name_id.value>> = <<r.sp, r.upstream.name_id.value>>)

(* No laundering: the downstream session ends no later than any upstream   *)
(* deadline, and it is issued before they have passed.                     *)
NeverOutlivesUpstream ==
  \A r \in relayed :
    /\ r.session_end <= r.upstream.not_on_or_after
    /\ r.session_end <= r.upstream.confirmed_until
    /\ \A t \in r.upstream.session_end : r.session_end <= t
    /\ r.at < r.session_end \/ SessionLifetime = 0

(* No downgrade, and no invented evidence: the class advertised downstream *)
(* satisfies what the downstream SP required - propagated upstream or not  *)
(* - and is the upstream one or claims nothing.                            *)
NonDowngrade ==
  \A r \in relayed :
    /\ \A ctx \in context[r.transaction] : \A q \in ctx.requested :
         is_satisfied(q, r.class_ref)
    /\ r.class_ref \in r.upstream.class_ref \cup {"Unspecified"}
=============================================================================
