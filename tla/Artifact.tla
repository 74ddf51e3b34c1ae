------------------------------ MODULE Artifact ------------------------------
(***************************************************************************)
(* The HTTP-Artifact binding (src/src/binding/artifact.rs) end to end: the *)
(* IdP issues a response as a Type-4 artifact and pins who may fetch it    *)
(* (src/src/idp.rs), the browser carries the artifact to the SP's ACS, the *)
(* SP resolves it over SOAP and validates what comes back (src/src/sp.rs). *)
(*                                                                         *)
(* Three exchanges overlap: AuthnRequests at the IdP, artifact deliveries  *)
(* at the SPs, ArtifactResolves at the IdP's resolution services. The      *)
(* application stores each issued pair (response, transaction) under the   *)
(* artifact and takes it atomically, but only after                        *)
(* consume_artifact_resolve has succeeded. Artifacts, resolve requests and *)
(* their answers may be repeated and delivered to the wrong party.         *)
(***************************************************************************)
EXTENDS ConsumeResponse

CONSTANTS
  Idp, Provider,      \* identity providers and service providers
  IdpCerts, SpCerts,  \* IdpCerts[i], SpCerts[s]: signing certificates they use
  Ars,                \* Ars[i]: the ARS endpoints i is configured with, in order
  IdpMetadata,        \* IdpMetadata[i]: descriptors [certs, ars] of i over time
  SpMetadata,         \* SpMetadata[s]: certificate sets of s's metadata over time
  Login,              \* AuthnRequest IDs
  Handle,             \* random MessageHandles
  Call,               \* consume_response_artifact calls, also their request IDs
  CallSp,             \* CallSp[c]: the SP that makes call c
  Handler,            \* requests the IdP's resolution services handle
  Sign,               \* Sign[s]: options of the key s signs its requests with
  RequireSigned,      \* require_signed of consume_artifact_resolve
  Verify,             \* options of VerifyConfig calls use: require_signed
  Lifetime, Skew, Capacity, MaxTime,
  MaxForeign          \* bound on resolve requests made outside the calls

(* IdentityProvider::new: the indices of the resolution services differ.   *)
UniqueIndices(i) ==
  \A n, m \in DOMAIN Ars[i] : Ars[i][n].index = Ars[i][m].index => n = m

(* What an SP's metadata lists are certificates of that SP.                *)
ASSUME ArtifactAssumption ==
  /\ \A i \in Idp : /\ Ars[i] \in Seq([index : Nat, url : STRING, is_default : BOOLEAN])
                    /\ UniqueIndices(i)
  /\ \A s \in Provider : SpMetadata[s] \subseteq SUBSET SpCerts[s]
  /\ CallSp \in [Call -> Provider]
  /\ Lifetime \in Nat /\ Skew \in Nat \ {0} /\ Capacity \in Nat
  /\ MaxTime \in Nat /\ MaxForeign \in Nat
  /\ RequireSigned \in BOOLEAN /\ Verify \subseteq {{}, {TRUE}, {FALSE}}

VARIABLES
  clock,
  idpmeta,    \* idpmeta[i]: the SPs' copy of i's metadata [certs, ars]
  spmeta,     \* spmeta[s]: the IdPs' copy of s's signing certificates
  tracker,    \* tracker[l]: option of the LoginTracker (and the SP holding it)
  request,    \* request[l]: option of the ParsedAuthnRequest at the IdP
  issued,     \* issued[h]: option of the artifact with handle h
  taken,      \* handles whose stored pair the application has taken
  resolves,   \* ArtifactResolve requests sent
  handler,    \* handler[g]: a consume_artifact_resolve call and what follows
  store,      \* the replay cache the resolution services share
  replies,    \* ArtifactResponses sent
  call        \* call[c]: a consume_response_artifact call

vars == <<clock, idpmeta, spmeta, tracker, request, issued, taken, resolves,
          handler, store, replies, call>>

AllSpCerts == UNION {SpCerts[s] : s \in Provider}

AcsOf(s) == [url |-> s, binding |-> "HttpArtifact"]

Sp(s) == [entity |-> s, acs |-> {AcsOf(s)}, allow_unsolicited |-> FALSE,
          want_response |-> FALSE, want_assertions |-> TRUE, skew |-> Skew]

Idle == [pc |-> "idle"]

Init ==
  /\ clock = 0
  /\ idpmeta \in [Idp -> UNION {IdpMetadata[i] : i \in Idp}]
  /\ \A i \in Idp : idpmeta[i] \in IdpMetadata[i]
  /\ spmeta \in [Provider -> UNION {SpMetadata[s] : s \in Provider}]
  /\ \A s \in Provider : spmeta[s] \in SpMetadata[s]
  /\ tracker = [l \in Login |-> {}] /\ request = [l \in Login |-> {}]
  /\ issued = [h \in Handle |-> {}] /\ taken = {}
  /\ resolves = {} /\ replies = {} /\ store = EmptyStore
  /\ handler = [g \in Handler |-> Idle]
  /\ call = [c \in Call |-> Idle]

Tick ==
  /\ clock < MaxTime
  /\ clock' = clock + 1
  /\ UNCHANGED <<idpmeta, spmeta, tracker, request, issued, taken, resolves,
                 handler, store, replies, call>>

(* Either side's copy of the other's metadata changes at any time.         *)
IdpMetadataRefresh(i, d) ==
  /\ idpmeta[i] # d
  /\ idpmeta' = [idpmeta EXCEPT ![i] = d]
  /\ UNCHANGED <<clock, spmeta, tracker, request, issued, taken, resolves,
                 handler, store, replies, call>>

SpMetadataRefresh(s, certs) ==
  /\ spmeta[s] # certs
  /\ spmeta' = [spmeta EXCEPT ![s] = certs]
  /\ UNCHANGED <<clock, idpmeta, tracker, request, issued, taken, resolves,
                 handler, store, replies, call>>

-----------------------------------------------------------------------------
(* The login: start_login at the SP, consume_authn_request at the IdP.     *)

(* The tracker pins the resolution services along with the certificates;   *)
(* their indices must be unique.                                           *)
validate_and_pin_artifact_resolution_services(ars) ==
     Reject(ars = {}, "UnsupportedByPeer")
  && Reject(\E e, f \in ars : e # f /\ e.index = f.index, "InvalidConfiguration")

start_login(l, s, i) ==
  /\ tracker[l] = {}
  /\ idpmeta[i].certs # {}                           \* NoPeerSigningCert
  /\ validate_and_pin_artifact_resolution_services(idpmeta[i].ars) = "Ok"
  /\ tracker' = [tracker EXCEPT ![l] =
       {[request_id |-> l, issued_at |-> clock, sp |-> s, idp |-> i, acs |-> AcsOf(s),
         certs |-> idpmeta[i].certs, ars |-> idpmeta[i].ars,
         format |-> {}, requested |-> {}]}]
  /\ UNCHANGED <<clock, idpmeta, spmeta, request, issued, taken, resolves,
                 handler, store, replies, call>>

(* validated_sp and validated_signing_cert_fingerprints of the request.    *)
consume_authn_request(l, t) ==
  /\ request[l] = {}
  /\ request' = [request EXCEPT ![l] = {[sp |-> t.sp, idp |-> t.idp,
                                         certs |-> spmeta[t.sp]]}]
  /\ UNCHANGED <<clock, idpmeta, spmeta, tracker, issued, taken, resolves,
                 handler, store, replies, call>>

-----------------------------------------------------------------------------
(* Issuing: the default resolution service, or else the first one, is      *)
(* written into the artifact.                                              *)

artifact_resolution_service_for(i) ==
  LET defaults == {n \in DOMAIN Ars[i] : Ars[i][n].is_default} IN
  Ars[i][IF defaults = {} THEN 1
         ELSE CHOOSE n \in defaults : \A m \in defaults : n <= m]

make_artifact(i, h) ==
  [source_id |-> i, endpoint_index |-> artifact_resolution_service_for(i).index,
   message_handle |-> h]

(* bind_artifact: who asked, and the keys it was known by when it asked.   *)
bind_artifact(r, artifact) ==
  [artifact |-> artifact, sp |-> r.sp, certs |-> r.certs]

(* The issued response, by what the SP will check (see IdpSso).            *)
IssuedPayload(l, r, h, k) ==
  [aid |-> h, issuer |-> r.idp, in_response_to |-> {l}, url |-> r.sp,
   not_on_or_after |-> clock + Lifetime, confirmed_until |-> clock + Lifetime,
   session_end |-> {}, class_ref |-> {"Password"}, one_time_use |-> FALSE,
   cert |-> k, name_id |-> [format |-> "Transient", sp_name_qualifier |-> {}]]

(* What the application stores: the redirect's artifact and response, and  *)
(* the transaction.                                                        *)
issue_artifact(l, r, h, k) ==
  [artifact |-> make_artifact(r.idp, h), login |-> l,
   transaction |-> bind_artifact(r, make_artifact(r.idp, h)),
   response |-> IssuedPayload(l, r, h, k)]

issue_response_with_artifact_transaction(l, r, h, k) ==
  /\ Ars[r.idp] # <<>>                               \* UnsupportedByPeer
  /\ issued[h] = {}
  /\ \A g \in Handle : \A a \in issued[g] : a.login # l
  /\ issued' = [issued EXCEPT ![h] = {issue_artifact(l, r, h, k)}]
  /\ UNCHANGED <<clock, idpmeta, spmeta, tracker, request, taken, resolves,
                 handler, store, replies, call>>

-----------------------------------------------------------------------------
(* consume_response_artifact at SP s, up to the outbound request.          *)

(* The call: its arguments, the clock read on arrival and, later, the      *)
(* answer; sign and verify are the two options of ArtifactBackchannel.     *)
ConsumeArtifactResponse(s, t, i, artifact, sign, verify) ==
  [pc |-> "resolving", sp |-> s, tracker |-> t, idp |-> i, roots |-> idpmeta[i].certs,
   artifact |-> artifact, sign |-> sign, verify |-> verify, now |-> clock, reply |-> {}]

(* The call handed to consume_response once there is a message m.          *)
ResponseCall(x, m) ==
  [msg |-> m, tracker |-> x.tracker, idp |-> x.idp, roots |-> x.roots,
   route |-> AcsOf(x.sp), mode |-> "NoCache", now |-> x.now]

(* The certificates offered for the envelope, cut down to the pinned ones. *)
EnvelopeCerts(x) == {k \in x.roots : \A t \in x.tracker : k \in t.certs}

(* Mutant: the SourceID is taken for routing data the IdP will check.      *)
AnySource(t, artifact) == "Ok"

(* The artifact names the tracked IdP.                                     *)
SourceCheck(t, artifact) ==
  Reject(artifact.source_id # t.idp, "ArtifactSourceIdMismatch")

(* The pinned resolution service of the index in the artifact.             *)
PinnedArs(t, artifact) == {e \in t.ars : e.index = artifact.endpoint_index}

Preflight(x) ==
     validate_tracker_context(Sp(x.sp), ResponseCall(x, {}))
  && Reject(x.tracker = {}, "ArtifactTrackerRequired")
  && (IF \A t \in x.tracker : SourceCheck(t, x.artifact) = "Ok"
        THEN "Ok" ELSE "ArtifactSourceIdMismatch")
  && Reject(\E t \in x.tracker : PinnedArs(t, x.artifact) = {},
            "ArtifactResolutionServiceMismatch")
  && Reject(x.verify # {} /\ EnvelopeCerts(x) = {}, "IdpTrustRootMismatch")

build_artifact_resolve(x, c, url) ==
  [request_id |-> c, issuer |-> x.sp, artifact |-> x.artifact, destination |-> url,
   issue_instant |-> clock, sig |-> x.sign, by |-> "call"]

(* Refusals of the preflight end the call without a message, and are not   *)
(* recorded.                                                               *)
StartResolve(c, s, t, i, artifact, sign, verify) ==
  LET x == ConsumeArtifactResponse(s, t, i, artifact, sign, verify) IN
  /\ call[c].pc = "idle"
  /\ Preflight(x) = "Ok"
  /\ call' = [call EXCEPT ![c] = x]
  /\ \E p \in t : \E e \in PinnedArs(p, artifact) :
       resolves' = resolves \cup {build_artifact_resolve(x, c, e.url)}
  /\ UNCHANGED <<clock, idpmeta, spmeta, tracker, request, issued, taken,
                 handler, store, replies>>

(* A resolve request made through the low-level API or by another party,   *)
(* with whatever request ID and key it has; no SP uses one of its random   *)
(* request IDs again.                                                      *)
ForeignResolve(q) ==
  /\ q \notin resolves
  /\ Cardinality({p \in resolves : p.by = "foreign"}) < MaxForeign
  /\ resolves' = resolves \cup {q}
  /\ UNCHANGED <<clock, idpmeta, spmeta, tracker, request, issued, taken,
                 handler, store, replies, call>>

-----------------------------------------------------------------------------
(* consume_artifact_resolve at a resolution service of IdP i: request q,   *)
(* the descriptor of SP s and the transaction tr, found by the application *)
(* from the unauthenticated contents of q, and the service's own URL.      *)

(* The resolution service the artifact names.                              *)
ReceivingArs(i, artifact) ==
  {e \in {Ars[i][n] : n \in DOMAIN Ars[i]} : e.index = artifact.endpoint_index}

(* Mutant: the certificates pinned with the AuthnRequest are not used.     *)
CurrentSpCerts(s, tr) == spmeta[s]

(* Mutant: all current certificates must have been pinned.                 *)
OnlyPinnedCerts(s, tr) == IF spmeta[s] \subseteq tr.certs THEN spmeta[s] ELSE {}

(* The verification candidates: current and pinned.                        *)
pinned_sp_certs(s, tr) == spmeta[s] \cap tr.certs

ResolveSignature(q, s, tr) ==
  IF q.sig = {} THEN Reject(RequireSigned, "SignatureMissing")
  ELSE Reject(pinned_sp_certs(s, tr) = {}, "ArtifactSpTrustRootMismatch")
    && Reject(~(q.sig \subseteq pinned_sp_certs(s, tr)), "SignatureVerification")

(* Both ends of the freshness window are inside it.                        *)
ResolveExpired(q) == q.issue_instant + Skew < clock \/ q.issue_instant > clock + Skew

ResolveVerdict(i, q, s, tr, url) ==
     Reject(tr.artifact.source_id # i, "MalformedArtifact")
  && Reject(ReceivingArs(i, tr.artifact) = {}, "MalformedArtifact")
  && Reject(\E e \in ReceivingArs(i, tr.artifact) : e.url # url, "InvalidConfiguration")
  && Reject(q.issuer # s, "IssuerMismatch")
  && Reject(q.issuer # tr.sp, "IssuerMismatch")
  && Reject(q.artifact # tr.artifact, "MalformedArtifact")
  && Reject(q.destination # url, "DestinationMismatch")
  && Reject(ResolveExpired(q), "Expired")
  && ResolveSignature(q, s, tr)

(* Mutant: the tombstone expires with the last instant it is needed for.   *)
EntryWithoutMargin(q, tr) ==
  ReplayEntry("ArtifactResolve", <<tr.sp, q.request_id>>, q.issue_instant + Skew)

(* Mutant: request IDs are taken to be unique across service providers.    *)
EntryByRequestId(q, tr) ==
  ReplayEntry("ArtifactResolve", <<CHOOSE s \in Provider : TRUE, q.request_id>>,
              q.issue_instant + Skew + 1)

(* The tombstone of the request, one millisecond (the unit of the clock)   *)
(* longer than the window, because the cache's expiry is exclusive.        *)
ResolveEntry(q, tr) ==
  ReplayEntry("ArtifactResolve", <<tr.sp, q.request_id>>, q.issue_instant + Skew + 1)

(* Earlier refusals leave no trace and are not recorded.                   *)
consume_artifact_resolve(g, i, q, s, tr, url) ==
  LET entries == <<ResolveEntry(q, tr)>> IN
  /\ handler[g].pc = "idle"
  /\ ResolveVerdict(i, q, s, tr, url) = "Ok"
  /\ store' = StoreAfter(store, entries, clock, Capacity)
  /\ handler' = [handler EXCEPT ![g] =
       [pc |-> CacheVerdict(Outcome(store, entries, clock, Capacity),
                            "ArtifactResolveReplay"),
        idp |-> i, request |-> q, sp |-> tr.sp]]
  /\ UNCHANGED <<clock, idpmeta, spmeta, tracker, request, issued, taken,
                 resolves, replies, call>>

(* The application takes the stored pair and has the answer built and      *)
(* signed; a pair that is gone is answered with an HTTP error.             *)
build_artifact_response(q, a, k) ==
  [in_response_to |-> q.request_id, destination |-> {}, sig |-> {k}, payload |-> a.response,
   artifact |-> a.artifact, request |-> q]

TakeAndAnswer(g, k) ==
  LET q == handler[g].request
      h == q.artifact.message_handle
  IN
  /\ handler[g].pc = "accepted"
  /\ handler' = [handler EXCEPT ![g].pc = IF h \in taken THEN "gone" ELSE "served"]
  /\ taken' = taken \cup {h}
  /\ replies' = replies \cup
       {build_artifact_response(q, a, k) : a \in {a \in issued[h] : h \notin taken}}
  /\ UNCHANGED <<clock, idpmeta, spmeta, tracker, request, issued, resolves,
                 store, call>>

-----------------------------------------------------------------------------
(* The rest of consume_response_artifact, after the await.                 *)

(* Mutant: any ArtifactResponse is taken for the answer.                   *)
AnyAnswer(c, r) == "Ok"

(* The answer is correlated before its signature or payload is used. The   *)
(* outer Issuer and Destination are not required on this path.             *)
validate_artifact_response_protocol(c, r) ==
  Reject(r.in_response_to # c, "InResponseToMismatch")

verify_artifact_response(x, r) ==
  Reject(\E required \in x.verify : r.sig = {} /\ required, "SignatureMissing")
  && Reject(x.verify # {} /\ ~(r.sig \subseteq EnvelopeCerts(x)), "SignatureVerification")

AnswerVerdict(c, x, r) ==
     validate_artifact_response_protocol(c, r)
  && verify_artifact_response(x, r)
  && Validation(Sp(x.sp), ResponseCall(x, r.payload))

FinishResolve(c, r) ==
  LET verdict == AnswerVerdict(c, call[c], r) IN
  /\ call[c].pc = "resolving"
  /\ call' = [call EXCEPT ![c].pc = IF verdict = "Ok" THEN "accepted" ELSE verdict,
                          ![c].reply = {r}]
  /\ UNCHANGED <<clock, idpmeta, spmeta, tracker, request, issued, taken,
                 resolves, handler, store, replies>>

(* An HTTP error, a SOAP Fault or a Status other than Success.             *)
ResolveFails(c) ==
  /\ call[c].pc = "resolving"
  /\ call' = [call EXCEPT ![c].pc = "failed"]
  /\ UNCHANGED <<clock, idpmeta, spmeta, tracker, request, issued, taken,
                 resolves, handler, store, replies>>

-----------------------------------------------------------------------------

Issued == UNION {issued[h] : h \in Handle}

Next ==
  \/ Tick
  \/ \E i \in Idp : \E d \in IdpMetadata[i] : IdpMetadataRefresh(i, d)
  \/ \E s \in Provider : \E certs \in SpMetadata[s] : SpMetadataRefresh(s, certs)
  \/ \E l \in Login, s \in Provider, i \in Idp : start_login(l, s, i)
  \/ \E l \in Login : \E t \in tracker[l] : consume_authn_request(l, t)
  \/ \E l \in Login, h \in Handle : \E r \in request[l] : \E k \in IdpCerts[r.idp] :
       issue_response_with_artifact_transaction(l, r, h, k)
  \/ \E c \in Call, i \in Idp, a \in Issued, verify \in Verify :
       \E sign \in Sign[CallSp[c]], t \in {{}} \cup {tracker[l] : l \in Login} :
         /\ \A p \in t : p.sp = CallSp[c]
         /\ StartResolve(c, CallSp[c], t, i, a.artifact, sign, verify)
  \/ \E id \in Call, s \in Provider, a \in Issued : \E k \in AllSpCerts \ SpCerts[CallSp[id]],
       e \in ReceivingArs(a.artifact.source_id, a.artifact) :
         ForeignResolve([request_id |-> id, issuer |-> s, artifact |-> a.artifact,
                         destination |-> e.url, issue_instant |-> clock,
                         sig |-> {k}, by |-> "foreign"])
  \/ \E g \in Handler, i \in Idp, q \in resolves, s \in Provider, a \in Issued :
       \E n \in DOMAIN Ars[i] :
         consume_artifact_resolve(g, i, q, s, a.transaction, Ars[i][n].url)
  \/ \E g \in Handler : handler[g].pc = "accepted"
       /\ \E k \in IdpCerts[handler[g].idp] : TakeAndAnswer(g, k)
  \/ \E c \in Call, r \in replies : FinishResolve(c, r)
  \/ \E c \in Call : ResolveFails(c)

Spec == Init /\ [][Next]_vars

-----------------------------------------------------------------------------

Type4Artifact ==
  [source_id : Idp, endpoint_index : Nat, message_handle : Handle]

ArtifactResolveTransaction ==
  [artifact : Type4Artifact, sp : Provider, certs : SUBSET AllSpCerts]

ArtifactResolveRequest ==
  [request_id : Call, issuer : Provider, artifact : Type4Artifact, destination : STRING,
   issue_instant : Nat, sig : SUBSET AllSpCerts, by : {"call", "foreign"}]

(* Type correctness of what the two roles exchange, of the handlers and of *)
(* the cache: its keys are pairs of an SP and one of its request IDs.      *)
TypeOK ==
  /\ clock \in Nat
  /\ \A h \in Handle : \A a \in issued[h] :
       a.transaction \in ArtifactResolveTransaction /\ a.artifact.message_handle = h
  /\ taken \subseteq {h \in Handle : issued[h] # {}}
  /\ resolves \subseteq ArtifactResolveRequest
  /\ \A g \in Handler : handler[g] = Idle \/ handler[g].request \in resolves
  /\ \A r \in replies : r.request \in resolves /\ r.artifact.message_handle \in taken
  /\ DOMAIN store \subseteq {"ArtifactResolve"} \X (Provider \X Call)
  /\ \A c \in Call : call[c] = Idle \/ (call[c].sp \in Provider /\ call[c].reply \subseteq replies)

Authorised == {g \in Handler : handler[g].pc \in {"accepted", "served", "gone"}}

(* A response leaves the store only for the SP the IdP issued it to, and   *)
(* on a request signed with a key the IdP knew that SP by when it          *)
(* validated the AuthnRequest, however metadata and requests change hands  *)
(* in between (bind_artifact, consume_artifact_resolve).                   *)
DisclosedToAddressee ==
  \A r \in replies : \A l \in r.payload.in_response_to : \A q \in request[l] :
    /\ r.request.issuer = q.sp
    /\ r.request.sig \subseteq q.certs
    /\ RequireSigned => r.request.sig # {}

(* A captured ArtifactResolve is good for one authorisation, on any number *)
(* of handlers, to the last instant of its freshness window.               *)
ResolveOnce ==
  \A g, h \in Authorised : g # h => handler[g].request # handler[h].request

(* A request refused as a replay repeats the ID of an earlier request of   *)
(* the same SP that passed every check: service providers cannot use up    *)
(* each other's request IDs, and a refused request does not use up its own.*)
ReplayIsOwn ==
  \A g \in Handler : handler[g].pc = "ArtifactResolveReplay" =>
    \E h \in Authorised :
      /\ handler[h].request.issuer = handler[g].request.issuer
      /\ handler[h].request.request_id = handler[g].request.request_id

(* An artifact is sent only to a resolution service that the IdP which     *)
(* issued it has published, although the SP takes artifacts and            *)
(* descriptors of several IdPs (consume_response_artifact checks the       *)
(* tracker and the SourceID before the network).                           *)
ArtifactStaysHome ==
  \A q \in resolves : q.by = "call" =>
    \E d \in IdpMetadata[q.artifact.source_id] : \E e \in d.ars : e.url = q.destination

(* The response an SP accepts is the one that was issued under the         *)
(* artifact the browser presented, for the login whose tracker was used,   *)
(* although resolutions overlap and answers may be mixed up.               *)
ResolvedIsPresented ==
  \A c \in Call : call[c].pc = "accepted" =>
    \A r \in call[c].reply : \A t \in call[c].tracker :
      /\ r.artifact = call[c].artifact
      /\ r.payload.in_response_to = {t.request_id}
      /\ r.payload.issuer = t.idp /\ r.payload.url = t.sp

(* A login over an artifact does not fail for what is none of its doing. The *)
(* SP's own fresh request for its own artifact is served, provided its key   *)
(* was known at the AuthnRequest and still is: a certificate added to the    *)
(* metadata in between does not stand in the way. And an answer to that      *)
(* request, for the artifact of the login at hand, under keys pinned then    *)
(* and listed now, within the response's validity, completes the login.      *)
OwnExchangeCompletes ==
  /\ \A q \in resolves, a \in Issued :
       /\ q.by = "call" /\ q.artifact = a.artifact /\ q.issuer = a.transaction.sp
       /\ q.destination = artifact_resolution_service_for(a.artifact.source_id).url
       /\ q.issue_instant + Skew >= clock
       /\ q.sig # {} /\ q.sig \subseteq a.transaction.certs \cap spmeta[q.issuer]
       => ResolveVerdict(a.artifact.source_id, q, q.issuer, a.transaction, q.destination) = "Ok"
  /\ \A c \in Call : call[c].pc # "idle" =>
       \A r \in call[c].reply : \A t \in call[c].tracker :
         /\ r.in_response_to = c /\ r.request.by = "call"
         /\ r.payload.in_response_to = {t.request_id}
         /\ {r.payload.cert} \cup r.sig \subseteq t.certs \cap call[c].roots
         /\ call[c].now < r.payload.not_on_or_after
         => call[c].pc = "accepted"
=============================================================================
