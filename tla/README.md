# A TLA+ model of the `saml` crate

The repository is a SAML 2.0 toolkit in Rust: a service provider (SP) role, an
identity provider (IdP) role, a proxy that joins the two, and the message,
signature and metadata code below them. The crate opens no sockets and keeps no
sessions. Each operation is a function of its arguments: the message, the
peer's descriptor, a tracker the application stored earlier, the `now` the
application read, and, where replay matters, a cache the application shares
between its handlers. So the crate's correctness rests on what one call leaves
for the next one to check. That is what these modules are about: the same
message presented twice, answers crossing over between logins, metadata
changing between two calls, a clock value that is old when it is used.

## Inventory

| Component (source) | State it keeps, and where | Operations | What makes it correct |
|---|---|---|---|
| Replay cache (`replay.rs`) | map of tombstones behind a `Mutex` | `check_and_insert` | a key is granted once while its tombstone lives; the capacity is a hard bound and refuses nothing it need not |
| SP login (`sp.rs`) | `LoginTracker`, kept or sealed by the application; the replay cache | `start_login`, `consume_response` | a response is accepted once, in the login that asked for it, under keys that login pinned |
| Response validation (`response/validate.rs`, `parse.rs`) | none | `validate_response` | an accepted identity comes from a signed element, is meant for this SP, now, and for this request; the order of things in the message does not matter |
| AuthnContext comparator (`authn_context.rs`) | none | `evaluate` | the four comparisons mean what the SAML specification says |
| IdP (`idp.rs`, `authn/*`, `response/issue.rs`) | `ParsedAuthnRequest`, held by the application while the user signs in | `consume_authn_request`, `issue_response`, `issue_unsolicited`, `issue_error_response` | an answer goes to the SP, the endpoint and the request it was asked by, at no weaker an authentication and no less encrypted |
| Single logout (`logout/*`, `sp.rs`, `idp.rs`) | `LogoutTracker`, sessions: both the application's | `start_logout`, `consume_logout_request`, `build_logout_response`, `consume_logout_response`, `send_soap_logout_request` | a logout is reported complete only if the peer ended its session for that request |
| Front-channel chain (`proxy.rs`) | index, tracker, pending outcomes | `start`, `advance` | one truthful outcome per target; the chain ends |
| Proxy (`proxy.rs`) | sealed context in the browser, the replay cache, `UpstreamFlow` in memory | `bounce_to_upstream`, `consume_upstream_response`, `relay_to_downstream` | one flow per downstream login; no downgrade, no longer session, no other recipient than was asked for |
| Artifact binding (`binding/artifact.rs`, `idp.rs`, `sp.rs`) | `ArtifactResolveTransaction` in a store of the application | `bind_artifact`, `consume_artifact_resolve`, `consume_response_artifact` | an artifact is resolved once, by the SP it was issued to |
| Documents (`xml/*`, `schema.rs`, `authn/*`, `logout/*`, `response/issue.rs`, `parse.rs`) | none | builders, emitter, tree builder, schema walker, readers | what a writer was given is what the reader gets; a document of the crate's own making is never refused by it |
| Signatures (`dsig/*`) | none | canonicalize, sign, verify | a signature holds wherever its element is carried, and covers that element only |
| XML Encryption (`xmlenc/*`, `crypto/keypair.rs`) | none | encrypt, decrypt | the recipient opens it through a key rollover, under its own policy, whatever parameters a conformant peer declares |
| Bindings (`binding/*`) | none; a message ID in ECP | Redirect, POST, SOAP, PAOS encoders and decoders | message, RelayState and signature arrive as they were sent |
| Metadata (`metadata/*`, `descriptor/*`) | none | emit, read at once, read as a stream, descriptors | all readers see the same entities, and trusted ones only under the trusted key |
| IdP discovery (`disco/*`) | a cookie | redirects and their checks, `record`, `truncate_to_fit` | only a registered endpoint is sent to; most recent IdP last, no duplicates |
| Time (`time.rs`) | none | read and write `xs:dateTime` | both are the calendar's, and inverse to each other |
| Keys, certificates (`crypto/*`) | none | decoding, RSA, ECDSA | cryptography; ideal here |
| Example applications (`examples/*`) | sessions, pending requests, trackers, artifacts, registry | login, logout, boot | a session is earned by a password typed for it; a logout that is shown was performed |

How the parts interact: `consume_response` calls `validate_response`, which
calls the signature verifier and the comparator, then asks the cache. The proxy
calls the SP's `start_login` and `consume_response` with a tombstone of its own
in place of the assertion's, and the IdP's `issue_response`. The chain calls the
IdP's `start_logout` and `consume_logout_response` for one target after another.
Between two operations of one login everything travels through a browser, which
may repeat, delay, reorder or cross-deliver it, and the application may have
loaded new metadata.

The hard behaviours, each at its line, are the `hazards` of `PROJECT.json`:
concurrent presentations of one response; the cache at its capacity and at the
boundary of an expiry; stale clock values; stale metadata at every second step;
responses and logout answers out of order; a failure in the middle of `advance`;
the application mixing up the requests it works on; tabs, old forms and evictions
around one login; and, below the protocol, a document that is built in one
order, read in another, moved into an envelope, signed twice or encrypted.

## Modules

```
ReplayStore ---- ReplayCache ----refines---- ReplayContract
     |
     +--- ConsumeResponse --- ResponseValidation --- Signatures
               |     |                 \____________ AuthnContext
               |     +--- SpLogin
               |     +--- Proxy
               |     +--- WebSso --- IdpSso
               |     +--- Artifact
LogoutMessages --- SingleLogout
               \-- FrontChannelChain

XmlTree --- XmlSignature --- Bindings --- Metadata, XmlEncryption
        \-- Messages ------/                 \
                                              Delivery --- DeliveryContract

WebApp (ExpiringStore, IdpSso, LogoutMessages) --- IdpApp, DemoSp --- ExampleApps

proofs, each beside its component: ReplayCacheProofs, SpLoginProofs (with
ResponseValidation), ProxyProofs, WebSsoProofs, ArtifactProofs, SingleLogoutProofs,
FrontChannelChainProofs, ExampleAppsProofs
```

* **ReplayStore** holds the map of `InMemoryReplayCache` and the effect of
  `check_and_insert` as operators on a store (sweep, conflict, capacity,
  insert, in the order of the code). Every module with a cache applies them to a
  variable of its own. **ReplayCache** is the state machine: one step per call,
  since the call holds the mutex; `now` is an argument and may be up to `MaxLag`
  behind the clock. **ReplayContract** is the trait's promise, in which no grant
  is forgotten.
* **AuthnContext**, **Signatures**, **ResponseValidation**: pure decisions. A
  signature is who made it, which element it covers and whether it is intact. A
  response is a record of what `validate_response` reads. `a && b` is the `?`
  operator: the first refusal wins, so the order of the checks is that of the
  code. An `Option` is a set with at most one element.
* **ConsumeResponse** is `consume_response_with_replay` around
  `validate_response`: the tracker's own checks, the certificates (those pinned
  at `start_login` that are still in the metadata), the NameID checks, the
  `OneTimeUse` rule and the cache entry.
* **SpLogin** runs it with concurrent handlers. `Receive` takes a message, some
  tracker, some descriptor and reads the clock; a later step is the synchronous
  call. `PeerSends` is any holder of a signing key.
* **IdpSso** has the IdP's operations as operators; **WebSso** composes them
  with `start_login`, the browser and the SP's verdict. The IdP's application
  keeps several requests at once, passes XML, RelayState and query signature as
  three arguments, looks descriptors up again, and can write the public fields
  of a `ParsedAuthnRequest` (`MixUp`); the private `ValidatedBinding` it cannot.
* **LogoutMessages** builds and consumes logout messages for both roles, with
  the place each role puts its signature on each binding. **SingleLogout**
  exchanges them between any parties, and records in `ended` who ended a session,
  with whom, and on which request; **FrontChannelChain** is the helper that
  drives them one target at a time.
* **Proxy** is the three proxy operations over several `Proxy` values that share
  a cache. What surrounds them (peers, keys, requested contexts, bounds) is a
  record of `Deployment`, chosen at the start.
* **Artifact** is the HTTP-Artifact binding end to end. The IdP binds a response
  to an artifact and a transaction, which fixes who may fetch it and with which
  keys; the browser carries the artifact; `consume_response_artifact` of the SP
  is two steps, as it awaits the back channel: the checks and the outgoing
  `ArtifactResolve`, then the validation of the answer, or its loss. A handler of the
  IdP is two: `consume_artifact_resolve`, which reserves the request id in the
  cache, and the application taking the stored pair and answering.
  `ForeignResolve` is a request made with the low-level API.

* The NameID transforms and the attribute release policies are operators of
  **Proxy**; a transform is an argument of `relay_to_downstream`, as in the code.
* **XmlTree** is the reader's tree builder, as a fold over events, with its
  scopes, limits and duplicate-ID check, and the emitter with its choice of
  prefixes. **XmlSignature** canonicalizes, to a sequence of events like any
  document, and builds, places and verifies signatures: a digest is what it is
  taken of, a signature value is the key and the octets.
  XmlTree also has the walker of `schema.rs` with the shapes it is given, and
  xs:dateTime.
* **Messages** builds and reads responses, assertions, AuthnRequests
  and logout messages; **Metadata** does so for descriptors and aggregates, the
  latter also by the event loop of `stream_entity_elements`, and has IdP
  discovery; **Bindings** (the PAOS exchange among them) and **XmlEncryption** are
  the remaining pure parts. A text is a sequence of fragments, of which white space
  is one; names and URIs are short strings with an order (`Lexicon`), since
  canonicalization sorts them.
* **Delivery** composes them: a *job* is a document to be taken from its writer
  to its reader over one carrier, `Deliver` takes it there, and *outcome* is what
  the reader got. Where another implementation writes or carries it (a peer's
  query spelling, a peer's encryption, a federation's nested aggregate, an
  enhanced client) that is an external definition. **DeliveryContract** says,
  from the writer's input alone and with none of the steps in between, what the
  reader is owed: this is the abstract specification of the document layer.
* **ExpiringStore** is the table with age and capacity that the examples keep
  their pending requests and trackers in, **IdpApp** and **DemoSp** are the
  handlers of the two programs, **ExampleApps** composes them with processes
  that boot, and browsers with tabs, cookies and a back button. A browser may also
  open the IdP's login and continue pages by their address, with the ID of any
  request that waits there (`Open`). Handlers call the crate through `IdpSso` and
  `LogoutMessages`.

The `MC*` modules give the constants values for TLC. The operators marked
*Mutant* in a comment are plausible slips in the code that a property is shown to
catch; no specification uses them.

## Runs

All runs set `CHECK_DEADLOCK FALSE`: the clock and the number of messages are
bounded, and a system in which everything has been said may stop.

| Run | Question | Bounds |
|---|---|---|
| `MCDocuments` | Is every accepted response authenticated, bound and timely, and is the verdict independent of order, presenter and additional keys? And is every document read as it was written? Beside them: does the cache implement its contract, keep tombstones and respect its capacity? | some 19,700 validation inputs (signature placement x demands x encryption, pairs of confirmations, windows around `now`, requests of up to two class references) and some 11,900 documents, see below; for the cache 2 ids of one namespace and one of them in another, batches of 1 and 2 entries (one with a repeated key), capacity 2, expiries 1..3, clock 0..3. `which` says which of the three a behaviour is about |
| `MCSpLogin` | Is a response accepted once, for every replay setting, and is the cache used only for accepted responses? Is a login completed only by what it was started with? | two instances side by side. *cache*: 3 handlers, 2 messages, 2 assertion ids, cache of one tombstone, clock 0..2 with lifetime and skew 1. *bind*: 2 IdPs (one with two keys), 2 logins, 2 endpoints and a route with the other binding, 2 NameIDs |
| `MCSpLoginLag` (violation) | The same with a handler whose `now` is one behind | as `MCSpLogin`, `MaxLag = 1` |
| `MCWebSso` | Are requests authentic, answers bound, encryption kept, and do the two roles agree? | 2 SPs sharing an ACS URL, 2 requests in hand, a stray request, two IdP configurations, one answer |
| `MCSingleLogout` | Are outcomes truthful, and do sessions end only where asked? | IdP and 2 SPs, 2 concurrent logouts, two deployments: POST and Redirect, POST and SOAP |
| `MCSingleLogoutRedirect` (violation) | Are Redirect responses signed? | Redirect only, all signatures demanded |
| `MCFrontChannelChain` | Are outcomes truthful and counted, what does `advance` verify, and does the chain end? | 3 targets that sign, the second answering over POST or Redirect, an IdP that wants responses signed, one failing `start_logout`, two statuses |
| `MCFrontChannelChainRetry` (violation) | Do the outcomes parallel the targets? | 3 targets over POST, one failing `start_logout` |
| `MCProxy` | Is there one flow per downstream login, and is the relayed assertion bound, capped and no downgrade? | four deployments: 2 instances, 2 transactions, 2 assertions, 2 calls and a clock past the context's expiry; or 2 downstream SPs with changing keys and endpoints, 2 upstream keys, four class references; or 2 upstream subjects, 2 SPs with allow lists and the three NameID transforms; or one login whose assertion, confirmation and session end in any order |
| `MCArtifact` | Is an artifact's response given once, to the SP it was issued for, and accepted only in the login that presented it; is the honest resolution served? | 2 SPs, 2 IdPs (one with two resolution services), 2 logins, handles, calls and handlers, 1 foreign request, clock 0..2, skew 1, lifetime 2, cache of 2 |
| `MCExampleApps` | Is every session earned and every logout shown performed; what gets round a demanded password; do the tables lose only what is stale or oldest; does booting end? | 1 browser with tabs, 2 IdPs, the demo SP and a foreign one, 2 logins, 2 logouts, 1 page opened by its address, tables of 2 and 1, pending requests stale after 2, clock 1..3; 4 acts of users, of which a page opened by its address and a resubmission count as two |
| `MCExampleAppsForced` (violation) | Is a request that demands a fresh login answered only after one? | the same, clock 1..2 |

The documents of `MCDocuments`, by the kind of their job:

* `response`, `message`, `ecp`: responses over POST and SOAP with every pair of
  signers (none, the trusted key, another), statuses, NameID formats and
  qualifiers; AuthnRequests, LogoutRequests and LogoutResponses over Redirect, POST and SOAP,
  also with a peer's spelling and order of the query; the PAOS exchange with the
  message ID and consumer URL that are expected, and others.
* `encrypted`: certificates before and in a rollover, with one that is not RSA;
  keys in either order; both builds (with and without `weak-algos`); the strong policy
  and one that accepts all; forced, possible and refused encryption.
* `peer encrypted`: every combination of declared and omitted digest and mask,
  line-folded base64, and an `EncryptedID` in a signed assertion.
* `metadata`: single entities and aggregates with and without each option, and
  federation documents whose wrappers nest and declare prefixes.
* `canonical`: two levels of every choice of declarations (a prefix declared
  again, cancelled or shadowed, two prefixes of one URI), names with every
  prefix, under the exclusive and the inclusive algorithm; text, attributes and
  comments under all four; two documents to move the element into.
* `text`, `clock`: ends of months, leap and century years, offsets, instants
  before 1970 and below a millisecond.
* `discovery`, `cookie`: return URLs that differ from a registered one in one
  part each; up to four sign-ins at three IdPs, cookies too short for one, two
  and three.

`MaxDecoded` (the cap on inflated and decoded messages) lies between the sizes of
these documents: the smaller arrive, the larger are refused, and the contract says
which. `MC_Limits`, the tree builder's limits, lie above all of them; their
checks are in the model, but no run is about them.

Why the bounds are enough. Replay needs a message, two calls that accept it and
a third call that sweeps or fills the cache in between: three handlers, two ids.
The interesting instants are the expiry, the skew after it and the instant after
that: a clock of twice the lifetime plus one. Crossing over needs two logins
and two of whatever the login pins. Staleness needs two values of the metadata.
The chain needs a first, a middle and a last target. `MCProxy` and the cache
runs let the clock pass the last expiry. The *bind* instance of `MCSpLogin`
stands still in time, as its property does not depend on it; the other and
`MCProxy` cover the age checks. A document layer has no state to explore: its
inputs are the case distinctions of the code, taken one field at a time around a
good document, and in pairs where two fields meet (the two signatures, the two
OAEP hashes, certificates and keys). `MCExampleApps` bounds what users do; two
of everything that is matched (logins, logouts, providers) suffice for a
mix-up, a table of one tracker for an eviction, and a table of two pending requests
whose entries are not yet stale for the eviction of the older. It has one browser:
two are beyond TLC, and one already sends the ID of another tab's request with a
form (`Open`). With one logout tracker a mismatch of an answer and its tracker comes
from an eviction; the theorems about these programs hold for any number of
browsers and tables of any size. `MCArtifact` explores two scenarios, a state constraint: overlapping
resolutions under settled metadata at one instant, and one resolution at a time
while clock and metadata move and requests are repeated. Its calls use no SP-side
replay cache, which `MCSpLogin` covers for the same `consume_response`. Symmetry is used for calls, handles, keys and ids, whose elements the
specifications never tell apart, and only in runs that check invariants.

Fairness is assumed in two places. `Wired` needs that processes which run go on
with their boot tasks (weak fairness of each process's own fetches); users are
never assumed to do anything. `ChainCompletes` needs that the application
calls `start`, that targets answer the requests they get, and that the browser
keeps bringing the answer of the current target: weak fairness of each. The
crate cannot promise any of that by itself, and RFC-007 leaves giving up on a
silent target to the application; the property says that, granted those, no
stale answer and no failed `start_logout` leaves the chain waiting.

## What the runs found

1. *Two winners at the end of validity* (`MCSpLoginLag`). `check_and_insert`
   sweeps with the caller's `now`. Handler A reads the clock just before a
   tombstone expires; handler B reads it after, and its call sweeps the
   tombstone; then A's call runs, validation with A's older `now` still accepts
   the assertion, and the cache no longer has the key. The trait's documentation
   says that concurrent calls must not both be told "not seen". With clock
   values that reach the cache in order (`MaxLag = 0`) the contract holds, and
   is proved. The artifact path, which awaits a back channel between reading
   the clock and asking the cache, has the widest lag.
2. *A retried `advance` counts a target twice* (`MCFrontChannelChainRetry`). The
   outcome is pushed before the next target's `start_logout`; if that fails the
   state stays, and calling `advance` again pushes another. `SurplusOutcomes`
   says exactly what remains true.
3. *The IdP's Redirect LogoutResponse is unsigned* (`MCSingleLogoutRedirect`).
   It carries an enveloped signature but no query signature, and an SP that
   demands signed responses looks only at the query on that binding.
4. *The continue page does not look at ForceAuthn* (`MCExampleAppsForced`). The
   example IdP stores a request that demands a fresh login and shows the login
   form. `finalize_continue` takes any request stored under the ID it is given and
   answers it with any live session, so a browser that leaves the form and opens
   `/saml/sso/continue` with its old session is answered without a password.
   `PromptHonoured` says what remains: only that page, opened for that request, gets
   round the demand. Another tab, a form submitted again or a session that expires
   meanwhile does not.

One more disagreement has no run of its own. RFC-007 says that `advance`
verifies each response (section 8) and that a Redirect response is verified by
its query signature (section 5.2, step 5). `advance` passes
`detached_signature: None` (`proxy.rs:1691`), so a target that signs is
recorded as unsigned when it answers over Redirect, if the IdP wants responses
signed; if it does not, the answer is believed unverified. `SignedTargetsVerify`
states the claim, and is false in `MCFrontChannelChain`. The property of that run is
what the code does keep, `PostAnswersVerified`: a completed logout has a signed
POST answer behind it (where the IdP wants one), and only a target that answered
over Redirect is called unsigned.

Observations that no run is about, because no document states the contrary as
a property of the code, or because the contract leaves the case out:

* When every SubjectConfirmation fails, `find_valid_subject_confirmation`
  returns the error of the last candidate where its comment speaks of the first
  informative one; the decision is the same.
* The documentation of `expect_response_issuer` (`binding/artifact.rs:438`) says the
  high-level SP path sets it, where `consume_response_artifact` deliberately does
  not (`sp.rs:1130`); the inner response's issuer is checked in any case.
* Schema. Comments in `schema.rs` allow `OneTimeUse` before
  `AudienceRestriction` and `AttributeStatement` before `AuthnStatement`; the
  walker refuses both orders. An `AttributeStatement` with nothing but an
  `EncryptedAttribute` is refused. None of the crate's builders write these.
* Emission ignores the prefix the source wrote and does not see shadowing. An
  element with two prefixes of one URI is emitted with the innermost, and a
  message whose prefixes are declared on `soap:Envelope`, which SOAP unwrapping
  emits anew, cannot be emitted at all. Messages of the crate's own declare
  theirs.
* A signature made with an inclusive outbound canonicalization never verifies
  with the crate's own verifier: `SignedInfo` is canonicalized standing alone on
  one side and in its document on the other. The document runs sign exclusively, the default.
* `NameIdFormat::Custom` with the URI of the persistent format is read back as
  persistent, but is not qualified by the SP when it is issued.
* `format_xs_datetime` writes years beyond 9999, which the reader refuses.
* ECP. The AuthnRequest of `SpEcp` names PAOS as `ProtocolBinding`, which the crate's
  own IdP refuses for an ACS registered as POST.
* A Redirect destination whose own query has a `RelayState` is read with that as
  the message's; discovery likewise: a return URL whose own query uses the
  parameter of the choice is answered with a duplicate, or with its own value if there is no
  choice. The contract of both leaves these queries out or says so.
* Metadata. `stream_entity_elements` skips an `EntityDescriptor` written as an empty
  element (`parse.rs:484`), which the eager reader lists as an entry of no role, and
  compares local names whatever their namespace (`parse.rs:444`), where the eager
  reader compares qualified ones. `OnEmpty` and `OnStart` do as the code does, but the
  documents of the run have neither empty entities nor foreign elements of these
  names, so `StreamingAgrees` is about the documents without them.
* A `Subject` with both a `NameID` and an `EncryptedID` is read as the latter.
* Example IdP: its overview says a request is stashed only while there is no
  session (`lib.rs:17`); it always is. A `PartialLogout` is shown as "signed
  out everywhere". The registry's background task ends with the first fetch that finds
  anything. Demo SP: the comment at the Redirect LogoutResponse speaks of trying
  every tracker of the peer; `find_by_peer` yields one, which is taken before the
  response is validated.

## Proofs

Each `*Proofs` module extends the module it is about and states its theorems for
every value of that module's constants, under the assumption named there (TLC
evaluates the assumptions on every run). The pattern is the same throughout: an
inductive invariant made of named parts, a lemma per handler that says what the
handler's verdict establishes, a lemma per step of `Next`, and one theorem
`Spec => []Inv` from which the properties follow. Each invariant was checked by
TLC on its component's run before it was proved.

**`ReplayCacheProofs`**, for every set of keys and batches, capacity and
bound on the clock:

* `TypeCorrect`: `Spec => []TypeOK`.
* `Retention`: `Spec => []TombstoneRetained`, for any `MaxLag`. The inductive
  invariant is `CacheInv`: `TypeOK`, `TombstoneRetained`, and `StoreGranted`
  (every entry of the map is a recorded grant with that expiry). The last is
  needed because a call that grants a key again must not shorten an older,
  still living grant of it; by `TombstoneRetained` such a grant would be in the
  map and the call would be refused.
* `Refinement`: `MaxLag = 0 => (Spec => ImplementsContract)`. A step maps to
  the contract's `Fresh`, `Seen` or `Refused` by its outcome. "Key in the swept
  map" equals "key has a living grant": one direction is `StoreGranted`, the
  other `TombstoneRetained`, and it is here that `now` must not be behind an
  earlier sweep. Finding 1 is what happens without the assumption.
* `Capacity_Bound`: `Spec => []CapacityBound`, from the cardinality of the map
  after a batch.
* `FullMeansLive`: `Spec => FullOnlyWhenLive`.

The only assumption of these is `CacheAssumption`: batches are sequences of entries, and
the bounds are natural numbers.

**`SpLoginProofs`**, first part: for every response and every context, not only the
inputs of the run (`WellFormed` says that the records have their fields, the
confirmations form a sequence and instants are integers):

* `AcceptedIsBound`: what `validate_response` accepts is signed as the SP demands
  by a trusted key, and its first assertion is meant for this SP, endpoint and
  request at `now`. `ValidateOk` unfolds the chain of checks into what each
  leaves behind; `SearchOk` says that the search through the confirmations
  succeeds if and only if one of them satisfies.
* `AcceptanceIsStable`: acceptance survives a presenter certificate and another
  trusted key (`Monotone`), and does not depend on the order of the confirmations
  (`OrderIrrelevant`).
* `ComparatorMeansWhatItSays`: `is_satisfied` decides the four comparisons,
  which it does with a folded minimum and maximum, as the comment of the comparator words
  them reference by reference; `ContextIsMeant` carries this to the verdict.
* `SpecAuthenticatedAndBound`, `SpecAcceptanceStable`,
  `SpecContextMeansWhatItSays` state the properties of the run; `FamilyWellFormed`
  shows that all of its inputs are in scope.

**`SpLoginProofs`**, second part: for any identity providers, logins, calls, capacity and mix
of replay settings:

* `SpTypeCorrect`, `SpInvariant`, and `SpTombstones`: the cache holds only
  accepted responses.
* `SpLateOnly`, for any `MaxLag`: two guarded calls that accept one response do so
  only if one of them read the clock within `MaxLag` of the tombstone's expiry.
  This is the exact extent of finding 1.
* `SpSingleUse`, `SpOneTimeUseOnce`: for `MaxLag = 0` there is no such pair. The
  hypothesis is needed; `MCSpLoginLag` shows the counterexample without it.
* `SpLoginBound`: a login is completed only by an answer to its request, from its
  IdP, at its endpoint, under a key it pinned. It holds for any number of IdPs,
  where the run's `LoginsBound` speaks of the instances it composes.

`SpInv` joins the type, `InTime` (a call runs no later than `MaxLag` after it read
the clock, and the cache was never swept ahead of the clock), `Validated` (what
was accepted passed every check with that call's `now`), `Held` (a guarded
acceptance has its tombstone until a sweep at or after its expiry) and `OwnKeys`.
The heart is that a tombstone expires no earlier than the last `now` at which
validation still accepts: skew included, on both deadlines.
`SpAssumption` gives the bounds their types, `SpEndpoints` says that an endpoint
is a URL and a binding.

**`SingleLogoutProofs`**, for any parties and any number of requests:

* `LogoutOutcomeTruthful`, `LogoutEndedOnRequest`. `LogoutInv` adds what is on
  the wire: a request is as its tracker says, a response was built on a request its
  issuer handled, and one that reads as a logout was built after that party ended
  its session with that peer (`WireMade`).
* `LogoutMissingExplained`, for every deployment: the response of a peer that
  signs is refused as unsigned only where the IdP answered over Redirect to an SP
  that demands signed responses. So finding 3 is the only case.
* `LogoutSignedBothWays` follows where no such SP has a Redirect endpoint.

`DistinctParties` is used: an entity ID or an endpoint URL names one party.

**`FrontChannelChainProofs`**, for every list of targets, any answers and
any number of failed `start_logout` calls:

* `ChainTypeCorrect`: `Spec => []TypeOK`, and `Surplus`:
  `Spec => []SurplusOutcomes`. `SurplusOutcomes` is not inductive: `start` on an
  empty list needs that nothing has failed yet, and the order of the outcomes
  needs that none is of a target after the current one. `Progress` adds both.
* `ChainTruthful`: `Spec => []Truthful`, with `WireTruthful`: a response in
  the browser was made by a target, and if it reads as a logout then that target
  ended its session for the request it names. A response that passes names the
  current target as issuer and answers the tracked request (`PassedIsBound`), so
  it is that target's. This uses `DistinctTargets`: no SP is listed twice.
* `ChainVerifies`: `Spec => []PostAnswersVerified`, whatever bindings the targets
  answer on. `WireTruthful` also says over which binding an answer of a signing target
  lacks its enveloped signature; `VerifiedEntry` ties an outcome to an answer that is
  still in the browser.
* `ChainSigned`: `SignedTargetsVerify` holds if no target answers over Redirect,
  from the same invariant. Without the condition it is false.

**`ProxyProofs`**, for any deployments, transactions, flows and lifetimes:

* `ProxyOneFlow`: a downstream login becomes at most one flow, whichever proxy
  instance it returns to and in whatever order. `Held` keeps the
  transaction's tombstone for as long as its context opens, and `Flows` ties a
  flow to the one context of its transaction.
* `ProxyRelayBound`, `ProxyNeverOutlives`, `ProxyNonDowngrade`: of everything
  relayed, against the context sealed at the start (`Answers`), the allow lists
  and transform (`Discloses`) and the upstream deadlines (`Ends`).

**`WebSsoProofs`**, for any providers, descriptors over time, requests in hand
and responses:

* `SsoRequestAuthentic`, `SsoIssuedBound`, `SsoEncryptionKept`, `SsoRoundTrip`.
  `SsoInv` follows a request from `start_login` (`Sent`) through
  `consume_authn_request` (`Parsed`: the library's private part is what that call
  saw, whatever the application wrote into the public part) to the response
  (`Issued`). `SsoRoundTrip`, that the SP accepts an answer made for its own login,
  needs every check of the validator to pass, so it is proved through
  `ResponseValidation` and `ConsumeResponse` as they stand.

`WebSsoAssumption` says what the code relies on: entity IDs are distinct, an SP's
published descriptors name its entity and keys that it can use, and a stray
request is unsigned and has no login's ID.

**`ArtifactProofs`**, for any providers, resolution services, keys over time, calls
and handlers:

* `ArtifactDisclosure`, `ArtifactResolvedOnce`, `ArtifactReplayIsOwn`,
  `ArtifactHome`, `ArtifactPresented`, `ArtifactCompletes`: all properties of the
  run. `ArtifactInv` is a chain of custody: a login pins services its IdP
  published; an artifact answers one request and is bound to its maker; a
  resolution is sent by a call, to a pinned service, or is foreign and signed with
  no key of that SP; an answer carries what was issued under the artifact asked for,
  to who is entitled; and the cache is exactly the authorised requests, each
  as long as it is fresh. `ArtifactCompletes` says that the honest exchange is
  served: it needs the converse of each check, that none of them refuses it.

`ArtifactAssumption` says that an IdP's resolution services have distinct indices
and that an SP's metadata lists certificates of that SP only.

**`ExampleAppsProofs`**, for any browsers, identity providers, users, registries,
providers and limits of the stores, and any number of logins, passwords, resubmitted
forms and logouts:

* `ExampleInvariant`: `Spec => []AppInv`, and from it `AppSessionEarned`,
  `AppPromptHonoured` and `AppSignedOutMeansPerformed`. None of the three is
  inductive: each is about the end of a path through two programs and a browser,
  so `AppInv` says of everything on the way where it came from. A tab holds only
  what a handler or another SP put there (`TabSound`): a request of the demo SP was
  started with the IdP it goes to, an answer was given by that IdP for that login
  and a password typed there, a LogoutResponse was made by the peer for the
  request it answers. A pending request is as its tab said (`PendingSound`), a cookie
  stands for a password (`CookiesEarned`).
* One session per login needs `GrantsFinal` (a login that ended in a session has
  no tracker any more) and `StartsCounted` (so a new login does not bring it back).
* `PromptHonoured` turns on `FreshFor`: a tab that goes on to
  `finalize_continue`, which does not look at `ForceAuthn` again, is opened
  by a password typed after the request was seen, and no cookie of that browser
  is older, or it was opened by its address and the request is in `log.opened`.
  `AnswersSeen` covers a request whose demand is recorded while an old answer of
  it is still on its way.

* `AppNothingForgotten`: `Servable => (Spec => NothingForgotten)`, an action
  property. `Servable` describes the deployments in which every SP asks for what
  the example IdP issues and an IdP knows an SP once; the constants of
  `MCExampleApps` satisfy it, which TLC evaluates (`EverybodyServed`). It is needed:
  `finalize_continue` takes a pending request before it tries to answer, so one
  that `issue_response` then refuses is gone without an answer. The second
  invariant, `StoresInv`, says that everything in an IdP's store can be answered
  to the SP it is from (`PendingServable`, by way of `Issuable`) and every cookie
  is a user's (`CookiesOfUsers`). `InsertKept` and `TakeKept` say what the two
  operations of a store lose (what a full store loses is no younger than what stays); a login tracker or a logout tracker goes only for a
  message that `TabSound` traces back to an answer.

Each handler has a lemma on what it leaves and replies (`SsoReply`, `ContinueReply`,
`TypedReply`, `LoginReply`, `AcsReply`), each step one that it keeps the invariant.
`ExampleParties` is assumed: provider slugs are unique, as `ProviderIndex::build`
checks, the SP is none of the IdPs, and what other SPs send has IDs of its own.

Only model-checked:

* `ChainCompletes` and `Wired`: liveness under fairness.
* `LoginsBound`, which is `SpLoginBound` for the instances its run composes.
* The document layer (`DeliveryContract`). Its readers and writers are recursive
  over documents; what they compute for every document needs induction over
  data, and the modules use RECURSIVE operators where documents nest.

## Not modelled

* Cryptography: a signature verifies if and only if the key's holder made it over
  that content; data opens with its algorithm and session key; a sealed context
  or tracker opens if it was sealed. Decoding of keys and certificates.
* Bytes: the tokenizer (`quick-xml`), character escapes, percent-encoding, base64,
  DEFLATE, and the writing of a URL. A name, a URI or a text is a value or a sequence of
  fragments. DTDs and processing instructions, which the reader refuses or drops.
* In the proxy: the binding of the upstream request and its ForceAuthn and IsPassive,
  with the refusal to send a signed request over Redirect (`proxy.rs:709`), and
  `issuance_instants`, which refuses only what `SystemTime` cannot hold. A context or
  tracker dated more than the tolerated skew ahead (`proxy.rs:453`, `sp.rs:455`): all
  instances read one clock. A Response and its Assertion are signed with one key in
  the login modules; `ResponseValidation` has them apart.
* The limits `MAX_STREAM_DEPTH` and `MAX_STREAM_ENTITIES`, which no family reaches.
* The byte forms of sealed trackers and contexts, and the store behind an opaque handle.
* Error responses and unsolicited responses sent as artifacts: the same binding of a
  transaction to another payload.
* A poisoned mutex, exhausted randomness (except in the chain), and overflow of
  `SystemTime`.
* Of the example applications: pages, configuration files, and the HTTP of the
  artifact back channel.

## Plan

Done, in this order: the replay cache and its contract with proofs; response
validation and the comparator; the SP's login path; the proxy; logout messages,
single logout and the chain with proofs; the IdP and the composition of both
roles; the artifact binding; the example applications; the document layer from
the tree builder to encryption, metadata and discovery, with its contract; the
proxy's NameID transforms and attribute release; the proofs of validation, of the
SP's login path, of single logout, the proxy, the composed roles, the artifact
binding and the example applications.

To come: abstract specifications of what is given out once (an artifact taken out by
its addressee; a login or a downstream transaction completed once), with
`Artifact`, `SpLogin` and `Proxy` shown to implement them. Their hardest parts
are the invariants already proved.
