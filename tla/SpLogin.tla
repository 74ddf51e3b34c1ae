------------------------------ MODULE SpLogin ------------------------------
(***************************************************************************)
(* The Service Provider's login path (src/src/sp.rs) with its replay cache *)
(* (src/src/replay.rs) and response validation (src/src/response), under   *)
(* concurrent request handlers.                                            *)
(*                                                                         *)
(* The library is stateless: the application keeps the LoginTracker that   *)
(* start_login returns, reads the clock and hands both to consume_response *)
(* together with one shared cache. A handler's `now` is read when the      *)
(* request arrives and used when the call runs; MaxLag bounds the time in  *)
(* between (thread scheduling, or the await of the artifact path). The     *)
(* peers are any identity providers; whatever they send can be delivered   *)
(* any number of times, late, to any ACS and against any tracker.          *)
(***************************************************************************)
EXTENDS ConsumeResponse

CONSTANTS
  Idp,                \* identity providers the SP has metadata for
  CertsOf,            \* CertsOf[i]: the signing certificates of IdP i
  Login,              \* request IDs of the logins the SP may start
  Aid,                \* assertion IDs
  Call,               \* consume_response calls
  Acs,                \* the SP's registered ACS endpoints [url, binding]
  Route,              \* endpoints at which the application takes responses
  NameId,             \* subjects' NameIDs [format, sp_name_qualifier : option]
  RequestedFormat,    \* options of NameID format a login may ask for
  OneTimeUse,         \* values of the OneTimeUse condition in use
  Mode,               \* replay settings calls use: ReplayMode, or "NoCache"
  AllowUnsolicited, WantResponse, WantAssertions,  \* SP configuration
  MaxAge,             \* max_age the application opens sealed trackers with
  Lifetime,           \* validity an IdP gives its assertions
  Skew,               \* clock_skew
  Capacity,           \* of the replay cache
  MaxTime,            \* bound on the clock
  MaxLag,             \* bound on (clock - now) when consume_response runs
  MaxMessages         \* bound on the responses IdPs send

ASSUME SpAssumption ==
  /\ MaxAge \in Nat /\ Lifetime \in Nat /\ Skew \in Nat /\ Capacity \in Nat
  /\ MaxTime \in Nat /\ MaxLag \in Nat /\ MaxMessages \in Nat
  /\ Mode \subseteq {"All", "OneTimeUseOnly", "Off", "NoCache"}
  /\ OneTimeUse \subseteq BOOLEAN
  /\ {AllowUnsolicited, WantResponse, WantAssertions} \subseteq BOOLEAN

(* An endpoint is its URL and its binding, nothing else.                   *)
ASSUME SpEndpoints == \A e \in Acs \cup Route : e = [url |-> e.url, binding |-> e.binding]

VARIABLES
  clock,      \* wall clock
  roots,      \* roots[i]: certificates in the SP's current metadata of IdP i
  tracker,    \* tracker[l]: option of the LoginTracker of login l
  wire,       \* responses sent by IdPs, deliverable at any time
  store,      \* the replay cache
  call,       \* call[c]: a consume_response call and its result
  swept       \* history: the latest `now` the cache was called with

vars == <<clock, roots, tracker, wire, store, call, swept>>

Option(S) == {{}} \cup {{x} : x \in S}

AllCerts == UNION {CertsOf[i] : i \in Idp}

(* ServiceProviderConfig.                                                  *)
Sp == [entity |-> "sp", acs |-> Acs, allow_unsolicited |-> AllowUnsolicited,
       want_response |-> WantResponse, want_assertions |-> WantAssertions,
       skew |-> Skew]

Message ==
  [aid : Aid, issuer : Idp, in_response_to : Option(Login), url : {e.url : e \in Route},
   not_on_or_after : Nat, confirmed_until : Nat, session_end : {{}},
   class_ref : {{"Password"}}, one_time_use : OneTimeUse, cert : AllCerts,
   name_id : NameId]

LoginTracker ==
  [request_id : Login, issued_at : Nat, idp : Idp, acs : Acs,
   certs : SUBSET AllCerts, format : RequestedFormat, requested : {{}}]

Idle == [pc |-> "idle"]

Init ==
  /\ clock = 0
  /\ roots \in [Idp -> {{k} : k \in AllCerts}]
  /\ \A i \in Idp : roots[i] \subseteq CertsOf[i]
  /\ tracker = [l \in Login |-> {}]
  /\ wire = {}
  /\ store = EmptyStore
  /\ call = [c \in Call |-> Idle]
  /\ swept = 0

-----------------------------------------------------------------------------
(* start_login: pin what the response will be held against.                *)

start_login(l, i, e, f) ==
  /\ tracker[l] = {}
  /\ roots[i] # {}                                   \* NoPeerSigningCert
  /\ tracker' = [tracker EXCEPT
       ![l] = {[request_id |-> l, issued_at |-> clock, idp |-> i, acs |-> e,
                certs |-> roots[i], format |-> f, requested |-> {}]}]
  /\ UNCHANGED <<clock, roots, wire, store, call, swept>>

-----------------------------------------------------------------------------
(* The peers: whoever holds a signing key answers a request it has seen,   *)
(* or none, in any IdP's name; the SP's copy of an IdP's metadata changes  *)
(* independently, always to keys of that IdP.                              *)

PeerSends(m) ==
  /\ m \notin wire /\ Cardinality(wire) < MaxMessages
  /\ \A l \in m.in_response_to : tracker[l] # {}
  /\ wire' = wire \cup {m}
  /\ UNCHANGED <<clock, roots, tracker, store, call, swept>>

MetadataRefresh(i, certs) ==
  /\ certs # roots[i]
  /\ roots' = [roots EXCEPT ![i] = certs]
  /\ UNCHANGED <<clock, tracker, wire, store, call, swept>>

(* The clock moves only as far as the running handlers' lag allows.        *)
Tick ==
  /\ clock < MaxTime
  /\ \A c \in Call : call[c].pc = "received" => clock < call[c].now + MaxLag
  /\ clock' = clock + 1
  /\ UNCHANGED <<roots, tracker, wire, store, call, swept>>

-----------------------------------------------------------------------------
(* A request handler takes the response, the tracker of some session (or   *)
(* none), the descriptor of some IdP, and reads the clock.                 *)

Receive(c, m, t, i, e, mode) ==
  /\ call[c].pc = "idle"
  /\ call' = [call EXCEPT ![c] =
       [pc |-> "received", now |-> clock, msg |-> m, tracker |-> t, idp |-> i,
        roots |-> roots[i], route |-> e, mode |-> mode]]
  /\ UNCHANGED <<clock, roots, tracker, wire, store, swept>>

Verdict(x) == open(x, MaxAge) && Validation(Sp, x)

Finish(c, result) == call' = [call EXCEPT ![c].pc = result]

(* Mutant: the assertion ID is recorded before validation has finished.    *)
ConsumeRefusedRecording(c) ==
  LET entries == <<AssertionEntry(Sp, call[c])>> IN
  /\ call[c].pc = "received"
  /\ Verdict(call[c]) # "Ok"
  /\ Finish(c, Verdict(call[c]))
  /\ store' = StoreAfter(store, entries, call[c].now, Capacity)
  /\ UNCHANGED <<clock, roots, tracker, wire, swept>>

(* consume_response, one synchronous call: validation refuses,             *)
ConsumeRefused(c) ==
  /\ call[c].pc = "received"
  /\ Verdict(call[c]) # "Ok"
  /\ Finish(c, Verdict(call[c]))
  /\ UNCHANGED <<clock, roots, tracker, wire, store, swept>>

(* or the cache need not be asked,                                         *)
ConsumeUnchecked(c) ==
  /\ call[c].pc = "received"
  /\ Verdict(call[c]) = "Ok"
  /\ ~replay_check_needed(call[c].mode, call[c].msg.one_time_use)
  /\ Finish(c, "accepted")
  /\ UNCHANGED <<clock, roots, tracker, wire, store, swept>>

Latest(s, t) == IF t > s THEN t ELSE s

(* or one check_and_insert with the call's own `now` decides.              *)
ConsumeChecked(c) ==
  LET entries == <<AssertionEntry(Sp, call[c])>>
      now == call[c].now
  IN
  /\ call[c].pc = "received"
  /\ Verdict(call[c]) = "Ok"
  /\ replay_check_needed(call[c].mode, call[c].msg.one_time_use)
  /\ Finish(c, CacheVerdict(Outcome(store, entries, now, Capacity), "AssertionReplay"))
  /\ store' = StoreAfter(store, entries, now, Capacity)
  /\ swept' = Latest(swept, now)
  /\ UNCHANGED <<clock, roots, tracker, wire>>

-----------------------------------------------------------------------------

Next ==
  \/ Tick
  \/ \E l \in Login, i \in Idp, e \in Acs, f \in RequestedFormat : start_login(l, i, e, f)
  \/ \E aid \in Aid, i \in Idp, irt \in Option(Login), e \in Route,
        otu \in OneTimeUse, k \in AllCerts, n \in NameId :
       PeerSends([aid |-> aid, issuer |-> i, in_response_to |-> irt, url |-> e.url,
                  not_on_or_after |-> clock + Lifetime,
                  confirmed_until |-> clock + Lifetime, session_end |-> {},
                  class_ref |-> {"Password"}, one_time_use |-> otu, cert |-> k,
                  name_id |-> n])
  \/ \E i \in Idp : \E certs \in SUBSET CertsOf[i] : MetadataRefresh(i, certs)
  \/ \E c \in Call, m \in wire, i \in Idp, e \in Route, mode \in Mode :
       \E t \in {{}} \cup {tracker[l] : l \in Login} : Receive(c, m, t, i, e, mode)
  \/ \E c \in Call : ConsumeRefused(c) \/ ConsumeUnchecked(c) \/ ConsumeChecked(c)

Spec == Init /\ [][Next]_vars

-----------------------------------------------------------------------------

(* The variants of Error a call can end with.                              *)
ConsumeError ==
  {"Expired", "InvalidConfiguration", "IssuerMismatch", "DestinationMismatch",
   "ResponseBindingMismatch", "IdpTrustRootMismatch", "XmlParse", "StatusNotSuccess",
   "InResponseToMismatch", "UnsolicitedNotAllowed", "SignatureMissing",
   "SignatureVerification", "DecryptFailed", "NotYetValid", "AudienceMismatch",
   "RecipientMismatch", "HolderOfKeyConfirmation", "AuthnContextDowngrade",
   "UnsupportedNameIdPolicy", "NameIdSpQualifierMismatch", "OneTimeUseUnenforceable",
   "AssertionReplay", "ReplayCacheFull"}

ActiveCall ==
  [pc : {"received", "accepted"} \cup ConsumeError, now : Nat, msg : Message,
   tracker : SUBSET LoginTracker, idp : Idp, roots : SUBSET AllCerts, route : Route,
   mode : Mode]

(* Type correctness of the clock, the metadata snapshot, the trackers, the *)
(* cache and the calls.                                                    *)
TypeOK ==
  /\ clock \in Nat /\ swept \in Nat
  /\ roots \in [Idp -> SUBSET AllCerts]
  /\ tracker \in [Login -> SUBSET LoginTracker]
  /\ wire \subseteq Message
  /\ DOMAIN store \subseteq {"Assertion"} \X Aid
  /\ \A k \in DOMAIN store : store[k] \in Nat
  /\ call \in [Call -> {Idle} \cup ActiveCall]

Accepted == {c \in Call : call[c].pc = "accepted"}

Guarded(c) == replay_check_needed(call[c].mode, call[c].msg.one_time_use)

(* Whatever order concurrent handlers run in, one response is accepted by  *)
(* at most one of the calls that ask the cache (consume_response with      *)
(* ReplayMode::All, or a OneTimeUse assertion), however often it is        *)
(* presented and however the cache is swept or refuses in between.         *)
SingleUse ==
  \A c, d \in Accepted :
    c # d /\ call[c].msg = call[d].msg => ~(Guarded(c) /\ Guarded(d))

(* A OneTimeUse assertion is never consumed twice in any mix of replay     *)
(* settings, Off and no cache at all included (consume_response fails      *)
(* closed with OneTimeUseUnenforceable).                                   *)
OneTimeUseOnce ==
  \A c, d \in Accepted :
    c # d /\ call[c].msg = call[d].msg => ~call[c].msg.one_time_use

(* "A rejected Response leaves no trace" (consume_response_with_replay):   *)
(* every tombstone is that of a response some call accepted, so forged,    *)
(* misrouted or refused responses never use up the cache.                  *)
TombstonesAreAccepted ==
  \A k \in DOMAIN store : \E c \in Accepted :
    /\ Guarded(c)
    /\ k = AssertionEntry(Sp, call[c]).key
    /\ store[k] = AssertionEntry(Sp, call[c]).expires_at

(* A login can be completed only by the IdP it was started with, answering *)
(* that very request at the nominated endpoint, with a key that the IdP's  *)
(* metadata listed when the login began and still lists: rotation in       *)
(* either direction never widens what an in-flight login trusts. A         *)
(* response that answers a request is never accepted outside the login     *)
(* that made it, and one accepted without a login is unsolicited.          *)
LoginBound ==
  \A c \in Accepted :
    /\ call[c].msg.in_response_to = {t.request_id : t \in call[c].tracker}
    /\ \A t \in call[c].tracker :
         /\ call[c].msg.issuer = t.idp
         /\ call[c].route = t.acs
         /\ call[c].msg.cert \in t.certs \cap call[c].roots
         /\ call[c].msg.cert \in CertsOf[t.idp]
         /\ \A f \in t.format : call[c].msg.name_id.format = f
=============================================================================
