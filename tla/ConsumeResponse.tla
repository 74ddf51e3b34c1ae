-------------------------- MODULE ConsumeResponse --------------------------
(***************************************************************************)
(* consume_response_with_replay (src/src/sp.rs) up to the point where the  *)
(* replay cache is asked, as a decision on one call x; shared by the SP's  *)
(* own login path and by the proxy's upstream leg.                         *)
(*                                                                         *)
(* sp: the role's configuration [entity, acs : set of [url, binding],      *)
(*     allow_unsolicited, want_response, want_assertions, skew]            *)
(* x:  the call [msg, tracker : option, idp, roots : the certificates of   *)
(*     the descriptor passed in, route : [url, binding], mode, now]        *)
(* tracker: [request_id, issued_at, idp, acs, certs, format, requested]    *)
(* msg: what tells one response of an IdP from another [aid, issuer,       *)
(*     in_response_to, url, not_on_or_after, confirmed_until, session_end, *)
(*     class_ref, one_time_use, cert, name_id]                             *)
(***************************************************************************)
EXTENDS ReplayStore, ResponseValidation

(* The response as it arrives: its assertion signed, and the Response too  *)
(* when the SP demands it, both by the key that signs for this response.   *)
Wire(sp, m) ==
  LET sig(element) == {[cert |-> m.cert, covers |-> element, intact |-> TRUE]} IN
  [destination |-> {m.url}, issuer |-> {m.issuer}, in_response_to |-> m.in_response_to,
   success |-> TRUE, stray_signature |-> FALSE,
   sig |-> IF sp.want_response THEN sig("Response") ELSE {},
   assertions |-> <<
     [id |-> m.aid, issuer |-> m.issuer, enc |-> {}, encrypted_id |-> {},
      sig |-> sig("Assertion"), not_before |-> {},
      not_on_or_after |-> {m.not_on_or_after}, audiences |-> {{sp.entity}},
      confirmations |-> <<
        [method |-> "bearer", recipient |-> {m.url},
         not_on_or_after |-> {m.confirmed_until}, not_before |-> {},
         in_response_to |-> m.in_response_to, keys |-> {}]>>,
      has_statement |-> TRUE, class_ref |-> m.class_ref, session_end |-> m.session_end,
      one_time_use |-> m.one_time_use]>>]

(* LoginTracker::open: the sealed tracker, back from the browser, has aged.*)
(* (One from the future is refused too; here sealer and opener are one SP  *)
(* with one clock.)                                                        *)
open(x, max_age) ==
  Reject(\E t \in x.tracker : x.now - t.issued_at > max_age, "Expired")

(* The checks that need no response: the route is a registered ACS, and    *)
(* the descriptor and the route are the ones the login was started with.   *)
validate_tracker_context(sp, x) ==
     Reject(x.route.url \notin {e.url : e \in sp.acs}, "InvalidConfiguration")
  && Reject(\E t \in x.tracker : t.idp # x.idp, "IssuerMismatch")
  && Reject(\E t \in x.tracker : t.acs.url # x.route.url, "DestinationMismatch")
  && Reject(\E t \in x.tracker : t.acs.binding # x.route.binding,
            "ResponseBindingMismatch")
  && Reject(\E t \in x.tracker : t.certs \cap x.roots = {}, "IdpTrustRootMismatch")

(* Mutant: the certificates pinned at start_login are not consulted.       *)
CurrentCerts(x) == x.roots

(* The verification candidates: the descriptor's certificates, cut down to *)
(* the ones pinned at start_login when there is a tracker.                 *)
ValidationCerts(x) == {k \in x.roots : \A t \in x.tracker : k \in t.certs}

TrackedRequest(x) == {t.request_id : t \in x.tracker}

Context(sp, x) ==
  [idp |-> x.idp, certs |-> ValidationCerts(x), sp |-> sp.entity,
   destination |-> x.route.url, tracker |-> TrackedRequest(x),
   allow_unsolicited |-> sp.allow_unsolicited, want_response |-> sp.want_response,
   want_assertions |-> sp.want_assertions, now |-> x.now, skew |-> sp.skew,
   requested |-> UNION {t.requested : t \in x.tracker}, presenter |-> {},
   decryption_keys |-> {}]

(* The NameID checks after validation.                                     *)
NameIdCheck(sp, x) ==
     Reject(\E t \in x.tracker : \E f \in t.format : f # x.msg.name_id.format,
            "UnsupportedNameIdPolicy")
  && Reject(/\ x.msg.name_id.format = "Persistent"
            /\ ~(x.msg.name_id.sp_name_qualifier \subseteq {sp.entity}),
            "NameIdSpQualifierMismatch")

(* Mutant: a missing cache is not treated like ReplayMode::Off.            *)
OneTimeUseOffOnly(x) ==
  Reject(x.msg.one_time_use /\ x.mode = "Off", "OneTimeUseUnenforceable")

(* OneTimeUse fails closed when nothing could enforce it.                  *)
OneTimeUseCheck(x) ==
  Reject(x.msg.one_time_use /\ x.mode \in {"NoCache", "Off"}, "OneTimeUseUnenforceable")

(* Everything the call decides before it asks the cache.                   *)
Validation(sp, x) ==
     validate_tracker_context(sp, x)
  && validate_response(Wire(sp, x.msg), Context(sp, x))
  && NameIdCheck(sp, x)
  && OneTimeUseCheck(x)

replay_check_needed(mode, one_time_use) ==
  \/ mode = "All"
  \/ mode = "OneTimeUseOnly" /\ one_time_use

AssertionEntry(sp, x) ==
  ReplayEntry("Assertion", x.msg.aid, replay_expires_at(x.msg.not_on_or_after, sp.skew))

(* What a call's result is, by the cache's answer.                         *)
CacheVerdict(outcome, replay_error) ==
  CASE outcome = "fresh" -> "accepted"
    [] outcome = "seen"  -> replay_error
    [] outcome = "full"  -> "ReplayCacheFull"
=============================================================================
