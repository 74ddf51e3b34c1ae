------------------------ MODULE ResponseValidation ------------------------
(***************************************************************************)
(* validate_response and its helpers (src/src/response/validate.rs,        *)
(* src/src/response/parse.rs, src/src/dsig/verify.rs) as one pure decision *)
(* on a received response r under a call context cx.                       *)
(*                                                                         *)
(* An Option is a set with at most one element. A verdict is "Ok" or the   *)
(* name of the Error variant returned.                                     *)
(*                                                                         *)
(* r:  [destination, issuer, in_response_to : options, success : BOOLEAN,  *)
(*      sig : option of signature, stray_signature : BOOLEAN,              *)
(*      assertions : sequence of assertion]                                *)
(* assertion: [id, issuer, enc, encrypted_id : options of the key the      *)
(*      assertion, or its subject, is encrypted to,                        *)
(*      sig, not_before, not_on_or_after : options, audiences : set of     *)
(*      audience sets (one per AudienceRestriction), confirmations :       *)
(*      sequence, class_ref, session_end : options, one_time_use,          *)
(*      has_statement : BOOLEAN]                                           *)
(* confirmation: [method, recipient, not_on_or_after, not_before,          *)
(*      in_response_to : options, keys : set of keys in its KeyInfo]       *)
(* signature: [cert : key that made it, covers : "Response" | "Assertion"  *)
(*      | "Other", intact : BOOLEAN]                                       *)
(* cx: [idp, certs : set, sp, destination, tracker : option of request id, *)
(*      allow_unsolicited, want_response, want_assertions : BOOLEAN, now,  *)
(*      skew : times, requested : option of AuthnContext request,          *)
(*      presenter : option of key, decryption_keys : set]                  *)
(***************************************************************************)
EXTENDS Sequences, Signatures, AuthnContext

-----------------------------------------------------------------------------
(* Which signatures the configuration demands.                             *)

(* The signature gate of the cleartext path.                               *)
verify_response_and_or_assertion(r, a, cx) ==
  LET response  == VerifyRequired(r.sig, cx.certs, "Response")
      assertion == VerifyRequired(a.sig, cx.certs, "Assertion")
  IN  CASE cx.want_response /\ cx.want_assertions   -> response && assertion
        [] cx.want_response /\ ~cx.want_assertions  -> response
        [] ~cx.want_response /\ cx.want_assertions  -> assertion
        [] OTHER -> IF r.sig # {} THEN response ELSE assertion

(* The first configured key that opens the ciphertext wins; the algorithm  *)
(* and padding policies are not told apart from holding the wrong key.     *)
decrypt_encrypted_assertion(encrypted_to, cx) ==
  Reject(encrypted_to \cap cx.decryption_keys = {}, "DecryptFailed")

(* The encrypted path: a present Response signature is always checked, the *)
(* assertion is decrypted, and at least one signature must have held.      *)
handle_encrypted(r, a, cx) ==
  (IF cx.want_response THEN VerifyRequired(r.sig, cx.certs, "Response")
                       ELSE VerifyPresent(r.sig, cx.certs, "Response"))
  && decrypt_encrypted_assertion(a.enc, cx)
  && (IF cx.want_assertions THEN VerifyRequired(a.sig, cx.certs, "Assertion")
                            ELSE VerifyPresent(a.sig, cx.certs, "Assertion"))
  && Reject(r.sig = {} /\ a.sig = {}, "SignatureMissing")

SignatureGate(r, a, cx) ==
  IF a.enc = {} THEN verify_response_and_or_assertion(r, a, cx)
                ELSE handle_encrypted(r, a, cx)

-----------------------------------------------------------------------------
(* InResponseTo: strict in both directions.                                *)

InResponseTo(in_response_to, cx) ==
  IF cx.tracker # {}
    THEN Reject(in_response_to # cx.tracker, "InResponseToMismatch")
    ELSE Reject(in_response_to # {} \/ ~cx.allow_unsolicited, "UnsolicitedNotAllowed")

-----------------------------------------------------------------------------
(* Time windows, widened by the clock skew on both sides.                  *)

NotYet(not_before, cx) == \E t \in not_before : t > cx.now + cx.skew

Over(not_on_or_after, cx) == \E t \in not_on_or_after : t <= cx.now - cx.skew

ConditionsWindow(a, cx) ==
     Reject(NotYet(a.not_before, cx), "NotYetValid")
  && Reject(a.not_on_or_after = {}, "XmlParse")
  && Reject(Over(a.not_on_or_after, cx), "Expired")

(* Restrictions are conjunctive, the audiences inside one alternatives.    *)
AudienceCheck(a, cx) ==
  Reject(a.audiences = {} \/ \E group \in a.audiences : cx.sp \notin group,
         "AudienceMismatch")

-----------------------------------------------------------------------------
(* Subject confirmation.                                                   *)

(* One candidate against all of its constraints.                           *)
ConfirmationVerdict(sc, cx) ==
     Reject(sc.recipient # {cx.destination}, "RecipientMismatch")
  && Reject(sc.not_on_or_after = {} \/ Over(sc.not_on_or_after, cx), "Expired")
  && Reject(NotYet(sc.not_before, cx), "NotYetValid")
  && (IF cx.tracker # {}
        THEN Reject(sc.in_response_to # cx.tracker, "InResponseToMismatch")
        ELSE Reject(sc.in_response_to # {}, "UnsolicitedNotAllowed"))
  && Reject(sc.method = "hok" /\ cx.presenter \cap sc.keys = {},
            "HolderOfKeyConfirmation")

(* Mutant: a presenter certificate switches the bearer candidates off.     *)
CandidatesPresenterOnly(a, cx) ==
  {i \in DOMAIN a.confirmations :
     a.confirmations[i].method = IF cx.presenter # {} THEN "hok" ELSE "bearer"}

Candidates(a, cx) ==
  {i \in DOMAIN a.confirmations :
     \/ a.confirmations[i].method = "bearer"
     \/ a.confirmations[i].method = "hok" /\ cx.presenter # {}}

(* Bearer confirmations are tried before Holder-of-Key ones, each group in *)
(* document order.                                                         *)
TriedNoLater(a, i, j) ==
  LET bearer(n) == a.confirmations[n].method = "bearer" IN
  \/ bearer(i) /\ ~bearer(j)
  \/ bearer(i) = bearer(j) /\ i <= j

Satisfying(a, cx) ==
  {i \in Candidates(a, cx) : ConfirmationVerdict(a.confirmations[i], cx) = "Ok"}

find_valid_subject_confirmation(a, cx) ==
  LET candidates == Candidates(a, cx)
      tried_last == CHOOSE i \in candidates :
                      \A j \in candidates : TriedNoLater(a, j, i)
  IN  IF candidates = {}
        THEN IF \E i \in DOMAIN a.confirmations : a.confirmations[i].method = "hok"
               THEN "HolderOfKeyConfirmation" ELSE "SignatureVerification"
      ELSE IF Satisfying(a, cx) # {} THEN "Ok"
      ELSE ConfirmationVerdict(a.confirmations[tried_last], cx)

-----------------------------------------------------------------------------
(* Authentication context and session.                                     *)

(* The first AuthnStatement must carry a class that satisfies the request. *)
check_authn_context(a, cx) ==
  Reject(\E requested \in cx.requested :
           \/ ~a.has_statement \/ a.class_ref = {}
           \/ \E actual \in a.class_ref : ~is_satisfied(requested, actual),
         "AuthnContextDowngrade")

SessionCheck(a, cx) ==
  Reject(a.has_statement /\ Over(a.session_end, cx), "Expired")

-----------------------------------------------------------------------------
(* The pipeline, in the order of the code.                                 *)

(* A ds:Signature anywhere but directly below a Response, an Assertion or  *)
(* an EncryptedAssertion refuses the document before any is verified.      *)
enforce_signature_positions(r) == Reject(r.stray_signature, "SignatureVerification")

(* A cleartext NameID needs no key.                                        *)
decrypt_subject_encrypted_id(a, cx) ==
  IF a.encrypted_id = {} THEN "Ok" ELSE decrypt_encrypted_assertion(a.encrypted_id, cx)

ResponseChecks(r, cx) ==
     Reject(Len(r.assertions) > 1, "XmlParse")                  \* parse_response
  && Reject(~(r.destination \subseteq {cx.destination}), "DestinationMismatch")
  && Reject(r.issuer # {cx.idp}, "IssuerMismatch")
  && Reject(~r.success, "StatusNotSuccess")
  && InResponseTo(r.in_response_to, cx)
  && enforce_signature_positions(r)
  && Reject(Len(r.assertions) = 0, "XmlParse")

AssertionChecks(a, cx) ==
     decrypt_subject_encrypted_id(a, cx)
  && Reject(a.issuer # cx.idp, "IssuerMismatch")
  && ConditionsWindow(a, cx)
  && AudienceCheck(a, cx)
  && find_valid_subject_confirmation(a, cx)
  && check_authn_context(a, cx)
  && SessionCheck(a, cx)

validate_response(r, cx) ==
     ResponseChecks(r, cx)
  && SignatureGate(r, r.assertions[1], cx)
  && AssertionChecks(r.assertions[1], cx)

(* Mutant: the tombstone expires at the raw NotOnOrAfter.                  *)
ExpiresWithoutSkew(not_on_or_after, skew) == not_on_or_after

(* replay_expires_at (src/src/sp.rs): when the tombstone may be dropped.   *)
replay_expires_at(not_on_or_after, skew) == not_on_or_after + skew
=============================================================================
