---------------------------- MODULE SpLoginProofs ----------------------------
(***************************************************************************)
(* Proofs about the Service Provider. First about validate_response, for   *)
(* every response and every context: the pipeline accepts exactly when     *)
(* each of its checks does, and from there the properties of the runs.     *)
(* Then about the login path that calls it, for any identity providers,    *)
(* keys, logins and calls, any capacity, skew and lag, and any mix of      *)
(* replay settings.                                                        *)
(***************************************************************************)
EXTENDS SpLogin, MCResponseValidation, TLAPS, WellFoundedInduction

-----------------------------------------------------------------------------
(* The error-propagation operators.                                        *)

(* A pipeline is Ok exactly when both of its halves are.                   *)
LEMMA BothOk ==
  ASSUME NEW a, NEW b
  PROVE  (a && b) = "Ok" <=> a = "Ok" /\ b = "Ok"
BY DEF &&

(* Signatures that are demanded are there, and each verifies.              *)
Verified(sigs, certs, element) ==
  \A sig \in sigs : sig.cert \in certs /\ sig.intact /\ sig.covers = element

LEMMA PresentOk ==
  ASSUME NEW sigs, NEW certs, NEW element
  PROVE  VerifyPresent(sigs, certs, element) = "Ok" <=> Verified(sigs, certs, element)
BY DEF VerifyPresent, verify_signature, Reject, Verified

LEMMA RequiredOk ==
  ASSUME NEW sigs, NEW certs, NEW element
  PROVE  VerifyRequired(sigs, certs, element) = "Ok" <=>
           sigs # {} /\ Verified(sigs, certs, element)
BY BothOk, PresentOk DEF VerifyRequired, Reject

-----------------------------------------------------------------------------
(* What it takes to be accepted, check by check.                           *)

(* What the signature gate asks of the two signatures: those demanded; on  *)
(* the encrypted path, all that are present; and one at least.             *)
SignaturesHold(resp, a, ctx) ==
  LET response  == Verified(resp.sig, ctx.certs, "Response")
      assertion == Verified(a.sig, ctx.certs, "Assertion")
  IN
  /\ ctx.want_response => resp.sig # {} /\ response
  /\ ctx.want_assertions => a.sig # {} /\ assertion
  /\ a.enc # {} => /\ response /\ assertion
                   /\ a.enc \cap ctx.decryption_keys # {}
                   /\ resp.sig # {} \/ a.sig # {}
  /\ a.enc = {} /\ ~ctx.want_response /\ ~ctx.want_assertions =>
       IF resp.sig # {} THEN response ELSE a.sig # {} /\ assertion

LEMMA GateOk ==
  ASSUME NEW resp, NEW a, NEW ctx
  PROVE  SignatureGate(resp, a, ctx) = "Ok" <=> SignaturesHold(resp, a, ctx)
<1>1. CASE a.enc = {}
  BY <1>1, BothOk, RequiredOk
     DEF SignatureGate, verify_response_and_or_assertion, SignaturesHold
<1>2. CASE a.enc # {}
  BY <1>2, BothOk, RequiredOk, PresentOk
     DEF SignatureGate, handle_encrypted, decrypt_encrypted_assertion, SignaturesHold, Reject
<1>3. QED
  BY <1>1, <1>2

(* The Response element.                                                   *)
LEMMA ResponseOk ==
  ASSUME NEW resp, NEW ctx
  PROVE  ResponseChecks(resp, ctx) = "Ok" <=>
           /\ ~(Len(resp.assertions) > 1) /\ Len(resp.assertions) # 0
           /\ resp.destination \subseteq {ctx.destination}
           /\ resp.issuer = {ctx.idp} /\ resp.success /\ ~resp.stray_signature
           /\ InResponseTo(resp.in_response_to, ctx) = "Ok"
BY DEF ResponseChecks, enforce_signature_positions, Reject, &&

(* The assertion.                                                          *)
LEMMA AssertionOk ==
  ASSUME NEW a, NEW ctx
  PROVE  AssertionChecks(a, ctx) = "Ok" <=>
           /\ decrypt_subject_encrypted_id(a, ctx) = "Ok"
           /\ a.issuer = ctx.idp
           /\ ConditionsWindow(a, ctx) = "Ok"
           /\ AudienceCheck(a, ctx) = "Ok"
           /\ find_valid_subject_confirmation(a, ctx) = "Ok"
           /\ check_authn_context(a, ctx) = "Ok"
           /\ SessionCheck(a, ctx) = "Ok"
BY BothOk DEF AssertionChecks, Reject

(* The whole pipeline.                                                     *)
LEMMA ValidateOk ==
  ASSUME NEW resp, NEW ctx
  PROVE  validate_response(resp, ctx) = "Ok" <=>
           /\ ResponseChecks(resp, ctx) = "Ok"
           /\ SignatureGate(resp, resp.assertions[1], ctx) = "Ok"
           /\ AssertionChecks(resp.assertions[1], ctx) = "Ok"
BY BothOk DEF validate_response

-----------------------------------------------------------------------------
(* Subject confirmation.                                                   *)

(* One confirmation, constraint by constraint.                             *)
LEMMA ConfirmationOk ==
  ASSUME NEW sc, NEW ctx
  PROVE  ConfirmationVerdict(sc, ctx) = "Ok" <=>
           /\ sc.recipient = {ctx.destination}
           /\ sc.not_on_or_after # {} /\ ~Over(sc.not_on_or_after, ctx)
           /\ ~NotYet(sc.not_before, ctx)
           /\ sc.in_response_to = ctx.tracker
           /\ sc.method = "hok" => ctx.presenter \cap sc.keys # {}
BY DEF ConfirmationVerdict, Reject, &&

(* A set of natural numbers has a least element; a bounded one a greatest. *)
LEMMA Least ==
  ASSUME NEW T \in SUBSET Nat, T # {}
  PROVE  \E x \in T : \A y \in T : x <= y
<1>1. PICK x \in T : \A y \in T : <<y, x>> \notin OpToRel(<, Nat)
  BY NatLessThanWellFounded, WFMin
<1>2. \A y \in T : ~(y < x)
  BY <1>1 DEF OpToRel
<1>3. QED
  BY <1>2

LEMMA Greatest ==
  ASSUME NEW n \in Nat, NEW T \in SUBSET Nat, T # {}, \A y \in T : y <= n
  PROVE  \E x \in T : \A y \in T : y <= x
<1> DEFINE U == {n - y : y \in T}
<1>1. U \in SUBSET Nat /\ U # {}
  <2>1. \A y \in T : n - y \in Nat
    OBVIOUS
  <2>2. QED
    BY <2>1
<1>2. PICK u \in U : \A v \in U : u <= v
  BY <1>1, Least
<1>3. PICK x \in T : u = n - x
  BY <1>2
<1>4. \A y \in T : n - x <= n - y
  BY <1>2, <1>3
<1>5. QED
  BY <1>4

(* Among the candidates one is tried last.                                 *)
LEMMA TriedLast ==
  ASSUME NEW a, NEW n \in Nat, NEW C \in SUBSET (1..n), C # {}
  PROVE  \E i \in C : \A j \in C : TriedNoLater(a, j, i)
<1> DEFINE hok == {i \in C : a.confirmations[i].method # "bearer"}
<1>1. CASE hok # {}
  <2>1. PICK i \in hok : \A j \in hok : j <= i
    <3>1. hok \in SUBSET Nat /\ \A j \in hok : j <= n
      <4>1. \A j \in 1..n : j \in Nat /\ j <= n
        OBVIOUS
      <4>2. hok \subseteq 1..n
        OBVIOUS
      <4>3. QED
        BY <4>1, <4>2
    <3>2. QED
      BY <1>1, <3>1, Greatest
  <2>2. QED
    BY <2>1 DEF TriedNoLater
<1>2. CASE hok = {}
  <2>1. PICK i \in C : \A j \in C : j <= i
    <3>1. C \in SUBSET Nat /\ \A j \in C : j <= n
      OBVIOUS
    <3>2. QED
      BY <3>1, Greatest
  <2>2. QED
    BY <1>2, <2>1 DEF TriedNoLater
<1>3. QED
  BY <1>1, <1>2

(* An assertion has a confirmation that satisfies exactly when the search  *)
(* finds one, in whatever order it looks.                                  *)
LEMMA SearchOk ==
  ASSUME NEW a, NEW ctx, NEW n \in Nat, DOMAIN a.confirmations = 1..n
  PROVE  find_valid_subject_confirmation(a, ctx) = "Ok" <=> Satisfying(a, ctx) # {}
<1> DEFINE candidates == Candidates(a, ctx)
           last == CHOOSE i \in candidates : \A j \in candidates : TriedNoLater(a, j, i)
<1>1. CASE candidates = {}
  BY <1>1 DEF find_valid_subject_confirmation, Satisfying
<1>2. CASE Satisfying(a, ctx) # {}
  BY <1>2 DEF find_valid_subject_confirmation, Satisfying
<1>3. CASE candidates # {} /\ Satisfying(a, ctx) = {}
  <2>1. find_valid_subject_confirmation(a, ctx) = ConfirmationVerdict(a.confirmations[last], ctx)
    BY <1>3 DEF find_valid_subject_confirmation
  <2>2. candidates \in SUBSET (1..n)
    BY DEF Candidates
  <2>3. \E i \in candidates : \A j \in candidates : TriedNoLater(a, j, i)
    BY <1>3, <2>2, TriedLast
  <2>4. last \in candidates
    BY <2>3
  <2>5. QED
    BY <1>3, <2>1, <2>4 DEF Satisfying
<1>4. QED
  BY <1>1, <1>2, <1>3

-----------------------------------------------------------------------------
(* The theorems for any response and any context.                          *)

ContextFields ==
  {"idp", "certs", "sp", "destination", "tracker", "allow_unsolicited", "want_response",
   "want_assertions", "now", "skew", "requested", "presenter", "decryption_keys"}

ResponseFields ==
  {"destination", "issuer", "in_response_to", "success", "sig", "stray_signature", "assertions"}

AssertionFields ==
  {"id", "issuer", "enc", "encrypted_id", "sig", "not_before", "not_on_or_after", "audiences",
   "confirmations", "has_statement", "class_ref", "session_end", "one_time_use"}

(* The shape parse_response gives its result, and the caller its arguments.*)
WellFormed(resp, ctx) ==
  /\ DOMAIN ctx = ContextFields /\ DOMAIN resp = ResponseFields
  /\ ctx.now \in Int /\ ctx.skew \in Int
  /\ Len(resp.assertions) \in Nat
  /\ \A p, q \in ctx.requested : p = q
  /\ \A q \in ctx.requested : q.comparison \in Comparisons
  /\ Len(resp.assertions) > 0 =>
       LET a == resp.assertions[1] IN
       /\ DOMAIN a = AssertionFields
       /\ Len(a.confirmations) \in Nat /\ DOMAIN a.confirmations = 1..Len(a.confirmations)
       /\ \A i \in DOMAIN a.confirmations : a.confirmations[i].not_on_or_after \in SUBSET Int

(* Every accepted response is signed over what is read, and names this     *)
(* provider, this endpoint and this request (validate_response).           *)
THEOREM AcceptedIsBound ==
  ASSUME NEW resp, NEW ctx, WellFormed(resp, ctx), Accepts(resp, ctx)
  PROVE  BoundTo(resp, ctx)
<1> DEFINE a == resp.assertions[1]
<1>1. /\ SignaturesHold(resp, a, ctx)
      /\ AssertionChecks(a, ctx) = "Ok"
      /\ Len(resp.assertions) > 0
  BY ValidateOk, GateOk, ResponseOk DEF Accepts, WellFormed
<1>2. /\ a.issuer = ctx.idp
      /\ AudienceCheck(a, ctx) = "Ok"
      /\ find_valid_subject_confirmation(a, ctx) = "Ok"
  BY <1>1, AssertionOk
<1>3. a.audiences # {} /\ \A group \in a.audiences : ctx.sp \in group
  BY <1>2 DEF AudienceCheck, Reject
<1>4. \A sigs, element :
        sigs # {} /\ Verified(sigs, ctx.certs, element) => Holds(sigs, ctx.certs, element)
  BY DEF Verified, Holds
<1>5. /\ Holds(resp.sig, ctx.certs, "Response") \/ Holds(a.sig, ctx.certs, "Assertion")
      /\ ctx.want_response => Holds(resp.sig, ctx.certs, "Response")
      /\ ctx.want_assertions => Holds(a.sig, ctx.certs, "Assertion")
  BY <1>1, <1>4 DEF SignaturesHold
<1>6. PICK i \in DOMAIN a.confirmations :
        /\ i \in Candidates(a, ctx)
        /\ ConfirmationVerdict(a.confirmations[i], ctx) = "Ok"
  <2>1. Satisfying(a, ctx) # {}
    BY <1>1, <1>2, SearchOk DEF WellFormed
  <2>2. QED
    BY <2>1 DEF Satisfying, Candidates
<1> DEFINE sc == a.confirmations[i]
<1>7. /\ sc.recipient = {ctx.destination} /\ sc.in_response_to = ctx.tracker
      /\ sc.not_on_or_after # {} /\ ~Over(sc.not_on_or_after, ctx)
      /\ sc.method = "hok" => ctx.presenter \cap sc.keys # {}
  BY <1>6, ConfirmationOk
<1>8. sc.method = "bearer" \/ sc.method = "hok"
  BY <1>6 DEF Candidates
<1>9. \E t \in sc.not_on_or_after : ctx.now < t + ctx.skew
  <2>1. sc.not_on_or_after \in SUBSET Int /\ ctx.now \in Int /\ ctx.skew \in Int
    BY <1>1 DEF WellFormed
  <2>2. PICK t \in sc.not_on_or_after : ~(t <= ctx.now - ctx.skew)
    BY <1>7 DEF Over
  <2>3. QED
    BY <2>1, <2>2
<1>10. QED
  BY <1>2, <1>3, <1>5, <1>7, <1>8, <1>9 DEF BoundTo

-----------------------------------------------------------------------------
(* What must not count against a response.                                 *)

(* Two contexts of which the second trusts more keys, or has a presenter's *)
(* certificate where the first has none.                                   *)
Extends(more, ctx) ==
  /\ \A f \in ContextFields \ {"certs", "presenter"} : more[f] = ctx[f]
  /\ ctx.certs \subseteq more.certs
  /\ ctx.presenter = {} \/ more.presenter = ctx.presenter

LEMMA Monotone ==
  ASSUME NEW resp, NEW ctx, NEW more, WellFormed(resp, ctx), Extends(more, ctx),
         Accepts(resp, ctx)
  PROVE  Accepts(resp, more)
<1> DEFINE a == resp.assertions[1]
<1> USE DEF ContextFields
<1>1. /\ more.idp = ctx.idp /\ more.sp = ctx.sp /\ more.destination = ctx.destination
      /\ more.tracker = ctx.tracker /\ more.allow_unsolicited = ctx.allow_unsolicited
      /\ more.want_response = ctx.want_response
      /\ more.want_assertions = ctx.want_assertions
      /\ more.now = ctx.now /\ more.skew = ctx.skew /\ more.requested = ctx.requested
      /\ more.decryption_keys = ctx.decryption_keys
  BY DEF Extends
<1>2. /\ ResponseChecks(resp, ctx) = "Ok"
      /\ SignatureGate(resp, a, ctx) = "Ok"
      /\ AssertionChecks(a, ctx) = "Ok"
  BY ValidateOk DEF Accepts
<1>3. ResponseChecks(resp, more) = "Ok"
  BY <1>1, <1>2, ResponseOk DEF InResponseTo
<1>4. SignatureGate(resp, a, more) = "Ok"
  <2>1. \A sigs, element :
          Verified(sigs, ctx.certs, element) => Verified(sigs, more.certs, element)
    BY DEF Verified, Extends
  <2>2. QED
    BY <1>1, <1>2, <2>1, GateOk DEF SignaturesHold
<1>5. find_valid_subject_confirmation(a, more) = "Ok"
  <2>1. Len(resp.assertions) > 0
    BY <1>2, ResponseOk DEF WellFormed
  <2>2. Satisfying(a, ctx) # {}
    BY <1>2, <2>1, AssertionOk, SearchOk DEF WellFormed
  <2>3. PICK i \in DOMAIN a.confirmations :
          /\ i \in Candidates(a, ctx)
          /\ ConfirmationVerdict(a.confirmations[i], ctx) = "Ok"
    BY <2>2 DEF Satisfying, Candidates
  <2>4. i \in Candidates(a, more)
    BY <2>3 DEF Candidates, Extends
  <2>5. ConfirmationVerdict(a.confirmations[i], more) = "Ok"
    <3>1. a.confirmations[i].method = "hok" => more.presenter = ctx.presenter
      BY <2>3 DEF Candidates, Extends
    <3>2. QED
      BY <1>1, <2>3, <3>1, ConfirmationOk DEF Over, NotYet
  <2>6. QED
    BY <2>1, <2>4, <2>5, SearchOk DEF Satisfying, WellFormed
<1>6. AssertionChecks(a, more) = "Ok"
  <2>1. decrypt_subject_encrypted_id(a, more) = decrypt_subject_encrypted_id(a, ctx)
    BY <1>1 DEF decrypt_subject_encrypted_id, decrypt_encrypted_assertion
  <2>2. \A T : NotYet(T, more) = NotYet(T, ctx) /\ Over(T, more) = Over(T, ctx)
    BY <1>1 DEF NotYet, Over
  <2>3. /\ ConditionsWindow(a, more) = ConditionsWindow(a, ctx)
        /\ SessionCheck(a, more) = SessionCheck(a, ctx)
    BY <2>2 DEF ConditionsWindow, SessionCheck
  <2>4. /\ AudienceCheck(a, more) = AudienceCheck(a, ctx)
        /\ check_authn_context(a, more) = check_authn_context(a, ctx)
    BY <1>1 DEF AudienceCheck, check_authn_context
  <2>5. QED
    BY <1>1, <1>2, <1>5, <2>1, <2>3, <2>4, AssertionOk
<1>7. QED
  BY <1>3, <1>4, <1>6, ValidateOk DEF Accepts

(* Where a confirmation stands does not matter.                            *)
LEMMA OrderIrrelevant ==
  ASSUME NEW resp, NEW ctx, WellFormed(resp, ctx), Len(resp.assertions) = 1
  PROVE  Accepts(resp, ctx) <=> Accepts(Reversed(resp), ctx)
<1> DEFINE a == resp.assertions[1]
           n == Len(a.confirmations)
           backwards == [i \in 1..n |-> a.confirmations[n + 1 - i]]
           b == [a EXCEPT !.confirmations = backwards]
<1>1. /\ n \in Nat /\ DOMAIN a.confirmations = 1..n
      /\ DOMAIN a = AssertionFields /\ DOMAIN resp = ResponseFields
  BY DEF WellFormed
<1>2. /\ Reversed(resp).assertions = <<b>>
      /\ \A f \in ResponseFields \ {"assertions"} : Reversed(resp)[f] = resp[f]
  BY <1>1 DEF Reversed, ResponseFields
<1>3. /\ b.confirmations = backwards
      /\ \A f \in AssertionFields \ {"confirmations"} : b[f] = a[f]
  BY <1>1 DEF AssertionFields
<1>4. Satisfying(b, ctx) # {} <=> Satisfying(a, ctx) # {}
  <2>1. \A i \in 1..n : /\ n + 1 - i \in 1..n
                        /\ b.confirmations[n + 1 - i] = a.confirmations[i]
                        /\ b.confirmations[i] = a.confirmations[n + 1 - i]
    BY <1>1, <1>3
  <2>2. DOMAIN b.confirmations = 1..n
    BY <1>3
  <2>3. \A i \in 1..n : i \in Satisfying(a, ctx) => n + 1 - i \in Satisfying(b, ctx)
    BY <1>1, <2>1, <2>2 DEF Satisfying, Candidates
  <2>4. \A i \in 1..n : i \in Satisfying(b, ctx) => n + 1 - i \in Satisfying(a, ctx)
    BY <1>1, <2>1, <2>2 DEF Satisfying, Candidates
  <2>5. Satisfying(a, ctx) \subseteq 1..n /\ Satisfying(b, ctx) \subseteq 1..n
    BY <1>1, <2>2 DEF Satisfying, Candidates
  <2>6. QED
    BY <2>3, <2>4, <2>5
<1>5. find_valid_subject_confirmation(b, ctx) = "Ok"
        <=> find_valid_subject_confirmation(a, ctx) = "Ok"
  BY <1>1, <1>3, <1>4, SearchOk
<1>6. AssertionChecks(b, ctx) = "Ok" <=> AssertionChecks(a, ctx) = "Ok"
  <2> HIDE DEF b
  <2>1. /\ b.issuer = a.issuer /\ b.encrypted_id = a.encrypted_id
        /\ b.not_before = a.not_before /\ b.not_on_or_after = a.not_on_or_after
        /\ b.audiences = a.audiences /\ b.has_statement = a.has_statement
        /\ b.class_ref = a.class_ref /\ b.session_end = a.session_end
    BY <1>3 DEF AssertionFields
  <2>2. /\ decrypt_subject_encrypted_id(b, ctx) = decrypt_subject_encrypted_id(a, ctx)
        /\ ConditionsWindow(b, ctx) = ConditionsWindow(a, ctx)
        /\ AudienceCheck(b, ctx) = AudienceCheck(a, ctx)
        /\ check_authn_context(b, ctx) = check_authn_context(a, ctx)
        /\ SessionCheck(b, ctx) = SessionCheck(a, ctx)
    BY <2>1 DEF decrypt_subject_encrypted_id, ConditionsWindow, AudienceCheck,
                check_authn_context, SessionCheck
  <2>3. QED
    BY <1>5, <2>1, <2>2, AssertionOk
<1>7. SignatureGate(Reversed(resp), b, ctx) = "Ok" <=> SignatureGate(resp, a, ctx) = "Ok"
  BY <1>2, <1>3, GateOk DEF SignaturesHold, AssertionFields, ResponseFields
<1>8. ResponseChecks(Reversed(resp), ctx) = "Ok" <=> ResponseChecks(resp, ctx) = "Ok"
  <2> DEFINE rev == Reversed(resp)
  <2>1. Len(rev.assertions) = 1
    BY <1>2
  <2>2. /\ rev.destination = resp.destination /\ rev.issuer = resp.issuer
        /\ rev.in_response_to = resp.in_response_to /\ rev.success = resp.success
        /\ rev.stray_signature = resp.stray_signature
    BY <1>2 DEF ResponseFields
  <2> HIDE DEF rev
  <2>3. QED
    BY <2>1, <2>2, ResponseOk DEF rev
<1>9. Reversed(resp).assertions[1] = b
  BY <1>2
<1>10. QED
  BY <1>6, <1>7, <1>8, <1>9, ValidateOk DEF Accepts

(* A presenter's certificate where there was none, one more published key, *)
(* the confirmations in another order: none of them takes an acceptance    *)
(* away (find_valid_subject_confirmation, validate_response).              *)
THEOREM AcceptanceIsStable ==
  ASSUME NEW resp, NEW ctx, WellFormed(resp, ctx)
  PROVE  Stable(resp, ctx)
<1> USE DEF ContextFields
<1>1. DOMAIN ctx = ContextFields
  BY DEF WellFormed
<1>2. ASSUME Accepts(resp, ctx), ctx.presenter = {}, NEW p \in {"p1", "p2"}
      PROVE  Accepts(resp, [ctx EXCEPT !.presenter = {p}])
  <2>1. Extends([ctx EXCEPT !.presenter = {p}], ctx)
    BY <1>1, <1>2 DEF Extends
  <2>2. QED
    BY <1>2, <2>1, Monotone
<1>3. ASSUME Accepts(resp, ctx)
      PROVE  Accepts(resp, [ctx EXCEPT !.certs = @ \cup {"k2"}])
  <2>1. Extends([ctx EXCEPT !.certs = @ \cup {"k2"}], ctx)
    BY <1>1 DEF Extends
  <2>2. QED
    BY <1>3, <2>1, Monotone
<1>4. QED
  BY <1>2, <1>3, OrderIrrelevant DEF Stable

-----------------------------------------------------------------------------
(* What the comparator decides.                                            *)

LEMMA StrengthType ==
  ASSUME NEW c \in StandardClassRefs
  PROVE  class_ref_strength(c) \in 0..8
BY DEF class_ref_strength, StandardClassRefs

(* The folded minimum and maximum are strengths of references asked for.   *)
LEMMA Bounds ==
  ASSUME NEW refs \in SUBSET StandardClassRefs, refs # {}
  PROVE  /\ \E c \in refs : class_ref_strength(c) = Weakest(refs)
         /\ \A c \in refs : Weakest(refs) <= class_ref_strength(c)
         /\ \E c \in refs : class_ref_strength(c) = Strongest(refs)
         /\ \A c \in refs : class_ref_strength(c) <= Strongest(refs)
<1> DEFINE strengths == {class_ref_strength(c) : c \in refs}
<1>0. \A c \in refs : class_ref_strength(c) \in strengths
  OBVIOUS
<1>1. strengths \in SUBSET Nat /\ strengths # {} /\ \A m \in strengths : m <= 8
  <2>1. \A c \in refs : class_ref_strength(c) \in Nat /\ class_ref_strength(c) <= 8
    BY StrengthType
  <2>2. QED
    BY <2>1
<1>2. PICK x \in strengths : \A c \in refs : x <= class_ref_strength(c)
  <2> HIDE DEF strengths
  <2>1. PICK x \in strengths : \A m \in strengths : x <= m
    BY <1>1, Least
  <2>2. QED
    BY <1>0, <2>1
<1>3. PICK y \in strengths : \A c \in refs : class_ref_strength(c) <= y
  <2> HIDE DEF strengths
  <2>1. PICK y \in strengths : \A m \in strengths : m <= y
    BY <1>1, Greatest
  <2>2. QED
    BY <1>0, <2>1
<1>4. y >= 0 /\ \A c \in refs : y >= class_ref_strength(c)
  BY <1>1, <1>3, StrengthType
<1>5. Weakest(refs) \in strengths /\ \A c \in refs : Weakest(refs) <= class_ref_strength(c)
  BY <1>2 DEF Weakest
<1>6. Strongest(refs) \in strengths /\ \A c \in refs : Strongest(refs) >= class_ref_strength(c)
  BY <1>4 DEF Strongest
<1>7. QED
  BY <1>1, <1>5, <1>6, StrengthType

(* StandardComparator::evaluate decides what its documentation means.      *)
THEOREM ComparatorMeansWhatItSays ==
  ASSUME NEW q, NEW actual, q.comparison \in Comparisons
  PROVE  is_satisfied(q, actual) <=> Meaning(q, actual)
<1> DEFINE refs == q.class_refs
           rankable == refs # {} /\ refs \cup {actual} \subseteq StandardClassRefs
<1>1. CASE q.comparison = "Exact"
  BY <1>1 DEF is_satisfied, evaluate, Meaning
<1>2. CASE q.comparison # "Exact" /\ ~rankable
  BY <1>2 DEF is_satisfied, evaluate, Meaning, Comparisons
<1>3. CASE q.comparison # "Exact" /\ rankable
  <2>1. is_satisfied(q, actual) <=> Ordered(q, actual)
    BY <1>3 DEF is_satisfied, evaluate
  <2>2. /\ class_ref_strength(actual) \in Int
        /\ \A c \in refs : class_ref_strength(c) \in Int
    BY <1>3, StrengthType
  <2>3. /\ \E c \in refs : class_ref_strength(c) = Weakest(refs)
        /\ \A c \in refs : Weakest(refs) <= class_ref_strength(c)
        /\ \E c \in refs : class_ref_strength(c) = Strongest(refs)
        /\ \A c \in refs : class_ref_strength(c) <= Strongest(refs)
    BY <1>3, Bounds
  <2>4. CASE q.comparison = "Minimum"
    <3>1. Ordered(q, actual) <=> class_ref_strength(actual) >= Weakest(refs)
      BY <2>4 DEF Ordered
    <3>2. Meaning(q, actual) <=> \E c \in refs : AtLeast(actual, c)
      BY <1>3, <2>4 DEF Meaning
    <3>3. QED
      BY <2>1, <2>2, <2>3, <3>1, <3>2 DEF AtLeast
  <2>5. CASE q.comparison = "Maximum"
    <3>1. Ordered(q, actual) <=> class_ref_strength(actual) <= Strongest(refs)
      BY <2>5 DEF Ordered
    <3>2. Meaning(q, actual) <=> \E c \in refs : AtLeast(c, actual)
      BY <1>3, <2>5 DEF Meaning
    <3>3. QED
      BY <2>1, <2>2, <2>3, <3>1, <3>2 DEF AtLeast
  <2>6. CASE q.comparison = "Better"
    <3>1. Ordered(q, actual) <=> class_ref_strength(actual) > Strongest(refs)
      BY <2>6 DEF Ordered
    <3>2. Meaning(q, actual) <=> \A c \in refs : ~AtLeast(c, actual)
      BY <1>3, <2>6 DEF Meaning
    <3>3. QED
      BY <2>1, <2>2, <2>3, <3>1, <3>2 DEF AtLeast
  <2>7. QED
    BY <1>3, <2>4, <2>5, <2>6 DEF Comparisons
<1>4. QED
  BY <1>1, <1>2, <1>3

-----------------------------------------------------------------------------
(* The verdict on the requested authentication context.                    *)

(* No other check of the pipeline has the comparator's error.              *)
LEMMA OnlyComparatorDowngrades ==
  ASSUME NEW resp, NEW ctx, WellFormed(resp, ctx),
         validate_response(resp, ctx) = "AuthnContextDowngrade"
  PROVE  check_authn_context(resp.assertions[1], ctx) = "AuthnContextDowngrade"
<1> DEFINE a == resp.assertions[1]
           D == "AuthnContextDowngrade"
<1>1. ResponseChecks(resp, ctx) # D
  BY DEF ResponseChecks, InResponseTo, enforce_signature_positions, Reject, &&
<1>2. SignatureGate(resp, a, ctx) # D
  <2>1. \A sigs, certs, element : /\ VerifyRequired(sigs, certs, element) # D
                                  /\ VerifyPresent(sigs, certs, element) # D
    BY DEF VerifyRequired, VerifyPresent, Reject, &&
  <2>2. verify_response_and_or_assertion(resp, a, ctx) # D
    BY <2>1 DEF verify_response_and_or_assertion, &&
  <2>3. handle_encrypted(resp, a, ctx) # D
    BY <2>1 DEF handle_encrypted, decrypt_encrypted_assertion, Reject, &&
  <2>4. QED
    BY <2>2, <2>3 DEF SignatureGate
<1>3. AssertionChecks(a, ctx) = D /\ ResponseChecks(resp, ctx) = "Ok"
  BY <1>1, <1>2 DEF validate_response, &&
<1>4. /\ decrypt_subject_encrypted_id(a, ctx) # D /\ ConditionsWindow(a, ctx) # D
      /\ AudienceCheck(a, ctx) # D /\ SessionCheck(a, ctx) # D
      /\ Reject(a.issuer # ctx.idp, "IssuerMismatch") # D
  BY DEF decrypt_subject_encrypted_id, decrypt_encrypted_assertion, ConditionsWindow,
         AudienceCheck, SessionCheck, Reject, &&
<1>5. find_valid_subject_confirmation(a, ctx) # D
  <2>1. \A sc : ConfirmationVerdict(sc, ctx) # D
    BY DEF ConfirmationVerdict, Reject, &&
  <2>2. QED
    BY <2>1 DEF find_valid_subject_confirmation
<1>6. QED
  BY <1>3, <1>4, <1>5 DEF AssertionChecks, &&

(* An accepted response carries a class of which the meaning of the        *)
(* comparison holds, and one refused for its class carries none            *)
(* (check_authn_context).                                                  *)
THEOREM ContextIsMeant ==
  ASSUME NEW resp, NEW ctx, WellFormed(resp, ctx), NEW q \in ctx.requested
  PROVE  /\ Accepts(resp, ctx) => Meant(q, resp.assertions[1])
         /\ validate_response(resp, ctx) = "AuthnContextDowngrade"
              => ~Meant(q, resp.assertions[1])
<1> DEFINE a == resp.assertions[1]
<1>1. q.comparison \in Comparisons /\ ctx.requested = {q}
  BY DEF WellFormed
<1>2. check_authn_context(a, ctx) = IF Meant(q, a) THEN "Ok" ELSE "AuthnContextDowngrade"
  BY <1>1, ComparatorMeansWhatItSays DEF check_authn_context, Meant, Reject
<1>3. Accepts(resp, ctx) => check_authn_context(a, ctx) = "Ok"
  BY ValidateOk, AssertionOk DEF Accepts
<1>4. QED
  BY <1>2, <1>3, OnlyComparatorDowngrades

-----------------------------------------------------------------------------
(* The specification: what the call answers on every input of the families *)
(* of the runs, for any skew, horizon and custom references.               *)

(* The values the families start from.                                     *)
LEMMA GoodShapes ==
  /\ DOMAIN GoodAssertion = AssertionFields /\ DOMAIN GoodResponse = ResponseFields
  /\ DOMAIN GoodContext = ContextFields
  /\ GoodContext.requested = {} /\ GoodContext.now \in Int /\ GoodContext.skew \in Int
  /\ GoodAssertion.confirmations = <<GoodConfirmation>>
  /\ GoodConfirmation.not_on_or_after = {3}
BY SMTT(20), FamilyAssumption
   DEF GoodAssertion, GoodResponse, GoodContext, GoodConfirmation, AssertionFields,
       ResponseFields, ContextFields

(* The shape of a context, of an assertion and of a response.              *)
SoundContext(ctx) ==
  /\ DOMAIN ctx = ContextFields /\ ctx.now \in Int /\ ctx.skew \in Int
  /\ \A p, q \in ctx.requested : p = q
  /\ \A q \in ctx.requested : q.comparison \in Comparisons

SoundAssertion(a) ==
  /\ DOMAIN a = AssertionFields
  /\ Len(a.confirmations) \in Nat /\ DOMAIN a.confirmations = 1..Len(a.confirmations)
  /\ \A i \in DOMAIN a.confirmations : a.confirmations[i].not_on_or_after \in SUBSET Int

LEMMA ContextShapes ==
  /\ \A x, y : SoundContext(Demanding(x, y)) /\ SoundContext(PresentedBy(x, y))
  /\ \A t \in Int : \A x : SoundContext(CalledAt(t, x))
  /\ \A q \in Requests : SoundContext(Requesting(q))
<1> USE GoodShapes DEF SoundContext, ContextFields
<1>1. \A x, y : SoundContext(Demanding(x, y))
  BY DEF Demanding
<1>2. \A x, y : SoundContext(PresentedBy(x, y))
  BY DEF PresentedBy
<1>3. \A t \in Int : \A x : SoundContext(CalledAt(t, x))
  BY DEF CalledAt
<1>4. \A q \in Requests : SoundContext(Requesting(q))
  BY DEF Requesting, Requests
<1>5. QED
  BY <1>1, <1>2, <1>3, <1>4

LEMMA AssertionShapes ==
  /\ \A x, y : SoundAssertion(CarriedAssertion(x, y)) /\ SoundAssertion(ClassifiedAssertion(x))
  /\ \A x, y, z, w : \A t \in Int : SoundAssertion(WindowedAssertion(x, y, z, w, t))
  /\ \A scs \in ConfirmationLists : SoundAssertion(ConfirmedAssertion(scs))
<1> USE GoodShapes DEF SoundAssertion, AssertionFields
<1>1. \A x, y : SoundAssertion(CarriedAssertion(x, y))
  BY DEF CarriedAssertion
<1>2. ASSUME NEW scs \in ConfirmationLists
      PROVE  SoundAssertion(ConfirmedAssertion(scs))
  <2>1. /\ DOMAIN ConfirmedAssertion(scs) = AssertionFields
        /\ ConfirmedAssertion(scs).confirmations = scs
    BY DEF ConfirmedAssertion
  <2>2. \A c \in Confirmations : c.not_on_or_after \in SUBSET Int
    BY DEF Confirmations, Opt
  <2>3. /\ Len(scs) \in Nat /\ DOMAIN scs = 1..Len(scs)
        /\ \A i \in DOMAIN scs : scs[i] \in Confirmations
    <3>1. CASE scs = <<>>
      BY <3>1
    <3>2. CASE \E c \in Confirmations : scs = <<c>>
      BY <3>2
    <3>3. CASE \E c, d \in Confirmations : scs = <<c, d>>
      BY <3>3
    <3>4. QED
      BY <3>1, <3>2, <3>3 DEF ConfirmationLists
  <2>4. QED
    BY <2>1, <2>2, <2>3
<1>3. ASSUME NEW x, NEW y, NEW z, NEW w, NEW t \in Int
      PROVE  SoundAssertion(WindowedAssertion(x, y, z, w, t))
  <2> DEFINE sc == [GoodConfirmation EXCEPT !.not_on_or_after = {t}]
  <2>1. sc.not_on_or_after \in SUBSET Int
    BY DEF GoodConfirmation
  <2> HIDE DEF sc
  <2>2. /\ DOMAIN WindowedAssertion(x, y, z, w, t) = AssertionFields
        /\ WindowedAssertion(x, y, z, w, t).confirmations = <<sc>>
    BY DEF WindowedAssertion, sc
  <2>3. QED
    BY <2>1, <2>2
<1>4. \A x : SoundAssertion(ClassifiedAssertion(x))
  BY DEF ClassifiedAssertion
<1>5. QED
  BY <1>1, <1>2, <1>3, <1>4

LEMMA ResponseShapes ==
  ASSUME NEW x, NEW y, NEW n \in Nat, NEW a, SoundAssertion(a), NEW ctx, SoundContext(ctx)
  PROVE  /\ WellFormed(SignedResponse(x, y, a), ctx) /\ WellFormed(AnswerTo(x, a), ctx)
         /\ WellFormed(Carrying(x, n, a), ctx)
<1>1. ASSUME NEW resp, NEW m \in Nat, DOMAIN resp = ResponseFields,
             resp.assertions = [i \in 1..m |-> a]
      PROVE  WellFormed(resp, ctx)
  <2>1. Len(resp.assertions) = m
    BY <1>1
  <2>2. m > 0 => resp.assertions[1] = a
    BY <1>1
  <2>3. QED
    BY <1>1, <2>1, <2>2 DEF WellFormed, SoundContext, SoundAssertion
<1>2. <<a>> = [i \in 1..1 |-> a]
  OBVIOUS
<1>3. /\ DOMAIN SignedResponse(x, y, a) = ResponseFields
      /\ SignedResponse(x, y, a).assertions = <<a>>
  BY GoodShapes DEF SignedResponse, ResponseFields
<1>4. /\ DOMAIN AnswerTo(x, a) = ResponseFields /\ AnswerTo(x, a).assertions = <<a>>
  BY GoodShapes DEF AnswerTo, ResponseFields
<1>5. /\ DOMAIN Carrying(x, n, a) = ResponseFields
      /\ Carrying(x, n, a).assertions = [i \in 1..n |-> a]
  BY GoodShapes DEF Carrying, ResponseFields
<1>6. QED
  BY <1>1, <1>2, <1>3, <1>4, <1>5

LEMMA FamilyWellFormed ==
  ASSUME NEW input \in SignatureFamily \cup ConfirmationFamily \cup WindowFamily
                        \cup AuthnContextFamily
  PROVE  WellFormed(input[1], input[2])
<1>1. CASE input \in SignatureFamily
  <2>1. PICK rs, stray, as, enc, wr, wa :
          input = <<SignedResponse(rs, stray, CarriedAssertion(as, enc)), Demanding(wr, wa)>>
    BY <1>1 DEF SignatureFamily
  <2>2. SoundAssertion(CarriedAssertion(as, enc)) /\ SoundContext(Demanding(wr, wa))
    BY AssertionShapes, ContextShapes
  <2>3. QED
    BY <2>1, <2>2, ResponseShapes
<1>2. CASE input \in ConfirmationFamily
  <2>1. PICK scs \in ConfirmationLists, asked \in Opt({"req"}), holder \in Opt({"p1", "p2"}) :
          input = <<AnswerTo(asked, ConfirmedAssertion(scs)), PresentedBy(asked, holder)>>
    BY <1>2 DEF ConfirmationFamily
  <2>2. SoundAssertion(ConfirmedAssertion(scs)) /\ SoundContext(PresentedBy(asked, holder))
    BY AssertionShapes, ContextShapes
  <2>3. QED
    BY <2>1, <2>2, ResponseShapes
<1>3. CASE input \in WindowFamily
  <2>1. PICK irt \in Opt({"req", "req2"}),
             carried \in ({1} \X WindowedAssertions) \cup ({0, 2} \X {GoodAssertion}),
             now \in Instants, allow \in BOOLEAN :
          input = <<Carrying(irt, carried[1], carried[2]), CalledAt(now, allow)>>
    BY <1>3 DEF WindowFamily
  <2>2. carried[1] \in Nat /\ carried[2] \in WindowedAssertions \cup {GoodAssertion}
    OBVIOUS
  <2>3. SoundAssertion(GoodAssertion)
    BY GoodShapes DEF SoundAssertion
  <2>4. ASSUME NEW a \in WindowedAssertions
        PROVE  SoundAssertion(a)
    <3>1. PICK nb \in Opt({2}), nooa \in Opt({2, 4}), se \in Opt({3}),
               aud \in {{}, {{"sp"}}, {{"sp"}, {"other"}}}, sc \in {2, 4} :
            a = WindowedAssertion(nb, nooa, se, aud, sc)
      BY DEF WindowedAssertions
    <3>2. QED
      BY <3>1, AssertionShapes
  <2>5. SoundContext(CalledAt(now, allow))
    BY FamilyAssumption, ContextShapes DEF Instants
  <2>6. QED
    BY <2>1, <2>2, <2>3, <2>4, <2>5, ResponseShapes
<1>4. CASE input \in AuthnContextFamily
  <2>1. PICK c \in Opt(ClassRefs), q \in Requests :
          input = <<AnswerTo({"req"}, ClassifiedAssertion(c)), Requesting(q)>>
    BY <1>4 DEF AuthnContextFamily
  <2>2. SoundAssertion(ClassifiedAssertion(c)) /\ SoundContext(Requesting(q))
    BY AssertionShapes, ContextShapes
  <2>3. QED
    BY <2>1, <2>2, ResponseShapes
<1>5. QED
  BY <1>1, <1>2, <1>3, <1>4

(* The verdict is the pipeline's on a well-formed input.                   *)
VerdictInv == verdict \in {"pending", validate_response(r, cx)} /\ WellFormed(r, cx)

LEMMA VerdictInvariance == ValidationSpec => []VerdictInv
<1>1. ValidationInit => VerdictInv
  BY FamilyWellFormed DEF ValidationInit, VerdictInv
<1>2. VerdictInv /\ [Validate]_validationVars => VerdictInv'
  BY DEF VerdictInv, Validate, validationVars
<1>3. QED
  BY <1>1, <1>2, PTL DEF ValidationSpec

(* The three promises of validate_response over all its calls.             *)
THEOREM SpecAuthenticatedAndBound == ValidationSpec => []AuthenticatedAndBound
<1>1. VerdictInv => AuthenticatedAndBound
  BY AcceptedIsBound DEF VerdictInv, AuthenticatedAndBound, Accepts
<1>2. QED
  BY <1>1, VerdictInvariance, PTL

THEOREM SpecAcceptanceStable == ValidationSpec => []AcceptanceStable
<1>1. VerdictInv => AcceptanceStable
  BY AcceptanceIsStable DEF VerdictInv, AcceptanceStable
<1>2. QED
  BY <1>1, VerdictInvariance, PTL

THEOREM SpecContextMeansWhatItSays == ValidationSpec => []ContextMeansWhatItSays
<1>1. VerdictInv => ContextMeansWhatItSays
  BY ContextIsMeant DEF VerdictInv, ContextMeansWhatItSays, Accepts
<1>2. QED
  BY <1>1, VerdictInvariance, PTL

-----------------------------------------------------------------------------
(* What an accepting validation establishes about one call.                *)

LEMMA VerdictOk ==
  ASSUME NEW x, Verdict(x) = "Ok"
  PROVE  /\ validate_tracker_context(Sp, x) = "Ok"
         /\ validate_response(Wire(Sp, x.msg), Context(Sp, x)) = "Ok"
         /\ NameIdCheck(Sp, x) = "Ok"
         /\ OneTimeUseCheck(x) = "Ok"
BY BothOk DEF Verdict, Validation

LEMMA RouteFacts ==
  ASSUME NEW x, Verdict(x) = "Ok"
  PROVE  /\ \A t \in x.tracker : /\ t.idp = x.idp
                                 /\ t.acs.url = x.route.url /\ t.acs.binding = x.route.binding
         /\ \A t \in x.tracker : \A f \in t.format : x.msg.name_id.format = f
         /\ x.msg.one_time_use => x.mode \notin {"NoCache", "Off"}
<1>1. \A t \in x.tracker : /\ t.idp = x.idp
                           /\ t.acs.url = x.route.url /\ t.acs.binding = x.route.binding
  BY VerdictOk DEF validate_tracker_context, Reject, &&
<1>2. \A t \in x.tracker : \A f \in t.format : x.msg.name_id.format = f
  BY VerdictOk DEF NameIdCheck, Reject, &&
<1>3. x.msg.one_time_use => x.mode \notin {"NoCache", "Off"}
  BY VerdictOk DEF OneTimeUseCheck, Reject
<1>4. QED
  BY <1>1, <1>2, <1>3

(* One signature that verifies was made with a key in use.                 *)
LEMMA Verifies ==
  ASSUME NEW sigs, NEW certs, NEW element, NEW sig \in sigs,
         VerifyRequired(sigs, certs, element) = "Ok"
  PROVE  sig.cert \in certs
BY BothOk DEF VerifyRequired, VerifyPresent, verify_signature, Reject

LEMMA ResponseFacts ==
  ASSUME NEW x, Verdict(x) = "Ok"
  PROVE  /\ x.msg.issuer = x.idp
         /\ x.msg.in_response_to = TrackedRequest(x)
         /\ x.msg.cert \in ValidationCerts(x)
         /\ ~(x.msg.not_on_or_after <= x.now - Skew)
<1> DEFINE resp == Wire(Sp, x.msg)
           ctx == Context(Sp, x)
           a == resp.assertions[1]
           signature(element) == [cert |-> x.msg.cert, covers |-> element, intact |-> TRUE]
<1>1. /\ resp.issuer = {x.msg.issuer} /\ resp.in_response_to = x.msg.in_response_to
      /\ resp.sig = IF WantResponse THEN {signature("Response")} ELSE {}
      /\ a.enc = {} /\ a.sig = {signature("Assertion")}
      /\ a.not_on_or_after = {x.msg.not_on_or_after}
  BY DEF Wire, Sp
<1>2. /\ ctx.idp = x.idp /\ ctx.tracker = TrackedRequest(x) /\ ctx.certs = ValidationCerts(x)
      /\ ctx.want_response = WantResponse /\ ctx.want_assertions = WantAssertions
      /\ ctx.now = x.now /\ ctx.skew = Skew
  BY DEF Context, Sp
<1> HIDE DEF resp, ctx, signature
<1>3. /\ ResponseChecks(resp, ctx) = "Ok" /\ SignatureGate(resp, a, ctx) = "Ok"
      /\ AssertionChecks(a, ctx) = "Ok"
  BY VerdictOk, BothOk DEF validate_response, resp, ctx
<1>4. x.msg.issuer = x.idp
  <2>1. resp.issuer = {ctx.idp}
    BY <1>3, BothOk DEF ResponseChecks, Reject
  <2>2. QED
    BY <1>1, <1>2, <2>1
<1>5. x.msg.in_response_to = TrackedRequest(x)
  <2>1. InResponseTo(resp.in_response_to, ctx) = "Ok"
    BY <1>3, BothOk DEF ResponseChecks
  <2>2. QED
    BY <1>1, <1>2, <2>1 DEF InResponseTo, Reject
<1>6. x.msg.cert \in ValidationCerts(x)
  <2>1. signature("Response").cert = x.msg.cert /\ signature("Assertion").cert = x.msg.cert
    BY DEF signature
  <2>2. \/ resp.sig # {} /\ VerifyRequired(resp.sig, ctx.certs, "Response") = "Ok"
        \/ VerifyRequired(a.sig, ctx.certs, "Assertion") = "Ok"
    BY <1>1, <1>2, <1>3, BothOk DEF SignatureGate, verify_response_and_or_assertion
  <2>3. QED
    BY <1>1, <1>2, <2>1, <2>2, Verifies
<1>7. ~(x.msg.not_on_or_after <= x.now - Skew)
  <2>1. ConditionsWindow(a, ctx) = "Ok"
    BY <1>3, BothOk DEF AssertionChecks
  <2>2. ~Over(a.not_on_or_after, ctx)
    BY <2>1, BothOk DEF ConditionsWindow, Reject
  <2>3. QED
    BY <1>1, <1>2, <2>2 DEF Over
<1>8. QED
  BY <1>4, <1>5, <1>6, <1>7

-----------------------------------------------------------------------------
(* No error is mistaken for a state of a call.                             *)

Errors == {"Ok"} \cup ConsumeError

LEMMA BothErrors ==
  ASSUME NEW a \in Errors, NEW b \in Errors
  PROVE  (a && b) \in Errors
BY DEF &&

LEMMA ResponseErrors ==
  ASSUME NEW resp, NEW ctx
  PROVE  validate_response(resp, ctx) \in Errors
<1> DEFINE a == resp.assertions[1]
<1>1. ResponseChecks(resp, ctx) \in Errors
  BY DEF ResponseChecks, InResponseTo, enforce_signature_positions, Reject, &&, Errors, ConsumeError
<1>2. SignatureGate(resp, a, ctx) \in Errors
  <2>1. \A sigs, certs, element : /\ VerifyRequired(sigs, certs, element) \in Errors
                                  /\ VerifyPresent(sigs, certs, element) \in Errors
    BY DEF VerifyRequired, VerifyPresent, Reject, &&, Errors, ConsumeError
  <2>2. verify_response_and_or_assertion(resp, a, ctx) \in Errors
    BY <2>1, BothErrors DEF verify_response_and_or_assertion
  <2>3. handle_encrypted(resp, a, ctx) \in Errors
    BY <2>1 DEF handle_encrypted, decrypt_encrypted_assertion, Reject, &&, Errors, ConsumeError
  <2>4. QED
    BY <2>2, <2>3 DEF SignatureGate
<1>3. AssertionChecks(a, ctx) \in Errors
  <2>1. \A sc : ConfirmationVerdict(sc, ctx) \in Errors
    BY DEF ConfirmationVerdict, Reject, &&, Errors, ConsumeError
  <2>2. find_valid_subject_confirmation(a, ctx) \in Errors
    BY <2>1 DEF find_valid_subject_confirmation, Errors, ConsumeError
  <2>3. decrypt_subject_encrypted_id(a, ctx) \in Errors
    BY DEF decrypt_subject_encrypted_id, decrypt_encrypted_assertion, Reject, Errors, ConsumeError
  <2>4. ConditionsWindow(a, ctx) \in Errors
    BY DEF ConditionsWindow, Reject, &&, Errors, ConsumeError
  <2>5. AudienceCheck(a, ctx) \in Errors /\ SessionCheck(a, ctx) \in Errors
    BY DEF AudienceCheck, SessionCheck, Reject, Errors, ConsumeError
  <2>6. check_authn_context(a, ctx) \in Errors
    BY DEF check_authn_context, Reject, Errors, ConsumeError
  <2>7. Reject(a.issuer # ctx.idp, "IssuerMismatch") \in Errors
    BY DEF Reject, Errors, ConsumeError
  <2>8. QED
    BY <2>2, <2>3, <2>4, <2>5, <2>6, <2>7, BothErrors DEF AssertionChecks
<1>4. QED
  BY <1>1, <1>2, <1>3, BothErrors DEF validate_response

LEMMA VerdictErrors ==
  ASSUME NEW x
  PROVE  Verdict(x) \in Errors
<1>1. open(x, MaxAge) \in Errors /\ OneTimeUseCheck(x) \in Errors
  BY DEF open, OneTimeUseCheck, Reject, Errors, ConsumeError
<1>2. validate_tracker_context(Sp, x) \in Errors
  BY DEF validate_tracker_context, Reject, &&, Errors, ConsumeError
<1>3. NameIdCheck(Sp, x) \in Errors
  BY DEF NameIdCheck, Reject, &&, Errors, ConsumeError
<1>4. QED
  BY <1>1, <1>2, <1>3, ResponseErrors, BothErrors DEF Verdict, Validation

-----------------------------------------------------------------------------
(* The store operators.                                                    *)

(* The sweep keeps exactly the entries that expire after `now`, unchanged. *)
LEMMA SweepFacts ==
  ASSUME NEW s, NEW now
  PROVE  /\ DOMAIN Sweep(s, now) = {k \in DOMAIN s : s[k] > now}
         /\ \A k \in DOMAIN Sweep(s, now) : Sweep(s, now)[k] = s[k]
BY DEF Sweep

(* What a call with one entry leaves behind: the entry if it was fresh,    *)
(* and no key of the swept store changed.                                  *)
LEMMA StoreFacts ==
  ASSUME NEW s, NEW e, NEW now, NEW capacity, NEW new, new = StoreAfter(s, <<e>>, now, capacity)
  PROVE  /\ \A k \in DOMAIN s : s[k] > now => k \in DOMAIN new /\ new[k] = s[k]
         /\ \A k \in DOMAIN new : \/ k = e.key /\ new[k] = e.expires_at
                                  \/ k \in DOMAIN s /\ new[k] = s[k]
         /\ Outcome(s, <<e>>, now, capacity) = "fresh" =>
              /\ e.key \in DOMAIN new /\ new[e.key] = e.expires_at
              /\ ~(e.key \in DOMAIN s /\ s[e.key] > now)
         /\ Outcome(s, <<e>>, now, capacity) # "fresh" =>
              \A k \in DOMAIN new : k \in DOMAIN s /\ new[k] = s[k]
<1> DEFINE es == <<e>>
           swept_store == Sweep(s, now)
<1>1. DOMAIN es = {1} /\ es[1] = e /\ Keys(es) = {e.key}
  BY DEF Keys
<1>2. DOMAIN swept_store = {k \in DOMAIN s : s[k] > now}
      /\ \A k \in DOMAIN swept_store : swept_store[k] = s[k]
  BY SweepFacts
<1> HIDE DEF es, swept_store
<1>3. Outcome(s, es, now, capacity) = "fresh" => e.key \notin DOMAIN swept_store
  BY <1>1 DEF Outcome, Conflict, swept_store
<1>4. /\ DOMAIN Insert(swept_store, es) = DOMAIN swept_store \cup {e.key}
      /\ Insert(swept_store, es)[e.key] = e.expires_at
      /\ \A k \in DOMAIN swept_store \ {e.key} : Insert(swept_store, es)[k] = swept_store[k]
  BY <1>1 DEF Insert
<1>5. StoreAfter(s, es, now, capacity) =
        IF Outcome(s, es, now, capacity) = "fresh" THEN Insert(swept_store, es) ELSE swept_store
  BY DEF StoreAfter, swept_store
<1>6. CASE Outcome(s, es, now, capacity) = "fresh"
  <2>1. new = Insert(swept_store, es)
    BY <1>5, <1>6 DEF es
  <2>2. e.key \notin DOMAIN swept_store /\ ~(e.key \in DOMAIN s /\ s[e.key] > now)
    BY <1>2, <1>3, <1>6
  <2>3. DOMAIN new = DOMAIN swept_store \cup {e.key} /\ new[e.key] = e.expires_at
    BY <1>4, <2>1
  <2>4. \A k \in DOMAIN swept_store : new[k] = s[k]
    BY <1>2, <1>4, <2>1, <2>2
  <2>5. \A k \in DOMAIN s : s[k] > now => k \in DOMAIN new /\ new[k] = s[k]
    BY <1>2, <2>3, <2>4
  <2>6. \A k \in DOMAIN new : \/ k = e.key /\ new[k] = e.expires_at
                              \/ k \in DOMAIN s /\ new[k] = s[k]
    BY <1>2, <2>3, <2>4
  <2>7. Outcome(s, <<e>>, now, capacity) = "fresh"
    BY <1>6 DEF es
  <2>8. QED
    BY <2>2, <2>3, <2>5, <2>6, <2>7
<1>7. CASE Outcome(s, es, now, capacity) # "fresh"
  <2>1. new = swept_store
    BY <1>5, <1>7 DEF es
  <2>2. QED
    BY <1>2, <1>7, <2>1 DEF es
<1>8. QED
  BY <1>6, <1>7

LEMMA StoreFresh ==
  ASSUME NEW s, NEW e, NEW now, NEW capacity, Outcome(s, <<e>>, now, capacity) = "fresh"
  PROVE  /\ e.key \in DOMAIN StoreAfter(s, <<e>>, now, capacity)
         /\ StoreAfter(s, <<e>>, now, capacity)[e.key] = e.expires_at
         /\ ~(e.key \in DOMAIN s /\ s[e.key] > now)
BY StoreFacts

-----------------------------------------------------------------------------
(* Type correctness.                                                       *)

(* The cache's answers, and what becomes of a call on each.                *)
LEMMA OutcomeFacts ==
  ASSUME NEW s, NEW es, NEW now, NEW capacity
  PROVE  /\ CacheVerdict(Outcome(s, es, now, capacity), "AssertionReplay")
              \in {"accepted", "AssertionReplay", "ReplayCacheFull"}
         /\ CacheVerdict(Outcome(s, es, now, capacity), "AssertionReplay") = "accepted"
              <=> Outcome(s, es, now, capacity) = "fresh"
<1>1. Outcome(s, es, now, capacity) \in {"fresh", "seen", "full"}
  BY DEF Outcome
<1>2. /\ CacheVerdict("fresh", "AssertionReplay") = "accepted"
      /\ CacheVerdict("seen", "AssertionReplay") = "AssertionReplay"
      /\ CacheVerdict("full", "AssertionReplay") = "ReplayCacheFull"
  BY DEF CacheVerdict
<1>3. QED
  BY <1>1, <1>2

(* The tombstone of a call.                                                *)
LEMMA EntryFacts ==
  ASSUME NEW x \in ActiveCall
  PROVE  /\ AssertionEntry(Sp, x).key = <<"Assertion", x.msg.aid>>
         /\ AssertionEntry(Sp, x).expires_at = x.msg.not_on_or_after + Skew
         /\ x.msg.aid \in Aid /\ x.msg.not_on_or_after \in Nat
BY DEF AssertionEntry, ReplayEntry, replay_expires_at, Sp, ActiveCall, Message

LEMMA CallIsActive ==
  ASSUME TypeOK, NEW c \in Call, call[c].pc # "idle"
  PROVE  call[c] \in ActiveCall
BY DEF TypeOK, Idle

(* The end of a call changes nothing but its result.                       *)
LEMMA FinishFacts ==
  ASSUME TypeOK, NEW c \in Call, call[c].pc = "received",
         NEW result \in {"accepted"} \cup ConsumeError,
         Finish(c, result)
  PROVE  /\ call' \in [Call -> {Idle} \cup ActiveCall]
         /\ call'[c] = [call[c] EXCEPT !.pc = result]
         /\ call'[c].pc = result /\ call'[c].msg = call[c].msg /\ call'[c].now = call[c].now
         /\ call'[c].mode = call[c].mode /\ call'[c].tracker = call[c].tracker
         /\ call'[c].route = call[c].route /\ call'[c].roots = call[c].roots
         /\ call'[c].idp = call[c].idp
         /\ \A d \in Call : d # c => call'[d] = call[d]
<1>1. call[c] \in ActiveCall
  BY CallIsActive
<1>2. PICK x : x = [call[c] EXCEPT !.pc = result]
  OBVIOUS
<1>3. /\ x.pc = result /\ x.msg = call[c].msg /\ x.now = call[c].now
      /\ x.mode = call[c].mode /\ x.tracker = call[c].tracker
      /\ x.route = call[c].route /\ x.roots = call[c].roots /\ x.idp = call[c].idp
      /\ x \in ActiveCall
  BY <1>1, <1>2 DEF ActiveCall
<1>4. call' = [call EXCEPT ![c] = x]
  BY <1>2 DEF Finish
<1>5. QED
  BY <1>2, <1>3, <1>4 DEF TypeOK

LEMMA InitType == Init => TypeOK
<1> SUFFICES ASSUME Init PROVE TypeOK
  OBVIOUS
<1>1. roots \in [Idp -> SUBSET AllCerts]
  BY DEF Init
<1>2. DOMAIN store = {}
  BY DEF Init, EmptyStore
<1>3. QED
  BY <1>1, <1>2 DEF Init, TypeOK, Idle

LEMMA StepType ==
  ASSUME TypeOK, [Next]_vars
  PROVE  TypeOK'
<1> USE SpAssumption
<1>1. CASE Tick
  BY <1>1 DEF Tick, TypeOK
<1>2. ASSUME NEW l \in Login, NEW i \in Idp, NEW e \in Acs, NEW f \in RequestedFormat,
             start_login(l, i, e, f)
      PROVE  TypeOK'
  <2>1. [request_id |-> l, issued_at |-> clock, idp |-> i, acs |-> e, certs |-> roots[i],
         format |-> f, requested |-> {}] \in LoginTracker
    BY DEF TypeOK, LoginTracker
  <2>2. QED
    BY <1>2, <2>1 DEF start_login, TypeOK
<1>3. ASSUME NEW aid \in Aid, NEW i \in Idp, NEW irt \in Option(Login), NEW e \in Route,
             NEW otu \in OneTimeUse, NEW k \in AllCerts, NEW n \in NameId,
             PeerSends([aid |-> aid, issuer |-> i, in_response_to |-> irt, url |-> e.url,
                        not_on_or_after |-> clock + Lifetime,
                        confirmed_until |-> clock + Lifetime, session_end |-> {},
                        class_ref |-> {"Password"}, one_time_use |-> otu, cert |-> k,
                        name_id |-> n])
      PROVE  TypeOK'
  <2> DEFINE m == [aid |-> aid, issuer |-> i, in_response_to |-> irt, url |-> e.url,
                   not_on_or_after |-> clock + Lifetime,
                   confirmed_until |-> clock + Lifetime, session_end |-> {},
                   class_ref |-> {"Password"}, one_time_use |-> otu, cert |-> k,
                   name_id |-> n]
  <2>1. m \in Message
    BY DEF TypeOK, Message
  <2>2. wire' = wire \cup {m} /\ UNCHANGED <<clock, roots, tracker, store, call, swept>>
    BY <1>3 DEF PeerSends
  <2> HIDE DEF m
  <2>3. QED
    BY <2>1, <2>2 DEF TypeOK
<1>4. ASSUME NEW i \in Idp, NEW certs \in SUBSET CertsOf[i], MetadataRefresh(i, certs)
      PROVE  TypeOK'
  <2>1. certs \in SUBSET AllCerts
    BY DEF AllCerts
  <2>2. QED
    BY <1>4, <2>1 DEF MetadataRefresh, TypeOK
<1>5. ASSUME NEW c \in Call, NEW m \in wire, NEW i \in Idp, NEW e \in Route, NEW mode \in Mode,
             NEW t \in {{}} \cup {tracker[l] : l \in Login}, Receive(c, m, t, i, e, mode)
      PROVE  TypeOK'
  <2>1. /\ t \in SUBSET LoginTracker /\ m \in Message /\ roots[i] \in SUBSET AllCerts
        /\ clock \in Nat
    BY DEF TypeOK
  <2>2. [pc |-> "received", now |-> clock, msg |-> m, tracker |-> t, idp |-> i,
         roots |-> roots[i], route |-> e, mode |-> mode] \in ActiveCall
    BY <2>1 DEF ActiveCall
  <2>3. QED
    BY <1>5, <2>2 DEF Receive, TypeOK
<1>6. ASSUME NEW c \in Call, ConsumeRefused(c) \/ ConsumeUnchecked(c)
      PROVE  TypeOK'
  <2>1. call[c].pc = "received" /\ UNCHANGED <<clock, roots, tracker, wire, store, swept>>
    BY <1>6 DEF ConsumeRefused, ConsumeUnchecked
  <2>2. call' \in [Call -> {Idle} \cup ActiveCall]
    <3>1. CASE ConsumeUnchecked(c)
      BY <2>1, <3>1, FinishFacts DEF ConsumeUnchecked
    <3>2. CASE ConsumeRefused(c)
      <4>1. PICK result : result = Verdict(call[c])
        OBVIOUS
      <4>2. result \in ConsumeError
        BY <3>2, <4>1, VerdictErrors DEF ConsumeRefused, Errors
      <4>3. Finish(c, result)
        BY <3>2, <4>1 DEF ConsumeRefused
      <4>4. QED
        BY <2>1, <4>2, <4>3, FinishFacts
    <3>3. QED
      BY <1>6, <3>1, <3>2
  <2>3. QED
    BY <2>1, <2>2 DEF TypeOK
<1>7. ASSUME NEW c \in Call, ConsumeChecked(c)
      PROVE  TypeOK'
  <2> DEFINE e == AssertionEntry(Sp, call[c])
             result == CacheVerdict(Outcome(store, <<e>>, call[c].now, Capacity),
                                    "AssertionReplay")
  <2>1. /\ call[c].pc = "received" /\ Finish(c, result)
        /\ store' = StoreAfter(store, <<e>>, call[c].now, Capacity)
        /\ swept' = Latest(swept, call[c].now)
        /\ UNCHANGED <<clock, roots, tracker, wire>>
    BY <1>7 DEF ConsumeChecked
  <2>2. result \in {"accepted"} \cup ConsumeError
    BY OutcomeFacts DEF ConsumeError
  <2>3. /\ call[c] \in ActiveCall /\ call[c].now \in Nat
        /\ e.key \in {"Assertion"} \X Aid /\ e.expires_at \in Nat
    <3>1. call[c] \in ActiveCall
      BY <2>1, CallIsActive
    <3>2. call[c].now \in Nat
      BY <3>1 DEF ActiveCall
    <3>3. /\ e.key = <<"Assertion", call[c].msg.aid>> /\ call[c].msg.aid \in Aid
          /\ e.expires_at = call[c].msg.not_on_or_after + Skew
          /\ call[c].msg.not_on_or_after \in Nat
      BY <3>1, EntryFacts
    <3>4. QED
      BY <3>1, <3>2, <3>3
  <2> HIDE DEF e
  <2>4. \A k \in DOMAIN store' : \/ k = e.key /\ store'[k] = e.expires_at
                                 \/ k \in DOMAIN store /\ store'[k] = store[k]
    BY <2>1, StoreFacts
  <2>5. call' \in [Call -> {Idle} \cup ActiveCall]
    BY <2>1, <2>2, FinishFacts
  <2>6. swept' \in Nat
    BY <2>1, <2>3 DEF Latest, TypeOK
  <2>7. QED
    BY <2>1, <2>3, <2>4, <2>5, <2>6 DEF TypeOK
<1>8. CASE UNCHANGED vars
  BY <1>8 DEF vars, TypeOK
<1>9. QED
  BY <1>1, <1>2, <1>3, <1>4, <1>5, <1>6, <1>7, <1>8 DEF Next

(* The login path keeps its state well typed, in particular a finished     *)
(* call holds one of the results of consume_response.                      *)
THEOREM SpTypeCorrect == Spec => []TypeOK
BY InitType, StepType, PTL DEF Spec

-----------------------------------------------------------------------------
(* The inductive invariant.                                                *)

Entry(c) == AssertionEntry(Sp, call[c])

(* No call runs before it was received, nor later than MaxLag after; the   *)
(* cache is never swept ahead of the clock.                                *)
InTime ==
  /\ swept <= clock
  /\ \A c \in Call : call[c].pc # "idle" => call[c].now <= clock
  /\ \A c \in Call : call[c].pc = "received" => clock <= call[c].now + MaxLag

(* What was accepted had passed every check.                               *)
Validated == \A c \in Accepted : Verdict(call[c]) = "Ok"

(* A guarded acceptance keeps its tombstone until a sweep at or after its  *)
(* expiry.                                                                 *)
Held ==
  \A c \in Accepted : Guarded(c) /\ Entry(c).expires_at > swept =>
    Entry(c).key \in DOMAIN store /\ store[Entry(c).key] = Entry(c).expires_at

(* Two guarded calls accept one response only when one of them was         *)
(* received within MaxLag of its expiry.                                   *)
LateOnly ==
  \A c, d \in Accepted :
    c # d /\ call[c].msg = call[d].msg /\ Guarded(c) /\ Guarded(d) =>
      \E x \in {c, d} : /\ call[x].now < Entry(x).expires_at
                        /\ Entry(x).expires_at <= call[x].now + MaxLag

(* The SP's metadata of an IdP, and so whatever a login pins, holds keys   *)
(* of that IdP only.                                                       *)
OwnKeys ==
  /\ \A i \in Idp : roots[i] \subseteq CertsOf[i]
  /\ \A l \in Login : \A t \in tracker[l] : t.certs \subseteq CertsOf[t.idp]
  /\ \A c \in Call : call[c].pc # "idle" =>
       \A t \in call[c].tracker : t.certs \subseteq CertsOf[t.idp]

SpInv ==
  TypeOK /\ InTime /\ Validated /\ Held /\ TombstonesAreAccepted /\ LateOnly /\ OwnKeys

LEMMA InitInv == Init => SpInv
<1> SUFFICES ASSUME Init PROVE SpInv
  OBVIOUS
<1>1. TypeOK
  BY InitType
<1>2. \A c \in Call : call[c].pc = "idle"
  BY DEF Init, Idle
<1>3. Accepted = {}
  BY <1>2 DEF Accepted
<1>4. Validated /\ Held /\ LateOnly
  BY <1>3 DEF Validated, Held, LateOnly
<1>5. TombstonesAreAccepted
  BY DEF Init, EmptyStore, TombstonesAreAccepted
<1>6. InTime
  BY <1>2 DEF Init, InTime
<1>7. OwnKeys
  BY <1>2 DEF Init, OwnKeys
<1>8. QED
  BY <1>1, <1>4, <1>5, <1>6, <1>7 DEF SpInv

-----------------------------------------------------------------------------
(* What a step does to the calls and to the cache.                         *)

(* The verdict on a call does not depend on its result.                    *)
LEMMA VerdictStable ==
  ASSUME NEW x, NEW y,
         y.msg = x.msg, y.now = x.now, y.mode = x.mode, y.tracker = x.tracker,
         y.route = x.route, y.roots = x.roots, y.idp = x.idp
  PROVE  Verdict(y) = Verdict(x)
<1>1. open(y, MaxAge) = open(x, MaxAge)
  BY DEF open
<1>2. validate_tracker_context(Sp, y) = validate_tracker_context(Sp, x)
  BY DEF validate_tracker_context
<1>3. Context(Sp, y) = Context(Sp, x) /\ Wire(Sp, y.msg) = Wire(Sp, x.msg)
  BY DEF Context, ValidationCerts, TrackedRequest
<1>4. NameIdCheck(Sp, y) = NameIdCheck(Sp, x) /\ OneTimeUseCheck(y) = OneTimeUseCheck(x)
  BY DEF NameIdCheck, OneTimeUseCheck
<1>5. QED
  BY <1>1, <1>2, <1>3, <1>4 DEF Verdict, Validation

(* A call that passed validation and found its response's tombstone, if    *)
(* any, swept.                                                             *)
Fresh(c) == Outcome(store, <<Entry(c)>>, call[c].now, Capacity) = "fresh"

(* The ways a step can end a call.                                         *)
LEMMA Endings ==
  ASSUME TypeOK, NEW c \in Call, ConsumeRefused(c) \/ ConsumeUnchecked(c) \/ ConsumeChecked(c)
  PROVE  /\ call[c].pc = "received"
         /\ \E result \in {"accepted"} \cup ConsumeError :
              /\ Finish(c, result)
              /\ result = "accepted" =>
                   Verdict(call[c]) = "Ok" /\ (Guarded(c) => ConsumeChecked(c) /\ Fresh(c))
              /\ ConsumeChecked(c) => (result = "accepted" <=> Fresh(c))
<1>1. CASE ConsumeRefused(c)
  <2>1. PICK result : result = Verdict(call[c])
    OBVIOUS
  <2>2. result \in ConsumeError
    BY <1>1, <2>1, VerdictErrors DEF ConsumeRefused, Errors
  <2>3. result # "accepted" /\ ~ConsumeChecked(c)
    BY <1>1, <2>2 DEF ConsumeError, ConsumeRefused, ConsumeChecked
  <2>4. call[c].pc = "received" /\ Finish(c, result)
    BY <1>1, <2>1 DEF ConsumeRefused
  <2>5. QED
    BY <2>2, <2>3, <2>4
<1>2. CASE ConsumeUnchecked(c)
  <2>1. ~Guarded(c) /\ ~ConsumeChecked(c)
    BY <1>2 DEF ConsumeUnchecked, ConsumeChecked, Guarded
  <2>2. QED
    BY <1>2, <2>1 DEF ConsumeUnchecked
<1>3. CASE ConsumeChecked(c)
  <2>1. PICK outcome : outcome = Outcome(store, <<Entry(c)>>, call[c].now, Capacity)
    OBVIOUS
  <2>2. PICK result : result = CacheVerdict(outcome, "AssertionReplay")
    OBVIOUS
  <2>3. result \in {"accepted"} \cup ConsumeError /\ (result = "accepted" <=> outcome = "fresh")
    BY <2>1, <2>2, OutcomeFacts DEF ConsumeError
  <2>4. call[c].pc = "received" /\ Verdict(call[c]) = "Ok" /\ Finish(c, result)
    BY <1>3, <2>1, <2>2 DEF ConsumeChecked, Entry
  <2>5. QED
    BY <1>3, <2>1, <2>3, <2>4 DEF Fresh
<1>4. QED
  BY <1>1, <1>2, <1>3

(* No other step touches an accepted call, the cache or the sweep.         *)
LEMMA Others ==
  ASSUME TypeOK,
         \/ Tick
         \/ \E l \in Login, i \in Idp, e \in Acs, f \in RequestedFormat : start_login(l, i, e, f)
         \/ \E m : PeerSends(m)
         \/ \E i, certs : MetadataRefresh(i, certs)
         \/ \E c \in Call : \E m, t, i, e, mode : Receive(c, m, t, i, e, mode)
         \/ UNCHANGED vars
  PROVE  /\ store' = store /\ swept' = swept
         /\ Accepted' = Accepted
         /\ \A c \in Accepted : call'[c] = call[c]
<1>1. call \in [Call -> {Idle} \cup ActiveCall]
  BY DEF TypeOK
<1>2. CASE UNCHANGED <<store, swept, call>>
  BY <1>2 DEF Accepted
<1>3. ASSUME NEW c \in Call, NEW m, NEW t, NEW i, NEW e, NEW mode, Receive(c, m, t, i, e, mode)
      PROVE  /\ store' = store /\ swept' = swept
             /\ Accepted' = Accepted
             /\ \A d \in Accepted : call'[d] = call[d]
  <2>1. PICK x : x = [pc |-> "received", now |-> clock, msg |-> m, tracker |-> t, idp |-> i,
                      roots |-> roots[i], route |-> e, mode |-> mode]
    OBVIOUS
  <2>2. x.pc = "received" /\ call[c].pc = "idle" /\ call' = [call EXCEPT ![c] = x]
        /\ store' = store /\ swept' = swept
    BY <1>3, <2>1 DEF Receive
  <2>3. c \notin Accepted /\ call'[c].pc # "accepted" /\ \A d \in Call \ {c} : call'[d] = call[d]
    BY <1>1, <2>2 DEF Accepted
  <2>4. QED
    BY <2>2, <2>3 DEF Accepted
<1>4. QED
  BY <1>2, <1>3 DEF Tick, start_login, PeerSends, MetadataRefresh, vars

Ends(c) == ConsumeRefused(c) \/ ConsumeUnchecked(c) \/ ConsumeChecked(c)

LEMMA NextCases ==
  ASSUME [Next]_vars
  PROVE  \/ \E c \in Call : Ends(c)
         \/ Tick
         \/ \E l \in Login, i \in Idp, e \in Acs, f \in RequestedFormat : start_login(l, i, e, f)
         \/ \E m : PeerSends(m)
         \/ \E i \in Idp : \E certs \in SUBSET CertsOf[i] : MetadataRefresh(i, certs)
         \/ \E c \in Call, m \in wire, i \in Idp, e \in Route, mode \in Mode :
              \E t \in {{}} \cup {tracker[l] : l \in Login} : Receive(c, m, t, i, e, mode)
         \/ UNCHANGED vars
<1>1. (\E aid \in Aid, i \in Idp, irt \in Option(Login), e \in Route,
          otu \in OneTimeUse, k \in AllCerts, n \in NameId :
         PeerSends([aid |-> aid, issuer |-> i, in_response_to |-> irt, url |-> e.url,
                    not_on_or_after |-> clock + Lifetime,
                    confirmed_until |-> clock + Lifetime, session_end |-> {},
                    class_ref |-> {"Password"}, one_time_use |-> otu, cert |-> k,
                    name_id |-> n])) =>
      \E m : PeerSends(m)
  OBVIOUS
<1>2. QED
  BY <1>1, Zenon DEF Next, Ends

LEMMA StepKinds ==
  ASSUME TypeOK, [Next]_vars
  PROVE  \/ /\ store' = store /\ swept' = swept
            /\ Accepted' = Accepted
            /\ \A c \in Accepted : call'[c] = call[c]
         \/ \E c \in Call : Ends(c)
<1>1. \/ \E c \in Call : Ends(c)
      \/ Tick
      \/ \E l \in Login, i \in Idp, e \in Acs, f \in RequestedFormat : start_login(l, i, e, f)
      \/ \E m : PeerSends(m)
      \/ \E i, certs : MetadataRefresh(i, certs)
      \/ \E c \in Call : \E m, t, i, e, mode : Receive(c, m, t, i, e, mode)
      \/ UNCHANGED vars
  BY NextCases, Zenon
<1>2. QED
  BY <1>1, Others

(* A step accepts at most one call, a valid one, fresh if it is guarded,   *)
(* and never touches a call accepted before.                               *)
LEMMA StepCalls ==
  ASSUME TypeOK, [Next]_vars
  PROVE  /\ \A d \in Accepted : d \in Accepted' /\ call'[d] = call[d]
         /\ \A c \in Accepted' \ Accepted :
              /\ c \in Call /\ call[c].pc = "received" /\ Verdict(call[c]) = "Ok"
              /\ call'[c].msg = call[c].msg /\ call'[c].now = call[c].now
              /\ call'[c].mode = call[c].mode /\ call'[c].tracker = call[c].tracker
              /\ call'[c].route = call[c].route /\ call'[c].roots = call[c].roots
              /\ call'[c].idp = call[c].idp
              /\ Guarded(c) => ConsumeChecked(c) /\ Fresh(c)
         /\ \A c, d \in Accepted' \ Accepted : c = d
<1>1. CASE Accepted' = Accepted /\ \A c \in Accepted : call'[c] = call[c]
  BY <1>1
<1>2. ASSUME NEW c \in Call, Ends(c)
      PROVE  /\ \A d \in Accepted : d \in Accepted' /\ call'[d] = call[d]
             /\ \A d \in Accepted' \ Accepted :
                  /\ d = c /\ call[c].pc = "received" /\ Verdict(call[c]) = "Ok"
                  /\ call'[c].msg = call[c].msg /\ call'[c].now = call[c].now
                  /\ call'[c].mode = call[c].mode /\ call'[c].tracker = call[c].tracker
                  /\ call'[c].route = call[c].route /\ call'[c].roots = call[c].roots
                  /\ call'[c].idp = call[c].idp
                  /\ Guarded(c) => ConsumeChecked(c) /\ Fresh(c)
  <2>1. PICK result \in {"accepted"} \cup ConsumeError :
          /\ call[c].pc = "received"
          /\ Finish(c, result)
          /\ result = "accepted" =>
               Verdict(call[c]) = "Ok" /\ (Guarded(c) => ConsumeChecked(c) /\ Fresh(c))
    BY <1>2, Endings DEF Ends
  <2>2. /\ call'[c].pc = result /\ call'[c].msg = call[c].msg /\ call'[c].now = call[c].now
        /\ call'[c].mode = call[c].mode /\ call'[c].tracker = call[c].tracker
        /\ call'[c].route = call[c].route /\ call'[c].roots = call[c].roots
        /\ call'[c].idp = call[c].idp
        /\ \A d \in Call : d # c => call'[d] = call[d]
    BY <2>1, FinishFacts
  <2>3. c \notin Accepted /\ \A d \in Accepted : d \in Call /\ d # c
    BY <2>1 DEF Accepted
  <2>4. \A d \in Accepted : d \in Accepted' /\ call'[d] = call[d]
    BY <2>2, <2>3 DEF Accepted
  <2>5. \A d \in Accepted' \ Accepted : d = c /\ result = "accepted"
    BY <2>2 DEF Accepted
  <2>6. QED
    BY <2>1, <2>2, <2>4, <2>5
<1>3. QED
  BY <1>1, <1>2, StepKinds

(* The cache changes only by a guarded call's check_and_insert.            *)
LEMMA StepCache ==
  ASSUME TypeOK, [Next]_vars
  PROVE  \/ store' = store /\ swept' = swept
         \/ \E c \in Call :
              /\ ConsumeChecked(c) /\ c \notin Accepted
              /\ call[c] \in ActiveCall /\ call'[c].msg = call[c].msg
              /\ store' = StoreAfter(store, <<Entry(c)>>, call[c].now, Capacity)
              /\ swept' = Latest(swept, call[c].now)
              /\ Fresh(c) => c \in Accepted' /\ Guarded(c)'
<1>1. ASSUME NEW c \in Call, Ends(c), ~ConsumeChecked(c)
      PROVE  store' = store /\ swept' = swept
  BY <1>1 DEF Ends, ConsumeRefused, ConsumeUnchecked
<1>2. ASSUME NEW c \in Call, ConsumeChecked(c)
      PROVE  /\ ConsumeChecked(c) /\ c \notin Accepted
             /\ call[c] \in ActiveCall /\ call'[c].msg = call[c].msg
             /\ store' = StoreAfter(store, <<Entry(c)>>, call[c].now, Capacity)
             /\ swept' = Latest(swept, call[c].now)
             /\ Fresh(c) => c \in Accepted' /\ Guarded(c)'
  <2>1. /\ call[c].pc = "received" /\ Guarded(c)
        /\ store' = StoreAfter(store, <<Entry(c)>>, call[c].now, Capacity)
        /\ swept' = Latest(swept, call[c].now)
    BY <1>2 DEF ConsumeChecked, Entry, Guarded
  <2>2. PICK result \in {"accepted"} \cup ConsumeError :
          Finish(c, result) /\ (result = "accepted" <=> Fresh(c))
    BY <1>2, Endings
  <2>3. /\ call'[c].pc = result /\ call'[c].msg = call[c].msg /\ call'[c].mode = call[c].mode
    BY <2>1, <2>2, FinishFacts
  <2>4. Fresh(c) => c \in Accepted' /\ Guarded(c)'
    BY <2>1, <2>2, <2>3 DEF Accepted, Guarded
  <2>5. c \notin Accepted /\ call[c] \in ActiveCall
    BY <2>1, CallIsActive DEF Accepted
  <2>6. QED
    BY <1>2, <2>1, <2>3, <2>4, <2>5
<1>3. QED
  BY <1>1, <1>2, StepKinds

-----------------------------------------------------------------------------
(* Each part of the invariant survives a step.                             *)

LEMMA StepTime ==
  ASSUME TypeOK, InTime, [Next]_vars
  PROVE  InTime'
<1> USE SpAssumption
<1>1. /\ clock \in Nat /\ swept \in Nat
      /\ \A c \in Call : call[c].pc # "idle" => call[c].now \in Nat
  BY CallIsActive DEF TypeOK, ActiveCall
<1>2. CASE Tick
  BY <1>1, <1>2 DEF Tick, InTime
<1>3. CASE UNCHANGED <<clock, swept, call>>
  BY <1>3 DEF InTime
<1>4. ASSUME NEW c \in Call, NEW m, NEW t, NEW i, NEW e, NEW mode, Receive(c, m, t, i, e, mode)
      PROVE  InTime'
  <2>1. PICK x : x = [pc |-> "received", now |-> clock, msg |-> m, tracker |-> t, idp |-> i,
                      roots |-> roots[i], route |-> e, mode |-> mode]
    OBVIOUS
  <2>2. x.now = clock /\ call' = [call EXCEPT ![c] = x] /\ UNCHANGED <<clock, swept>>
    BY <1>4, <2>1 DEF Receive
  <2>3. \A d \in Call : call'[d] = IF d = c THEN x ELSE call[d]
    BY <2>2 DEF TypeOK
  <2>4. QED
    BY <1>1, <2>2, <2>3 DEF InTime
<1>5. ASSUME NEW c \in Call, Ends(c)
      PROVE  InTime'
  <2>1. PICK result \in {"accepted"} \cup ConsumeError : Finish(c, result)
    BY <1>5, Endings DEF Ends
  <2>2. call[c].pc = "received"
    BY <1>5, Endings DEF Ends
  <2>3. /\ call'[c].pc = result /\ call'[c].now = call[c].now
        /\ \A d \in Call : d # c => call'[d] = call[d]
    BY ZenonT(30), <2>1, <2>2, FinishFacts
  <2>4. result # "received" /\ result # "idle"
    BY DEF ConsumeError
  <2>5. clock' = clock /\ swept' \in {swept, call[c].now}
    BY <1>5 DEF Ends, ConsumeRefused, ConsumeUnchecked, ConsumeChecked, Latest
  <2>6. QED
    BY <2>2, <2>3, <2>4, <2>5 DEF InTime
<1>6. \/ Tick \/ UNCHANGED <<clock, swept, call>>
      \/ \E c \in Call : \E m, t, i, e, mode : Receive(c, m, t, i, e, mode)
      \/ \E c \in Call : Ends(c)
  BY NextCases DEF start_login, PeerSends, MetadataRefresh, vars
<1>7. QED
  BY <1>2, <1>3, <1>4, <1>5, <1>6

LEMMA StepValidated ==
  ASSUME TypeOK, Validated, [Next]_vars
  PROVE  Validated'
<1> SUFFICES ASSUME NEW c \in Accepted' PROVE Verdict(call'[c]) = "Ok"
  BY DEF Validated
<1>1. CASE c \in Accepted
  BY <1>1, StepCalls DEF Validated
<1>2. CASE c \notin Accepted
  BY <1>2, StepCalls, VerdictStable
<1>3. QED
  BY <1>1, <1>2

LEMMA StepHeld ==
  ASSUME TypeOK, Held, [Next]_vars
  PROVE  Held'
<1> SUFFICES ASSUME NEW c \in Accepted', Guarded(c)', Entry(c)'.expires_at > swept'
             PROVE  Entry(c)'.key \in DOMAIN store' /\ store'[Entry(c)'.key] = Entry(c)'.expires_at
  BY DEF Held
<1>1. ASSUME c \in Accepted
      PROVE  /\ Entry(c)' = Entry(c) /\ Guarded(c) /\ call[c] \in ActiveCall
             /\ Entry(c).expires_at \in Int
    <2>1. call'[c] = call[c] /\ c \in Call /\ call[c] \in ActiveCall
      BY <1>1, StepCalls, CallIsActive DEF Accepted
    <2>2. Entry(c)' = Entry(c) /\ Guarded(c)
      BY <2>1 DEF Entry, Guarded
    <2>3. Entry(c).expires_at \in Int
      BY <2>1, EntryFacts, SpAssumption DEF Entry
    <2>4. QED
      BY <2>1, <2>2, <2>3
<1>2. CASE c \in Accepted /\ store' = store /\ swept' = swept
  BY <1>1, <1>2 DEF Held
<1>3. ASSUME c \in Accepted, NEW d \in Call, call[d] \in ActiveCall,
             store' = StoreAfter(store, <<Entry(d)>>, call[d].now, Capacity),
             swept' = Latest(swept, call[d].now)
      PROVE  Entry(c)'.key \in DOMAIN store' /\ store'[Entry(c)'.key] = Entry(c)'.expires_at
  <2>1. call[d].now \in Nat /\ swept \in Nat
    BY <1>3 DEF ActiveCall, TypeOK
  <2>2. Entry(c).expires_at > swept /\ Entry(c).expires_at > call[d].now
    BY <1>1, <1>3, <2>1 DEF Latest
  <2>3. Entry(c).key \in DOMAIN store /\ store[Entry(c).key] = Entry(c).expires_at
    BY <1>1, <1>3, <2>2 DEF Held
  <2>4. \A k \in DOMAIN store :
          store[k] > call[d].now => k \in DOMAIN store' /\ store'[k] = store[k]
    <3>1. PICK e : e = Entry(d)
      OBVIOUS
    <3>2. store' = StoreAfter(store, <<e>>, call[d].now, Capacity)
      BY <1>3, <3>1
    <3>3. QED
      BY <3>2, StoreFacts
  <2>5. QED
    BY <1>1, <1>3, <2>2, <2>3, <2>4
<1>4. CASE c \notin Accepted
  <2>1. /\ c \in Call /\ call'[c].msg = call[c].msg /\ call'[c].mode = call[c].mode
        /\ Guarded(c) => ConsumeChecked(c) /\ Fresh(c)
    BY <1>4, StepCalls
  <2>2. Guarded(c) /\ Entry(c)' = Entry(c)
    BY <2>1 DEF Guarded, Entry, AssertionEntry
  <2>3. store' = StoreAfter(store, <<Entry(c)>>, call[c].now, Capacity)
    BY <2>1, <2>2 DEF ConsumeChecked, Entry
  <2>4. PICK e : e = Entry(c)
    OBVIOUS
  <2>5. /\ store' = StoreAfter(store, <<e>>, call[c].now, Capacity)
        /\ Outcome(store, <<e>>, call[c].now, Capacity) = "fresh"
    BY <2>1, <2>2, <2>3, <2>4 DEF Fresh
  <2>6. e.key \in DOMAIN store' /\ store'[e.key] = e.expires_at
    BY <2>5, StoreFresh
  <2>7. QED
    BY <2>2, <2>4, <2>6
<1>5. QED
  BY <1>2, <1>3, <1>4, StepCache

LEMMA StepTombstones ==
  ASSUME TypeOK, TombstonesAreAccepted, [Next]_vars
  PROVE  TombstonesAreAccepted'
<1> SUFFICES ASSUME NEW k \in DOMAIN store'
             PROVE  \E c \in Accepted' : /\ Guarded(c)'
                                         /\ k = Entry(c)'.key
                                         /\ store'[k] = Entry(c)'.expires_at
  BY DEF TombstonesAreAccepted, Entry
<1>1. ASSUME k \in DOMAIN store, store'[k] = store[k]
      PROVE  \E c \in Accepted' : /\ Guarded(c)'
                                  /\ k = Entry(c)'.key
                                  /\ store'[k] = Entry(c)'.expires_at
  <2>1. PICK c \in Accepted : Guarded(c) /\ k = Entry(c).key /\ store[k] = Entry(c).expires_at
    BY <1>1 DEF TombstonesAreAccepted, Entry
  <2>2. c \in Accepted' /\ call'[c] = call[c]
    BY StepCalls
  <2>3. Guarded(c)' /\ Entry(c)' = Entry(c)
    BY <2>1, <2>2 DEF Guarded, Entry
  <2>4. QED
    BY <1>1, <2>1, <2>2, <2>3
<1>2. CASE store' = store
  BY <1>1, <1>2
<1>3. ASSUME NEW c \in Call, call'[c].msg = call[c].msg,
             store' = StoreAfter(store, <<Entry(c)>>, call[c].now, Capacity),
             Fresh(c) => c \in Accepted' /\ Guarded(c)'
      PROVE  \/ k \in DOMAIN store /\ store'[k] = store[k]
             \/ \E d \in Accepted' : /\ Guarded(d)'
                                     /\ k = Entry(d)'.key
                                     /\ store'[k] = Entry(d)'.expires_at
  <2>1. Entry(c)' = Entry(c)
    BY <1>3 DEF Entry, AssertionEntry
  <2>2. CASE Fresh(c)
    <3>1. \/ k = Entry(c).key /\ store'[k] = Entry(c).expires_at
          \/ k \in DOMAIN store /\ store'[k] = store[k]
      BY <1>3, StoreFacts
    <3>2. QED
      BY <1>3, <2>1, <2>2, <3>1
  <2>3. CASE ~Fresh(c)
    <3>1. \A j \in DOMAIN store' : j \in DOMAIN store /\ store'[j] = store[j]
      BY <1>3, <2>3, StoreFacts DEF Fresh
    <3>2. QED
      BY <3>1
  <2>4. QED
    BY <2>2, <2>3
<1>4. QED
  BY <1>1, <1>2, <1>3, StepCache

(* A second guarded acceptance finds the first one's tombstone swept, and  *)
(* the response not expired on its own, older, clock.                      *)
LEMMA StepLate ==
  ASSUME TypeOK, InTime, Held, LateOnly, [Next]_vars
  PROVE  LateOnly'
<1> USE SpAssumption
<1> SUFFICES ASSUME NEW c \in Accepted', NEW d \in Accepted', c # d,
                    call'[c].msg = call'[d].msg, Guarded(c)', Guarded(d)'
             PROVE  \E x \in {c, d} : /\ call'[x].now < Entry(x)'.expires_at
                                      /\ Entry(x)'.expires_at <= call'[x].now + MaxLag
  BY DEF LateOnly
<1>1. CASE c \in Accepted /\ d \in Accepted
  <2>1. call'[c] = call[c] /\ call'[d] = call[d]
    BY <1>1, StepCalls
  <2>2. Guarded(c) /\ Guarded(d) /\ Entry(c)' = Entry(c) /\ Entry(d)' = Entry(d)
    BY <2>1 DEF Guarded, Entry
  <2>3. \E x \in {c, d} : /\ call[x].now < Entry(x).expires_at
                          /\ Entry(x).expires_at <= call[x].now + MaxLag
    BY <1>1, <2>1, <2>2 DEF LateOnly
  <2>4. QED
    BY <2>1, <2>2, <2>3
<1>2. ASSUME NEW n \in Accepted' \ Accepted, NEW o \in Accepted,
             call'[n].msg = call'[o].msg, Guarded(n)', Guarded(o)'
      PROVE  /\ call'[n].now < Entry(n)'.expires_at
             /\ Entry(n)'.expires_at <= call'[n].now + MaxLag
  <2>1. /\ n \in Call /\ call[n].pc = "received" /\ Verdict(call[n]) = "Ok"
        /\ call'[n].msg = call[n].msg /\ call'[n].now = call[n].now
        /\ call'[n].mode = call[n].mode
        /\ Guarded(n) => ConsumeChecked(n) /\ Fresh(n)
    BY StepCalls
  <2>2. call'[o] = call[o] /\ Guarded(o) /\ Guarded(n) /\ call[o].msg = call[n].msg
    BY <1>2, <2>1, StepCalls DEF Guarded
  <2>3. Entry(n)' = Entry(n) /\ Entry(o) = Entry(n)
    BY <2>1, <2>2 DEF Entry, AssertionEntry
  <2>4. /\ call[n] \in ActiveCall /\ call[n].now \in Nat
        /\ Entry(n).expires_at = call[n].msg.not_on_or_after + Skew
        /\ call[n].msg.not_on_or_after \in Nat
    <3>1. call[n] \in ActiveCall
      BY <2>1, CallIsActive
    <3>2. call[n].now \in Nat
      BY <3>1 DEF ActiveCall
    <3>3. QED
      BY <3>1, <3>2, EntryFacts DEF Entry
  <2>5. call[n].now < Entry(n).expires_at
    BY <2>1, <2>4, ResponseFacts
  <2>6. ~(Entry(n).key \in DOMAIN store /\ store[Entry(n).key] > call[n].now)
    <3>1. PICK e : e = Entry(n)
      OBVIOUS
    <3>2. Outcome(store, <<e>>, call[n].now, Capacity) = "fresh"
      BY <2>1, <2>2, <3>1 DEF Fresh
    <3>3. QED
      BY <3>1, <3>2, StoreFresh
  <2>7. ~(Entry(n).expires_at > swept)
    BY <2>2, <2>3, <2>4, <2>5, <2>6 DEF Held
  <2>8. swept <= clock /\ clock <= call[n].now + MaxLag /\ swept \in Nat /\ clock \in Nat
    BY <2>1 DEF InTime, TypeOK
  <2>9. QED
    BY <2>1, <2>3, <2>4, <2>5, <2>7, <2>8
<1>3. c \in Accepted \/ d \in Accepted
  BY StepCalls
<1>4. QED
  BY <1>1, <1>2, <1>3

LEMMA StepKeys ==
  ASSUME TypeOK, OwnKeys, [Next]_vars
  PROVE  OwnKeys'
<1>1. CASE UNCHANGED <<roots, tracker, call>>
  BY <1>1 DEF OwnKeys
<1>2. ASSUME NEW l \in Login, NEW i \in Idp, NEW e, NEW f, start_login(l, i, e, f)
      PROVE  OwnKeys'
  <2>1. PICK t : t = [request_id |-> l, issued_at |-> clock, idp |-> i, acs |-> e,
                      certs |-> roots[i], format |-> f, requested |-> {}]
    OBVIOUS
  <2>2. t.idp = i /\ t.certs = roots[i]
    BY <2>1
  <2>3. tracker' = [tracker EXCEPT ![l] = {t}] /\ UNCHANGED <<roots, call>>
    BY <1>2, <2>1 DEF start_login
  <2>4. \A k \in Login : tracker'[k] = IF k = l THEN {t} ELSE tracker[k]
    BY <2>3 DEF TypeOK
  <2>5. QED
    BY <2>2, <2>3, <2>4 DEF OwnKeys
<1>3. ASSUME NEW i \in Idp, NEW certs \in SUBSET CertsOf[i], MetadataRefresh(i, certs)
      PROVE  OwnKeys'
  BY <1>3 DEF MetadataRefresh, OwnKeys, TypeOK
<1>4. ASSUME NEW c \in Call, NEW m, NEW i, NEW e, NEW mode,
             NEW t \in {{}} \cup {tracker[l] : l \in Login}, Receive(c, m, t, i, e, mode)
      PROVE  OwnKeys'
  <2>1. PICK x : x = [pc |-> "received", now |-> clock, msg |-> m, tracker |-> t, idp |-> i,
                      roots |-> roots[i], route |-> e, mode |-> mode]
    OBVIOUS
  <2>2. x.tracker = t /\ call' = [call EXCEPT ![c] = x] /\ UNCHANGED <<roots, tracker>>
    BY <1>4, <2>1 DEF Receive
  <2>3. \A d \in Call : call'[d] = IF d = c THEN x ELSE call[d]
    BY <2>2 DEF TypeOK
  <2>4. \A u \in t : u.certs \subseteq CertsOf[u.idp]
    BY DEF OwnKeys
  <2>5. QED
    BY <2>2, <2>3, <2>4 DEF OwnKeys
<1>5. ASSUME NEW c \in Call, Ends(c)
      PROVE  OwnKeys'
  <2>1. PICK result \in {"accepted"} \cup ConsumeError : Finish(c, result)
    BY <1>5, Endings DEF Ends
  <2>2. call[c].pc = "received"
    BY <1>5, Endings DEF Ends
  <2>3. /\ call'[c].tracker = call[c].tracker
        /\ \A d \in Call : d # c => call'[d] = call[d]
    BY <2>1, <2>2, FinishFacts
  <2>4. UNCHANGED <<roots, tracker>>
    BY <1>5 DEF Ends, ConsumeRefused, ConsumeUnchecked, ConsumeChecked
  <2>5. QED
    BY <2>2, <2>3, <2>4 DEF OwnKeys
<1>6. \/ UNCHANGED <<roots, tracker, call>>
      \/ \E l \in Login, i \in Idp, e \in Acs, f \in RequestedFormat : start_login(l, i, e, f)
      \/ \E i \in Idp : \E certs \in SUBSET CertsOf[i] : MetadataRefresh(i, certs)
      \/ \E c \in Call, m \in wire, i \in Idp, e \in Route, mode \in Mode :
           \E t \in {{}} \cup {tracker[l] : l \in Login} : Receive(c, m, t, i, e, mode)
      \/ \E c \in Call : Ends(c)
  <2>1. CASE Tick \/ (\E m : PeerSends(m)) \/ UNCHANGED vars
    BY <2>1 DEF Tick, PeerSends, vars
  <2>2. QED
    BY <2>1, NextCases, Zenon
<1>7. QED
  BY <1>1, <1>2, <1>3, <1>4, <1>5, <1>6

LEMMA StepInv == SpInv /\ [Next]_vars => SpInv'
BY StepType, StepTime, StepValidated, StepHeld, StepTombstones, StepLate, StepKeys DEF SpInv

THEOREM SpInvariant == Spec => []SpInv
BY InitInv, StepInv, PTL DEF Spec

-----------------------------------------------------------------------------
(* What it means.                                                          *)

(* Only what a guarded call accepted stands in the cache: a rejected       *)
(* Response leaves no trace (consume_response_with_replay).                *)
THEOREM SpTombstones == Spec => []TombstonesAreAccepted
<1>1. SpInv => TombstonesAreAccepted
  BY DEF SpInv
<1>2. QED
  BY <1>1, SpInvariant, PTL

(* However long handlers wait between reading the clock and asking the     *)
(* cache, a response is accepted twice under guard only by a call whose    *)
(* own clock reading was less than MaxLag short of the expiry (the `now`   *)
(* argument of consume_response and check_and_insert).                     *)
THEOREM SpLateOnly == Spec => []LateOnly
<1>1. SpInv => LateOnly
  BY DEF SpInv
<1>2. QED
  BY <1>1, SpInvariant, PTL

(* The guarded calls that accept are separated by the response when calls  *)
(* do not lag: nothing is left of the window of LateOnly.                  *)
LEMMA NoLagNoReuse ==
  ASSUME MaxLag = 0, SpInv
  PROVE  SingleUse
<1> SUFFICES ASSUME NEW c \in Accepted, NEW d \in Accepted, c # d, call[c].msg = call[d].msg,
                    Guarded(c), Guarded(d)
             PROVE  FALSE
  BY DEF SingleUse
<1>1. PICK x \in {c, d} : /\ call[x].now < Entry(x).expires_at
                          /\ Entry(x).expires_at <= call[x].now + MaxLag
  BY DEF SpInv, LateOnly
<1>2. x \in Call /\ call[x] \in ActiveCall
  BY CallIsActive DEF SpInv, Accepted
<1>3. call[x].now \in Nat /\ Entry(x).expires_at \in Int
  BY <1>2, EntryFacts, SpAssumption DEF ActiveCall, Entry
<1>4. QED
  BY <1>1, <1>3

(* With handlers that use the clock they read, one response is accepted by *)
(* at most one of the calls that ask the cache, whatever the order, the    *)
(* capacity and the sweeps in between.                                     *)
THEOREM SpSingleUse ==
  ASSUME MaxLag = 0
  PROVE  Spec => []SingleUse
<1>1. SpInv => SingleUse
  BY NoLagNoReuse
<1>2. QED
  BY <1>1, SpInvariant, PTL

(* A OneTimeUse assertion is accepted by guarded calls only.               *)
LEMMA OneTimeUseIsGuarded ==
  ASSUME SpInv, NEW c \in Accepted, call[c].msg.one_time_use
  PROVE  Guarded(c)
<1>1. call[c] \in ActiveCall /\ Verdict(call[c]) = "Ok"
  BY CallIsActive DEF SpInv, Accepted, Validated
<1>2. call[c].mode \in {"All", "OneTimeUseOnly", "Off", "NoCache"}
  BY <1>1, SpAssumption DEF ActiveCall
<1>3. call[c].mode \notin {"NoCache", "Off"}
  BY <1>1, RouteFacts
<1>4. QED
  BY <1>2, <1>3 DEF Guarded, replay_check_needed

(* A OneTimeUse assertion is consumed once, in any mix of replay settings, *)
(* no cache at all included (OneTimeUseUnenforceable fails closed).        *)
THEOREM SpOneTimeUseOnce ==
  ASSUME MaxLag = 0
  PROVE  Spec => []OneTimeUseOnce
<1>1. SpInv => OneTimeUseOnce
  BY NoLagNoReuse, OneTimeUseIsGuarded DEF SingleUse, OneTimeUseOnce
<1>2. QED
  BY <1>1, SpInvariant, PTL

(* A login is completed only by the IdP it was started with, answering     *)
(* that request at the nominated endpoint, under a key listed both then    *)
(* and now, and a key of that IdP (start_login, validate_tracker_context,  *)
(* the verification candidates of consume_response).                       *)
THEOREM SpLoginBound == Spec => []LoginBound
<1>1. SpInv => LoginBound
  <2> SUFFICES ASSUME SpInv, NEW c \in Accepted
               PROVE  /\ call[c].msg.in_response_to = {t.request_id : t \in call[c].tracker}
                      /\ \A t \in call[c].tracker :
                           /\ call[c].msg.issuer = t.idp
                           /\ call[c].route = t.acs
                           /\ call[c].msg.cert \in t.certs \cap call[c].roots
                           /\ call[c].msg.cert \in CertsOf[t.idp]
                           /\ \A f \in t.format : call[c].msg.name_id.format = f
    BY DEF LoginBound
  <2>1. c \in Call /\ call[c].pc # "idle" /\ call[c] \in ActiveCall /\ Verdict(call[c]) = "Ok"
    BY CallIsActive DEF SpInv, Accepted, Validated
  <2>2. call[c].msg.in_response_to = {t.request_id : t \in call[c].tracker}
    BY <2>1, ResponseFacts DEF TrackedRequest
  <2>3. ASSUME NEW t \in call[c].tracker
        PROVE  /\ call[c].msg.issuer = t.idp
               /\ call[c].route = t.acs
               /\ call[c].msg.cert \in t.certs \cap call[c].roots
               /\ call[c].msg.cert \in CertsOf[t.idp]
               /\ \A f \in t.format : call[c].msg.name_id.format = f
    <3>1. call[c].msg.issuer = t.idp
      BY <2>1, RouteFacts, ResponseFacts
    <3>2. call[c].route = t.acs
      <4>1. t.acs.url = call[c].route.url /\ t.acs.binding = call[c].route.binding
        BY <2>1, RouteFacts
      <4>2. t.acs \in Acs /\ call[c].route \in Route
        BY <2>1 DEF ActiveCall, LoginTracker
      <4>3. QED
        BY <4>1, <4>2, SpEndpoints
    <3>3. call[c].msg.cert \in t.certs \cap call[c].roots
      BY <2>1, ResponseFacts DEF ValidationCerts
    <3>4. t.certs \subseteq CertsOf[t.idp]
      BY <2>1 DEF SpInv, OwnKeys
    <3>5. \A f \in t.format : call[c].msg.name_id.format = f
      BY <2>1, RouteFacts
    <3>6. QED
      BY <3>1, <3>2, <3>3, <3>4, <3>5
  <2>4. QED
    BY <2>2, <2>3
<1>2. QED
  BY <1>1, SpInvariant, PTL
=============================================================================
