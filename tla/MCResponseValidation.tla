------------------------ MODULE MCResponseValidation ------------------------
(* validate_response on every input of four families: where signatures are *)
(* and which are asked for; up to two subject confirmations of either      *)
(* method; validity windows around the instant of the call; requested      *)
(* authentication contexts of up to two class references.                  *)
EXTENDS ResponseValidation, FiniteSets

CONSTANTS FamilySkew,   \* the call's clock skew
          Horizon,      \* instants run from 0 to Horizon
          CustomRefs    \* class references outside the ladder

ASSUME FamilyAssumption == FamilySkew \in Nat /\ Horizon \in Nat

Instants == 0..Horizon
Opt(S) == {{}} \cup {{x} : x \in S}

GoodConfirmation ==
  [method |-> "bearer", recipient |-> {"acs"}, not_on_or_after |-> {3},
   not_before |-> {}, in_response_to |-> {"req"}, keys |-> {}]

GoodAssertion ==
  [id |-> "a1", issuer |-> "idp", enc |-> {}, encrypted_id |-> {}, sig |-> {},
   not_before |-> {1}, not_on_or_after |-> {3}, audiences |-> {{"sp", "other"}},
   confirmations |-> <<GoodConfirmation>>, has_statement |-> TRUE,
   class_ref |-> {"Password"}, session_end |-> {}, one_time_use |-> FALSE]

Signature(cert, covers) == [cert |-> cert, covers |-> covers, intact |-> TRUE]

GoodResponse ==
  [destination |-> {"acs"}, issuer |-> {"idp"}, in_response_to |-> {"req"},
   success |-> TRUE, sig |-> {Signature("k1", "Response")},
   stray_signature |-> FALSE, assertions |-> <<GoodAssertion>>]

GoodContext ==
  [idp |-> "idp", certs |-> {"k1"}, sp |-> "sp", destination |-> "acs",
   tracker |-> {"req"}, allow_unsolicited |-> FALSE, want_response |-> FALSE,
   want_assertions |-> FALSE, now |-> 2, skew |-> FamilySkew, requested |-> {},
   presenter |-> {}, decryption_keys |-> {"d1"}]

(* Signatures by a trusted or an unknown key, covering the right element   *)
(* or another one, tampered or not; on the Response, the assertion, both   *)
(* or neither; cleartext or encrypted to a key the SP has or lacks.        *)
Signatures(element) ==
  Opt([cert : {"k1", "k2"}, covers : {element, "Other"}, intact : BOOLEAN])

CarriedAssertion(sig, enc) == [GoodAssertion EXCEPT !.sig = sig, !.enc = enc]

SignedResponse(sig, stray, a) ==
  [GoodResponse EXCEPT !.sig = sig, !.stray_signature = stray, !.assertions = <<a>>]

Demanding(response, assertions) ==
  [GoodContext EXCEPT !.want_response = response, !.want_assertions = assertions]

SignatureFamily ==
  {<<SignedResponse(rs, stray, CarriedAssertion(as, enc)), Demanding(wr, wa)>> :
   rs \in Signatures("Response"), as \in Signatures("Assertion"),
   enc \in Opt({"d1", "d2"}), stray \in BOOLEAN, wr \in BOOLEAN, wa \in BOOLEAN}

Confirmations ==
  [method : {"bearer", "hok", "sender-vouches"}, recipient : Opt({"acs", "elsewhere"}),
   not_on_or_after : Opt({1, 3}), not_before : {{}},
   in_response_to : Opt({"req"}), keys : {{}, {"p1"}}]

ConfirmationLists ==
  {<<>>} \cup {<<c>> : c \in Confirmations}
  \cup {<<c, d>> : c \in Confirmations,
                   d \in {x \in Confirmations : x.method # "sender-vouches"
                                             /\ x.recipient = {"acs"}
                                             /\ x.not_on_or_after # {}}}

ConfirmedAssertion(confirmations) == [GoodAssertion EXCEPT !.confirmations = confirmations]

AnswerTo(tracker, a) == [GoodResponse EXCEPT !.in_response_to = tracker, !.assertions = <<a>>]

PresentedBy(tracker, presenter) ==
  [GoodContext EXCEPT !.tracker = tracker, !.allow_unsolicited = TRUE, !.presenter = presenter]

ConfirmationFamily ==
  {<<AnswerTo(tracker, ConfirmedAssertion(scs)), PresentedBy(tracker, presenter)>> :
   scs \in ConfirmationLists, tracker \in Opt({"req"}), presenter \in Opt({"p1", "p2"})}

(* Windows of the Conditions, of a confirmation and of the session, and    *)
(* responses to another request, to none, with no or two assertions.       *)
WindowedAssertion(nb, nooa, session_end, audiences, sc) ==
  [GoodAssertion EXCEPT
     !.not_before = nb, !.not_on_or_after = nooa, !.session_end = session_end,
     !.audiences = audiences,
     !.confirmations = <<[GoodConfirmation EXCEPT !.not_on_or_after = {sc}]>>]

Carrying(in_response_to, n, a) ==
  [GoodResponse EXCEPT !.in_response_to = in_response_to, !.assertions = [i \in 1..n |-> a]]

CalledAt(now, allow) == [GoodContext EXCEPT !.now = now, !.allow_unsolicited = allow]

WindowedAssertions ==
  {WindowedAssertion(nb, nooa, se, aud, sc) :
   nb \in Opt({2}), nooa \in Opt({2, 4}), se \in Opt({3}),
   aud \in {{}, {{"sp"}}, {{"sp"}, {"other"}}}, sc \in {2, 4}}

WindowFamily ==
  {<<Carrying(irt, carried[1], carried[2]), CalledAt(now, allow)>> :
   irt \in Opt({"req", "req2"}),
   carried \in ({1} \X WindowedAssertions) \cup ({0, 2} \X {GoodAssertion}),
   now \in Instants, allow \in BOOLEAN}

ClassRefs == StandardClassRefs \cup CustomRefs

Requests ==
  [comparison : Comparisons,
   class_refs : {s \in SUBSET ClassRefs : Cardinality(s) <= 2}]

(* Every request against every class the assertion may state, or none.     *)
ClassifiedAssertion(class_ref) == [GoodAssertion EXCEPT !.class_ref = class_ref]

Requesting(q) == [GoodContext EXCEPT !.requested = {q}]

AuthnContextFamily ==
  {<<AnswerTo({"req"}, ClassifiedAssertion(c)), Requesting(q)>> :
   c \in Opt(ClassRefs), q \in Requests}

VARIABLES r, cx, verdict
validationVars == <<r, cx, verdict>>

ValidationInit ==
  /\ verdict = "pending"
  /\ \E input \in SignatureFamily \cup ConfirmationFamily \cup WindowFamily
                   \cup AuthnContextFamily :
       r = input[1] /\ cx = input[2]

Validate ==
  /\ verdict = "pending"
  /\ verdict' = validate_response(r, cx)
  /\ UNCHANGED <<r, cx>>

ValidationSpec == ValidationInit /\ [][Validate]_validationVars

-----------------------------------------------------------------------------

Holds(sigs, certs, element) ==
  \E sig \in sigs : sig.intact /\ sig.cert \in certs /\ sig.covers = element

(* What a response is bound to if the identity in it may be used.          *)
BoundTo(resp, ctx) ==
  LET a == resp.assertions[1] IN
  /\ Holds(resp.sig, ctx.certs, "Response") \/ Holds(a.sig, ctx.certs, "Assertion")
  /\ ctx.want_response => Holds(resp.sig, ctx.certs, "Response")
  /\ ctx.want_assertions => Holds(a.sig, ctx.certs, "Assertion")
  /\ a.issuer = ctx.idp /\ a.audiences # {}
  /\ \A group \in a.audiences : ctx.sp \in group
  /\ \E i \in DOMAIN a.confirmations :
       LET sc == a.confirmations[i] IN
       /\ sc.recipient = {ctx.destination} /\ sc.in_response_to = ctx.tracker
       /\ sc.method = "bearer" \/ (sc.method = "hok" /\ ctx.presenter \cap sc.keys # {})
       /\ \E t \in sc.not_on_or_after : ctx.now < t + ctx.skew

(* No identity without a signature that covers it. An accepted response    *)
(* carries an intact signature by a current root over the Response or over *)
(* the very assertion the identity is read from, every signature the SP    *)
(* demands among them, and the signed assertion itself names this IdP,     *)
(* this SP, this ACS and the tracked request - the unsigned Response       *)
(* around it is never what binds the login.                                *)
AuthenticatedAndBound == verdict = "Ok" => BoundTo(r, cx)

Accepts(resp, ctx) == validate_response(resp, ctx) = "Ok"

Reversed(resp) ==
  LET a == resp.assertions[1]
      n == Len(a.confirmations)
  IN  [resp EXCEPT !.assertions =
         <<[a EXCEPT !.confirmations = [i \in 1..n |-> a.confirmations[n + 1 - i]]]>>]

Stable(resp, ctx) ==
  /\ Accepts(resp, ctx) /\ ctx.presenter = {} =>
       \A p \in {"p1", "p2"} : Accepts(resp, [ctx EXCEPT !.presenter = {p}])
  /\ Accepts(resp, ctx) => Accepts(resp, [ctx EXCEPT !.certs = @ \cup {"k2"}])
  /\ Len(resp.assertions) = 1 => (Accepts(resp, ctx) <=> Accepts(Reversed(resp), ctx))

(* What must not count against a response does not. A presenter certificate *)
(* is purely additive (the Holder-of-Key back-compatibility promise of      *)
(* ConsumeResponse::holder_of_key_cert); so is another published signing    *)
(* certificate (key rotation); and one satisfying confirmation is enough    *)
(* wherever it stands in the document.                                      *)
AcceptanceStable == verdict # "pending" => Stable(r, cx)

AtLeast(a, b) == class_ref_strength(a) >= class_ref_strength(b)

(* What the doc comment of StandardComparator says of each comparison,     *)
(* stated reference by reference instead of through the folded minimum and *)
(* maximum the code compares with.                                         *)
Meaning(q, actual) ==
  LET refs == q.class_refs
      rankable == refs # {} /\ refs \cup {actual} \subseteq StandardClassRefs
  IN
  CASE q.comparison = "Exact"   -> actual \in refs
    [] q.comparison = "Minimum" -> rankable /\ \E c \in refs : AtLeast(actual, c)
    [] q.comparison = "Maximum" -> rankable /\ \E c \in refs : AtLeast(c, actual)
    [] q.comparison = "Better"  -> rankable /\ \A c \in refs : ~AtLeast(c, actual)

(* The assertion's statement carries a class of which the meaning holds.   *)
Meant(q, a) ==
  a.has_statement /\ a.class_ref # {} /\ \A c \in a.class_ref : Meaning(q, c)

(* A login that asked for an authentication strength gets it or fails: the *)
(* response is accepted only if its first statement carries a class of     *)
(* which the documented meaning of the comparison holds - never on a       *)
(* missing class, an unrankable one or an empty request - and a response   *)
(* refused for it is one the meaning refuses.                              *)
ContextMeansWhatItSays ==
  \A q \in cx.requested :
    /\ verdict = "Ok" => Meant(q, r.assertions[1])
    /\ verdict = "AuthnContextDowngrade" => ~Meant(q, r.assertions[1])
=============================================================================
