------------------------------- MODULE IdpSso -------------------------------
(***************************************************************************)
(* The Identity Provider's single sign-on decisions (src/src/idp.rs,       *)
(* src/src/authn/request_validate.rs, src/src/response/issue.rs): what     *)
(* consume_authn_request makes of a received AuthnRequest, and what the    *)
(* issue_* operations make of the ParsedAuthnRequest it returns.           *)
(*                                                                         *)
(* An Option is a set with at most one element.                            *)
(* idp: [entity, sso : set of URLs, supported : set of formats,            *)
(*      default_format, want_signed, sign_responses, sign_assertions,      *)
(*      encrypt : BOOLEAN, max_age, skew]                                  *)
(* d:   SpDescriptor [entity, acs : sequence of endpoint, enc, certs :     *)
(*      sets of keys, signed : authn_requests_signed]                      *)
(* endpoint: [url, binding, index : option, is_default : BOOLEAN]          *)
(* xml: AuthnRequest [id, issuer, issue_instant, destination, acs_index,   *)
(*      acs_url, protocol_binding, format, requested : options,            *)
(*      sig : option of enveloped signature]                               *)
(* x:   the call [xml, relay_state : option, binding, detached : option of *)
(*      [cert, intact, xml, relay_state], sp : descriptor, destination,    *)
(*      now]                                                               *)
(***************************************************************************)
EXTENDS Sequences, Signatures, AuthnContext

-----------------------------------------------------------------------------
(* SpDescriptor: ACS lookups. First match wins.                            *)

FirstOf(s, hits) == {s[i] : i \in {i \in hits : \A j \in hits : i <= j}}

acs_endpoint_by_index(d, index) ==
  FirstOf(d.acs, {i \in DOMAIN d.acs : index \in d.acs[i].index})

acs_endpoint_by_url(d, url) ==
  FirstOf(d.acs, {i \in DOMAIN d.acs : d.acs[i].url = url})

(* Mutant: the first endpoint, whichever is flagged as the default.        *)
FirstAcs(d) == FirstOf(d.acs, DOMAIN d.acs)

default_acs(d) ==
  LET flagged == {i \in DOMAIN d.acs : d.acs[i].is_default} IN
  FirstOf(d.acs, IF flagged # {} THEN flagged ELSE DOMAIN d.acs)

-----------------------------------------------------------------------------
(* consume_authn_request.                                                  *)

(* parse_authn_request: the response bindings SSO does not allow.          *)
ParseCheck(xml) ==
  Reject(~(xml.protocol_binding \subseteq {"HttpPost", "HttpArtifact"}),
         "IllegalResponseBinding")

(* ACS resolution: index, then URL, then the descriptor's default.         *)
ResolveAcs(xml, d) ==
  IF xml.acs_index # {} THEN UNION {acs_endpoint_by_index(d, i) : i \in xml.acs_index}
  ELSE IF xml.acs_url # {} THEN UNION {acs_endpoint_by_url(d, u) : u \in xml.acs_url}
  ELSE default_acs(d)

validate_authn_request(idp, x) ==
  LET resolved == ResolveAcs(x.xml, x.sp) IN
     Reject(x.xml.issuer # x.sp.entity, "IssuerMismatch")
  && Reject(x.destination \notin idp.sso, "InvalidConfiguration")
  && Reject(~(x.xml.destination \subseteq {x.destination}), "DestinationMismatch")
  && Reject(resolved = {}, "UnregisteredAcs")
  && Reject(\E b \in x.xml.protocol_binding, e \in resolved : b # e.binding,
            "IllegalResponseBinding")

(* verify_redirect_request_signature over the query string.                *)
verify_redirect_request_signature(required, x) ==
     Reject(required /\ x.detached = {}, "SignatureMissing")
  && Reject(\E s \in x.detached : s.cert \notin x.sp.certs \/ ~s.intact,
            "SignatureVerification")

(* Mutant: the query that was signed is not compared with the arguments.   *)
AnySignedQuery(x) == "Ok"

(* ensure_signed_query_matches: what was signed is what was parsed.        *)
ensure_signed_query_matches(x) ==
  Reject(\E s \in x.detached : s.xml # x.xml \/ s.relay_state # x.relay_state,
         "SignatureVerification")

verify_envelope_signature(required, x) ==
  IF required THEN VerifyRequired(x.xml.sig, x.sp.certs, "AuthnRequest")
              ELSE VerifyPresent(x.xml.sig, x.sp.certs, "AuthnRequest")

RequestSignature(idp, x) ==
  LET required == idp.want_signed \/ x.sp.signed IN
  CASE x.binding = "HttpRedirect" -> verify_redirect_request_signature(required, x)
                                     && ensure_signed_query_matches(x)
    [] x.binding \in {"HttpPost", "Soap"} -> verify_envelope_signature(required, x)
    [] x.binding = "HttpArtifact" -> "UnsupportedByPeer"

Freshness(idp, x) ==
     Reject(x.xml.issue_instant - x.now > idp.skew, "AuthnRequestNotYetValid")
  && Reject(x.now - x.xml.issue_instant > idp.max_age + idp.skew, "StaleAuthnRequest")

RequestVerdict(idp, x) ==
     ParseCheck(x.xml)
  && validate_authn_request(idp, x)
  && RequestSignature(idp, x)
  && Freshness(idp, x)

(* The fields of a ParsedAuthnRequest that issuance reads. The library     *)
(* keeps them twice: `public` is the caller's to rewrite, `validated` is   *)
(* private to the crate (ValidatedBinding).                                *)
Provenance(x) ==
  [sp |-> x.sp.entity, acs |-> CHOOSE e \in ResolveAcs(x.xml, x.sp) : TRUE,
   id |-> x.xml.id, relay_state |-> x.relay_state, requested |-> x.xml.requested,
   format |-> x.xml.format, enc |-> x.sp.enc]

consume_authn_request(x) == [public |-> Provenance(x), validated |-> Provenance(x)]

-----------------------------------------------------------------------------
(* Issuance. i: what the application supplies [sp : descriptor, name_id,   *)
(* class_ref, force : option of BOOLEAN, hok : option of the presenter's   *)
(* key, now, lifetime, confirmation_lifetime, aid].                        *)

(* NotBefore is set this long before `now`.                                *)
Minute == 1

(* Mutant: the issuer field the caller can write is compared.              *)
PublicBelongsToSp(q, d) == Reject(q.public.sp # d.entity, "IssuerMismatch")

ensure_request_belongs_to_sp(q, d) ==
  Reject(q.validated.sp # d.entity, "IssuerMismatch")

(* Mutant: only a forced encryption compares the keys.                     *)
KeysMatchIfForced(idp, q, i) ==
  Reject(i.force = {TRUE} /\ q.validated.enc # i.sp.enc, "SpKeyMaterialMismatch")

(* ensure_sp_key_material_matches, unless plaintext was asked for.         *)
ensure_sp_key_material_matches(idp, q, i) ==
  Reject(/\ i.force = {TRUE} \/ (i.force = {} /\ idp.encrypt)
         /\ q.validated.enc # i.sp.enc, "SpKeyMaterialMismatch")

ensure_authn_context_satisfies_request(q, i) ==
  Reject(\E r \in q.validated.requested : ~is_satisfied(r, i.class_ref),
         "AuthnContextDowngrade")

(* pick_name_id_format, ensure_name_id_format and                          *)
(* ensure_name_id_sp_qualifier.                                            *)
NameIdPolicy(idp, requested, i) ==
     Reject(~(requested \subseteq idp.supported), "UnsupportedNameIdPolicy")
  && Reject(IF requested = {} THEN i.name_id.format # idp.default_format
                              ELSE i.name_id.format \notin requested,
            "NameIdFormatMismatch")
  && Reject(/\ i.name_id.format = "Persistent"
            /\ ~(i.name_id.sp_name_qualifier \subseteq {i.sp.entity}),
            "NameIdSpQualifierMismatch")

(* issuance_instants and the choice of the encryption certificate.         *)
AssertionCheck(i) ==
     Reject(i.now < Minute, "InvalidConfiguration")
  && Reject(i.force = {TRUE} /\ i.sp.enc = {}, "InvalidConfiguration")

IssueVerdict(idp, q, i) ==
     Reject(q.validated.acs.binding = "HttpArtifact", "ArtifactTransactionRequired")
  && ensure_request_belongs_to_sp(q, i.sp)
  && ensure_sp_key_material_matches(idp, q, i)
  && ensure_authn_context_satisfies_request(q, i)
  && NameIdPolicy(idp, q.validated.format, i)
  && AssertionCheck(i)

ShouldEncrypt(idp, i) ==
  IF i.force # {} THEN i.force = {TRUE} ELSE idp.encrypt /\ i.sp.enc # {}

maybe_sign(idp, on, element) ==
  IF on THEN {[cert |-> idp.entity, covers |-> element, intact |-> TRUE]} ELSE {}

(* A Persistent identifier is qualified with the SP it is for.             *)
QualifiedNameId(i) ==
  IF i.name_id.format = "Persistent" /\ i.name_id.sp_name_qualifier = {}
    THEN [i.name_id EXCEPT !.sp_name_qualifier = {i.sp.entity}] ELSE i.name_id

build_assertion(idp, acs, in_response_to, i) ==
  [id |-> i.aid, issuer |-> idp.entity, encrypted_id |-> {},
   enc |-> IF ShouldEncrypt(idp, i) THEN {CHOOSE k \in i.sp.enc : TRUE} ELSE {},
   sig |-> maybe_sign(idp, idp.sign_assertions, "Assertion"),
   not_before |-> {i.now - Minute}, not_on_or_after |-> {i.now + i.lifetime},
   audiences |-> {{i.sp.entity}},
   confirmations |-> <<[method |-> IF i.hok = {} THEN "bearer" ELSE "hok",
                        recipient |-> {acs.url},
                        not_on_or_after |-> {i.now + i.confirmation_lifetime},
                        not_before |-> {}, in_response_to |-> in_response_to,
                        keys |-> i.hok]>>,
   has_statement |-> TRUE, class_ref |-> {i.class_ref}, session_end |-> {},
   one_time_use |-> FALSE]

build_response(idp, acs, in_response_to, success, assertions) ==
  [destination |-> {acs.url}, issuer |-> {idp.entity}, in_response_to |-> in_response_to,
   success |-> success, stray_signature |-> FALSE,
   sig |-> maybe_sign(idp, idp.sign_responses, "Response"), assertions |-> assertions]

(* issue_response over POST: the response, the NameID inside and the form. *)
issue_response(idp, q, i) ==
  LET acs == q.validated.acs
      irt == {q.validated.id}
  IN [response |-> build_response(idp, acs, irt, TRUE,
                                  <<build_assertion(idp, acs, irt, i)>>),
      name_id |-> QualifiedNameId(i), relay_state |-> q.validated.relay_state]

(* issue_unsolicited: no request, the endpoint named by URL.               *)
UnsolicitedVerdict(idp, url, requested, i) ==
  LET found == acs_endpoint_by_url(i.sp, url) IN
     Reject(found = {}, "UnregisteredAcs")
  && Reject(\E e \in found : e.binding = "HttpArtifact", "ArtifactTransactionRequired")
  && NameIdPolicy(idp, requested, i)
  && AssertionCheck(i)

issue_unsolicited(idp, url, relay_state, i) ==
  LET acs == CHOOSE e \in acs_endpoint_by_url(i.sp, url) : TRUE IN
  [response |-> build_response(idp, acs, {}, TRUE, <<build_assertion(idp, acs, {}, i)>>),
   name_id |-> QualifiedNameId(i), relay_state |-> relay_state]

(* issue_error_response: no assertion, so no key material to compare.      *)
ErrorVerdict(q, d) ==
     Reject(q.validated.acs.binding = "HttpArtifact", "ArtifactTransactionRequired")
  && ensure_request_belongs_to_sp(q, d)

issue_error_response(idp, q) ==
  [response |-> build_response(idp, q.validated.acs, {q.validated.id}, FALSE, <<>>),
   name_id |-> [format |-> "Unspecified", sp_name_qualifier |-> {}],
   relay_state |-> q.validated.relay_state]
=============================================================================
