------------------------------- MODULE Messages -------------------------------
(* What each protocol message looks like on the wire: the element builders   *)
(* (src/response/issue.rs, src/authn/request_build.rs, src/logout) and the   *)
(* parsers on the other side (src/response/parse.rs,                         *)
(* src/authn/request_parse.rs, src/logout). A parser returns a set: what it  *)
(* read, or nothing when it refuses. Optional fields are sets too. Responses *)
(* and assertions come first, then authentication and logout requests.       *)
EXTENDS XmlTree

saml(local, attrs, children) == Elem(SAML_NS, local, attrs, children)
samlp(local, attrs, children) == Elem(SAMLP_NS, local, attrs, children)
Issuer(entity) == TextElem(SAML_NS, "Issuer", entity)
WireNamespaces == <<<<"samlp", SAMLP_NS>>, <<"saml", SAML_NS>>>>

(* The attributes every protocol message has.                                *)
Header(id, issue_instant) ==
  <<At("ID", id), At("Version", "2.0"), At("IssueInstant", format_xs_datetime(issue_instant))>>

HeaderOk(e) ==
  /\ attribute(e, "ID") # {} /\ attribute(e, "Version") = {"2.0"}
  /\ \E t \in attribute(e, "IssueInstant") : parse_xs_datetime(t) # {}

(* An optional xs:dateTime attribute that must parse if it is there.         *)
Instant(e, name) == UNION {parse_xs_datetime(t) : t \in attribute(e, name)}
InstantOk(e, name) == attribute(e, name) = {} \/ Instant(e, name) # {}

-----------------------------------------------------------------------------
(* Name identifiers. A format is one of the standard ones, or Custom with    *)
(* whatever URI the application gave it.                                     *)

StandardFormats == {"unspecified", "emailAddress", "X509SubjectName",
                    "WindowsDomainQualifiedName", "kerberos", "entity", "persistent", "transient"}
Standard(uri) == [variant |-> "Standard", uri |-> uri]
Custom(uri) == [variant |-> "Custom", uri |-> uri]

as_uri(format) == format.uri
from_uri(uri) == IF uri \in StandardFormats THEN Standard(uri) ELSE Custom(uri)
Persistent == Standard("persistent")

NameIdAttrs(name_id, sp_name_qualifier) ==
  <<At("Format", as_uri(name_id.format))>>
  \o OptAt("NameQualifier", name_id.name_qualifier)
  \o OptAt("SPNameQualifier", sp_name_qualifier)
  \o OptAt("SPProvidedID", name_id.sp_provided_id)

build_name_id(name_id, sp_name_qualifier) ==
  saml("NameID", NameIdAttrs(name_id, sp_name_qualifier), <<TextNode(name_id.value)>>)

NameIdFrom(e, value) ==
  [value |-> value,
   format |-> IF attribute(e, "Format") = {} THEN Standard("unspecified")
              ELSE from_uri(The(attribute(e, "Format"))),
   name_qualifier |-> attribute(e, "NameQualifier"),
   sp_name_qualifier |-> attribute(e, "SPNameQualifier"),
   sp_provided_id |-> attribute(e, "SPProvidedID")]

(* In an assertion the value is trimmed, in a logout request it is not.      *)
parse_name_id(e) == NameIdFrom(e, trim(text_content(e)))
parse_logout_name_id(e) == NameIdFrom(e, text_content(e))

Placeholder == [value |-> <<>>, format |-> Standard("unspecified"), name_qualifier |-> {},
                sp_name_qualifier |-> {}, sp_provided_id |-> {}]

-----------------------------------------------------------------------------
(* Assertions. p: [id, idp, name_id, sp, acs, in_response_to, session_index, *)
(* class_ref, attributes, holder_of_key_cert, instants].                     *)

BEARER == "bearer"
HOLDER_OF_KEY == "holder-of-key"

(* A persistent identifier is always scoped to the service provider.         *)
SpNameQualifier(name_id, sp) ==
  IF name_id.sp_name_qualifier = {} /\ name_id.format = Persistent
  THEN {sp} ELSE name_id.sp_name_qualifier

(* ensure_name_id_sp_qualifier: no other scope for it is issued.             *)
ensure_name_id_sp_qualifier(name_id, sp) ==
  name_id.format = Persistent => name_id.sp_name_qualifier \subseteq {sp}

(* The key information declares the prefix it uses.                          *)
build_hok_key_info(cert) ==
  Built(DS_NS, "KeyInfo", <<<<"ds", DS_NS>>>>, <<>>,
        <<Elem(DS_NS, "X509Data", <<>>, <<TextElem(DS_NS, "X509Certificate", Chars(cert))>>)>>)

build_attribute(a) ==
  saml("Attribute",
       <<At("Name", a.name)>> \o OptAt("NameFormat", a.name_format)
         \o OptAt("FriendlyName", a.friendly_name),
       [i \in DOMAIN a.values |-> TextElem(SAML_NS, "AttributeValue", a.values[i])])

build_subject(p) ==
  LET hok == p.holder_of_key_cert
      data == saml("SubjectConfirmationData",
                   <<At("Recipient", p.acs),
                     At("NotOnOrAfter", format_xs_datetime(p.instants.subject_confirmation))>>
                     \o OptAt("InResponseTo", p.in_response_to),
                   IF hok = {} THEN <<>> ELSE <<build_hok_key_info(The(hok))>>)
      method == IF hok = {} THEN BEARER ELSE HOLDER_OF_KEY
  IN  saml("Subject", <<>>,
           <<build_name_id(p.name_id, SpNameQualifier(p.name_id, p.sp)),
             saml("SubjectConfirmation", <<At("Method", method)>>, <<data>>)>>)

build_conditions(p) ==
  saml("Conditions",
       <<At("NotBefore", format_xs_datetime(p.instants.not_before)),
         At("NotOnOrAfter", format_xs_datetime(p.instants.not_on_or_after))>>,
       <<saml("AudienceRestriction", <<>>, <<TextElem(SAML_NS, "Audience", Chars(p.sp))>>)>>)

build_authn_statement(p) ==
  saml("AuthnStatement",
       <<At("AuthnInstant", format_xs_datetime(p.instants.authn)),
         At("SessionIndex", p.session_index)>>
         \o OptAt("SessionNotOnOrAfter", {format_xs_datetime(t) : t \in p.instants.session_end}),
       <<saml("AuthnContext", <<>>,
              <<TextElem(SAML_NS, "AuthnContextClassRef", Chars(p.class_ref))>>)>>)

build_assertion(p) ==
  LET statement == saml("AttributeStatement", <<>>,
                        [i \in DOMAIN p.attributes |-> build_attribute(p.attributes[i])])
  IN  Built(SAML_NS, "Assertion", <<<<"saml", SAML_NS>>>>, Header(p.id, p.instants.now),
            <<Issuer(Chars(p.idp)), build_subject(p), build_conditions(p), build_authn_statement(p)>>
              \o IF p.attributes = <<>> THEN <<>> ELSE <<statement>>)

(* status: [code, second_level, message].                                    *)
build_status(status) ==
  samlp("Status", <<>>,
        <<samlp("StatusCode", <<At("Value", status.code)>>,
                IF status.second_level = {} THEN <<>>
                ELSE <<samlp("StatusCode", <<At("Value", The(status.second_level))>>, <<>>)>>)>>
          \o IF status.message = {} THEN <<>>
             ELSE <<TextElem(SAMLP_NS, "StatusMessage", The(status.message))>>)

build_response(id, idp, destination, in_response_to, issue_instant, status, assertions) ==
  Built(SAMLP_NS, "Response", WireNamespaces,
        Header(id, issue_instant) \o <<At("Destination", destination)>>
          \o OptAt("InResponseTo", in_response_to),
        <<Issuer(Chars(idp)), build_status(status)>> \o assertions)

-----------------------------------------------------------------------------
(* Reading a response.                                                       *)

TextOf(children) == {trim(text_content(c)) : c \in children}
StatusCodeOf(status) == UNION {attribute(c, "Value") : c \in child_element(status, SAMLP_NS, "StatusCode")}

parse_response(e) ==
  LET status == The(child_element(e, SAMLP_NS, "Status"))
      held == SelectSeq(child_elements(e), LAMBDA c : /\ c.ns = SAML_NS
                                                      /\ c.local \in {"Assertion", "EncryptedAssertion"})
  IN  IF /\ validate_against_shape(e, SHAPE_RESPONSE) /\ HeaderOk(e) /\ Len(held) <= 1
      THEN {[destination |-> attribute(e, "Destination"),
             in_response_to |-> attribute(e, "InResponseTo"),
             issuer |-> TextOf(child_element(e, SAML_NS, "Issuer")),
             status_code |-> The(StatusCodeOf(status)),
             status_message |-> TextOf(child_element(status, SAMLP_NS, "StatusMessage")),
             assertion |-> ToSet(held)]}
      ELSE {}

X509Certificates(data) ==
  FlattenSeq([i \in DOMAIN all_child_elements(data, DS_NS, "X509Data") |->
    all_child_elements(all_child_elements(data, DS_NS, "X509Data")[i], DS_NS, "X509Certificate")])

extract_subject_confirmation_certs(data) ==
  UNION {{text_content(c) : c \in ToSet(X509Certificates(k))} :
           k \in child_element(data, DS_NS, "KeyInfo")}

(* Key information is read for holder-of-key confirmations only.             *)
parse_subject_confirmation(e) ==
  LET data == child_element(e, SAML_NS, "SubjectConfirmationData")
      of(name) == UNION {attribute(d, name) : d \in data}
      at(name) == UNION {Instant(d, name) : d \in data}
  IN  [method |-> The(attribute(e, "Method")), recipient |-> of("Recipient"),
       not_on_or_after |-> at("NotOnOrAfter"), not_before |-> at("NotBefore"),
       in_response_to |-> of("InResponseTo"),
       keys |-> IF attribute(e, "Method") = {HOLDER_OF_KEY}
                THEN UNION {extract_subject_confirmation_certs(d) : d \in data} ELSE {}]

ConfirmationOk(e) ==
  \A d \in child_element(e, SAML_NS, "SubjectConfirmationData") :
    InstantOk(d, "NotOnOrAfter") /\ InstantOk(d, "NotBefore")

Audiences(e) == {trim(text_content(a)) : a \in ToSet(all_child_elements(e, SAML_NS, "Audience"))}

NoConditions == [not_before |-> {}, not_on_or_after |-> {}, audience_restrictions |-> <<>>,
                 one_time_use |-> FALSE, proxy_restriction |-> {}]

(* A proxy count must be a number; the 32 bits it must fit in are more than  *)
(* a document here writes.                                                   *)
Decimal(n) == <<"decimal", n>>
ParseUnsigned(text, values) == IF text[1] = "decimal" /\ text[2] \in values THEN {text[2]} ELSE {}
ProxyCount(r) == UNION {ParseUnsigned(c, Nat) : c \in attribute(r, "Count")}
ConditionsOk(e) ==
  /\ InstantOk(e, "NotBefore") /\ InstantOk(e, "NotOnOrAfter")
  /\ \A r \in child_element(e, SAML_NS, "ProxyRestriction") :
       attribute(r, "Count") # {} => ProxyCount(r) # {}

(* Every AudienceRestriction stays a group of its own.                       *)
parse_conditions(e) ==
  LET groups == all_child_elements(e, SAML_NS, "AudienceRestriction") IN
  [not_before |-> Instant(e, "NotBefore"), not_on_or_after |-> Instant(e, "NotOnOrAfter"),
   audience_restrictions |-> [i \in DOMAIN groups |-> Audiences(groups[i])],
   one_time_use |-> child_element(e, SAML_NS, "OneTimeUse") # {},
   proxy_restriction |-> {[count |-> ProxyCount(r), audiences |-> Audiences(r)] :
                            r \in child_element(e, SAML_NS, "ProxyRestriction")}]

parse_authn_statement(e) ==
  [authn_instant |-> Instant(e, "AuthnInstant"), session_index |-> attribute(e, "SessionIndex"),
   session_not_on_or_after |-> Instant(e, "SessionNotOnOrAfter"),
   class_ref |-> UNION {TextOf(child_element(c, SAML_NS, "AuthnContextClassRef")) :
                          c \in child_element(e, SAML_NS, "AuthnContext")}]

(* Values keep their white space.                                            *)
parse_attribute(e) ==
  LET all == all_child_elements(e, SAML_NS, "AttributeValue") IN
  [name |-> The(attribute(e, "Name")), name_format |-> attribute(e, "NameFormat"),
   friendly_name |-> attribute(e, "FriendlyName"),
   values |-> [i \in DOMAIN all |-> text_content(all[i])]]

(* The subject's identifier, or a placeholder until it is decrypted.         *)
SubjectNameId(e, read(_)) ==
  LET clear == child_element(e, SAML_NS, "NameID") IN
  IF clear # {} THEN {read(n) : n \in clear}
  ELSE {Placeholder : n \in child_element(e, SAML_NS, "EncryptedID")}

parse_assertion(e) ==
  LET subject == The(child_element(e, SAML_NS, "Subject"))
      confirmations == all_child_elements(subject, SAML_NS, "SubjectConfirmation")
      conditions == child_element(e, SAML_NS, "Conditions")
      statements == all_child_elements(e, SAML_NS, "AuthnStatement")
      groups == all_child_elements(e, SAML_NS, "AttributeStatement")
      attributes == FlattenSeq([i \in DOMAIN groups |->
                                  all_child_elements(groups[i], SAML_NS, "Attribute")])
  IN  IF /\ validate_against_shape(e, SHAPE_ASSERTION)
         /\ Instant(e, "IssueInstant") # {}
         /\ child_element(e, SAML_NS, "Subject") # {}
         /\ SubjectNameId(subject, parse_name_id) # {}
         /\ \A i \in DOMAIN confirmations : ConfirmationOk(confirmations[i])
         /\ \A c \in conditions : ConditionsOk(c)
         /\ \A i \in DOMAIN statements : InstantOk(statements[i], "AuthnInstant")
                                         /\ InstantOk(statements[i], "SessionNotOnOrAfter")
      THEN {[id |-> The(attribute(e, "ID")), issue_instant |-> Instant(e, "IssueInstant"),
             issuer |-> The(TextOf(child_element(e, SAML_NS, "Issuer"))),
             name_id |-> The(SubjectNameId(subject, parse_name_id)),
             confirmations |-> [i \in DOMAIN confirmations |->
                                  parse_subject_confirmation(confirmations[i])],
             conditions |-> IF conditions = {} THEN NoConditions ELSE parse_conditions(The(conditions)),
             authn_statements |-> [i \in DOMAIN statements |-> parse_authn_statement(statements[i])],
             attributes |-> [i \in DOMAIN attributes |-> parse_attribute(attributes[i])]]}
      ELSE {}

-----------------------------------------------------------------------------
(* A number that must fit in 16 bits.                                        *)
ParseU16(text) == ParseUnsigned(text, 0..65535)

BoolAt(local, flag) == IF flag THEN <<At(local, "true")>> ELSE <<>>

-----------------------------------------------------------------------------
(* AuthnRequest. p: [id, issue_instant, issuer, destination, force_authn,    *)
(* is_passive, acs, protocol_binding, name_id_format, authn_context], where  *)
(* acs is <<"Default">>, <<"Index", n>> or <<"Url", u>>.                     *)

ComparisonAttrs == {"exact", "minimum", "maximum", "better"}

AcsRequest(acs) ==
  CASE acs[1] = "Default" -> <<>>
    [] acs[1] = "Index"   -> <<At("AssertionConsumerServiceIndex", Decimal(acs[2]))>>
    [] acs[1] = "Url"     -> <<At("AssertionConsumerServiceURL", acs[2])>>

build_name_id_policy(format) ==
  samlp("NameIDPolicy",
        <<At("Format", as_uri(format))>>
          \o BoolAt("AllowCreate", format \in {Persistent, Standard("emailAddress")}), <<>>)

build_requested_authn_context(rac) ==
  samlp("RequestedAuthnContext", <<At("Comparison", rac.comparison)>>,
        [i \in DOMAIN rac.class_refs |->
           TextElem(SAML_NS, "AuthnContextClassRef", Chars(rac.class_refs[i]))])

OptChild(build(_), opt) == IF opt = {} THEN <<>> ELSE <<build(The(opt))>>

build_authn_request_element(p) ==
  Built(SAMLP_NS, "AuthnRequest", WireNamespaces,
        Header(p.id, p.issue_instant) \o <<At("Destination", p.destination)>> \o AcsRequest(p.acs)
          \o OptAt("ProtocolBinding", p.protocol_binding)
          \o BoolAt("ForceAuthn", p.force_authn) \o BoolAt("IsPassive", p.is_passive),
        <<Issuer(Chars(p.issuer))>> \o OptChild(build_name_id_policy, p.name_id_format)
          \o OptChild(build_requested_authn_context, p.authn_context))

(* The responses a request may ask for: no Redirect and no SOAP.             *)
SsoResponseBindings == {"HTTP-POST", "HTTP-Artifact"}

(* xs:boolean; absent is false.                                              *)
xs_bool_ok(opt) == opt \subseteq {"true", "1", "false", "0"}
xs_bool(opt) == opt \cap {"true", "1"} # {}

parse_requested_authn_context(e) ==
  LET refs == all_child_elements(e, SAML_NS, "AuthnContextClassRef") IN
  [comparison |-> IF attribute(e, "Comparison") = {} THEN "exact" ELSE The(attribute(e, "Comparison")),
   class_refs |-> [i \in DOMAIN refs |-> Word(trim(text_content(refs[i])))]]

parse_authn_request(e) ==
  LET issuer == TextOf(child_element(e, SAML_NS, "Issuer"))
      indexes == attribute(e, "AssertionConsumerServiceIndex")
      contexts == child_element(e, SAMLP_NS, "RequestedAuthnContext")
  IN  IF /\ validate_against_shape(e, SHAPE_AUTHN_REQUEST) /\ HeaderOk(e)
         /\ xs_bool_ok(attribute(e, "ForceAuthn")) /\ xs_bool_ok(attribute(e, "IsPassive"))
         /\ attribute(e, "ProtocolBinding") \subseteq SsoResponseBindings
         /\ \A i \in indexes : ParseU16(i) # {}
         /\ issuer \notin {{}, {<<>>}}
         /\ \A c \in contexts : attribute(c, "Comparison") \subseteq ComparisonAttrs
      THEN {[id |-> The(attribute(e, "ID")), issue_instant |-> Instant(e, "IssueInstant"),
             destination |-> attribute(e, "Destination"), issuer |-> The(issuer),
             force_authn |-> xs_bool(attribute(e, "ForceAuthn")),
             is_passive |-> xs_bool(attribute(e, "IsPassive")),
             acs_url |-> attribute(e, "AssertionConsumerServiceURL"),
             acs_index |-> UNION {ParseU16(i) : i \in indexes},
             protocol_binding |-> attribute(e, "ProtocolBinding"),
             name_id_format |-> {from_uri(f) : f \in UNION {attribute(c, "Format") :
                                   c \in child_element(e, SAMLP_NS, "NameIDPolicy")}},
             authn_context |-> {parse_requested_authn_context(c) : c \in contexts}]}
      ELSE {}

-----------------------------------------------------------------------------
(* LogoutRequest. p: [id, issue_instant, issuer, destination,                *)
(* not_on_or_after, reason, name_id, session_index].                         *)

build_session_index(index) == TextElem(SAMLP_NS, "SessionIndex", index)

build_logout_request_element(p) ==
  Built(SAMLP_NS, "LogoutRequest", WireNamespaces,
        Header(p.id, p.issue_instant) \o OptAt("Destination", p.destination)
          \o OptAt("NotOnOrAfter", {format_xs_datetime(t) : t \in p.not_on_or_after})
          \o OptAt("Reason", p.reason),
        <<Issuer(Chars(p.issuer)), build_name_id(p.name_id, p.name_id.sp_name_qualifier)>>
          \o OptChild(build_session_index, p.session_index))

(* The issuer of a logout message is kept as it was written.                 *)
LogoutIssuer(e) ==
  {text_content(c) : c \in {i \in child_element(e, SAML_NS, "Issuer") : trim(text_content(i)) # <<>>}}

parse_logout_request(e) ==
  LET indexes == all_child_elements(e, SAMLP_NS, "SessionIndex")
      name_id == SubjectNameId(e, parse_logout_name_id)
  IN  IF /\ validate_against_shape(e, SHAPE_LOGOUT_REQUEST) /\ HeaderOk(e)
         /\ InstantOk(e, "NotOnOrAfter") /\ LogoutIssuer(e) # {} /\ name_id # {}
      THEN {[id |-> The(attribute(e, "ID")), issue_instant |-> Instant(e, "IssueInstant"),
             destination |-> attribute(e, "Destination"),
             not_on_or_after |-> Instant(e, "NotOnOrAfter"), reason |-> attribute(e, "Reason"),
             issuer |-> The(LogoutIssuer(e)), name_id |-> The(name_id),
             session_index |-> [i \in DOMAIN indexes |-> text_content(indexes[i])]]}
      ELSE {}

-----------------------------------------------------------------------------
(* LogoutResponse. p: [id, issue_instant, issuer, destination,               *)
(* in_response_to, status, message].                                         *)

LogoutStatus == {"Success", "PartialLogout", "RequestDenied", "Requester", "Responder"}

(* PartialLogout and RequestDenied are second-level codes.                   *)
top_level_uri(status) ==
  CASE status = "PartialLogout" -> "Responder"
    [] status = "RequestDenied" -> "Requester"
    [] OTHER                    -> status
second_level_uri(status) == {status} \cap {"PartialLogout", "RequestDenied"}

build_logout_response_element(p) ==
  Built(SAMLP_NS, "LogoutResponse", WireNamespaces,
        Header(p.id, p.issue_instant) \o <<At("InResponseTo", p.in_response_to)>>
          \o OptAt("Destination", p.destination),
        <<Issuer(Chars(p.issuer)),
          build_status([code |-> top_level_uri(p.status), message |-> p.message,
                        second_level |-> second_level_uri(p.status)])>>)

parse_logout_response(e) ==
  LET status == The(child_element(e, SAMLP_NS, "Status"))
      top == The(child_element(status, SAMLP_NS, "StatusCode"))
  IN  IF /\ validate_against_shape(e, SHAPE_LOGOUT_RESPONSE) /\ HeaderOk(e)
         /\ attribute(e, "InResponseTo") # {} /\ LogoutIssuer(e) # {}
      THEN {[issuer |-> The(LogoutIssuer(e)), destination |-> attribute(e, "Destination"),
             in_response_to |-> The(attribute(e, "InResponseTo")),
             status_code |-> The(attribute(top, "Value")),
             second_level |-> StatusCodeOf(top),
             message |-> {text_content(m) : m \in child_element(status, SAMLP_NS, "StatusMessage")}]}
      ELSE {}

(* PartialLogout counts at either level; a failure names its inner code.     *)
to_outcome(parsed) ==
  CASE parsed.status_code = "Success" -> <<"Success">>
    [] "PartialLogout" \in {parsed.status_code} \cup parsed.second_level -> <<"PartialLogout">>
    [] parsed.second_level # {} -> <<"Failure", The(parsed.second_level)>>
    [] OTHER -> <<"Failure", parsed.status_code>>
=============================================================================
