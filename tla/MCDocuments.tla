------------------------------ MODULE MCDocuments ------------------------------
(* What a response's text, a message, a metadata document or an instant is   *)
(* worth to its reader, on families of inputs: the responses of              *)
(* MCResponseValidation, and documents taken from their writer to their      *)
(* reader. Beside them the InMemoryReplayCache, a machine of its own: `which`*)
(* says what a behaviour is about, and the other side does not move.         *)
EXTENDS MCResponseValidation, DeliveryContract, ReplayCache, TLC

VARIABLE which

MC_Limits == [max_total_nodes |-> 400, max_attribute_count |-> 12,
              max_text_length |-> 100, max_depth |-> 20]

(* Prefixes, URIs and attribute names; all that is compared when sorting.    *)
MC_Lexicon ==
  <<"", "Algorithm", "AllowCreate", "AssertionConsumerServiceIndex",
    "AssertionConsumerServiceURL", "AuthnInstant", "AuthnRequestsSigned", "Binding",
    "Comparison", "Destination", "ForceAuthn", "Format", "FriendlyName", "ID",
    "InResponseTo", "IsPassive", "IssueInstant", "Location", "Method", "Name",
    "NameFormat", "NameQualifier", "NotBefore", "NotOnOrAfter", "PrefixList",
    "ProtocolBinding", "ProviderName", "Reason", "Recipient", "SPNameQualifier",
    "SPProvidedID", "SessionIndex", "SessionNotOnOrAfter", "Type", "URI", "Value", "Version",
    "WantAssertionsSigned", "WantAuthnRequestsSigned", "a", "b", "c", "cacheDuration",
    "contactType", "ds", "ds-ns", "ec", "ec-ns", "ecp", "ecp-ns", "entityID", "idpdisc",
    "idpdisc-ns", "index", "isDefault", "lang", "md", "md-ns", "other", "other-ns", "p",
    "paos", "paos-ns", "protocolSupportEnumeration", "q", "saml", "saml-ns", "samlp",
    "samlp-ns", "soap", "soap-ns", "u-ns", "use", "v-ns", "validUntil", "x", "xenc", "xenc-ns",
    "xenc11", "xenc11-ns", "xml-ns">>

-----------------------------------------------------------------------------
(* Responses and messages.                                                   *)

At_(day, sec, nanos) == [day |-> day, sec |-> sec, nanos |-> nanos]
Noon == At_(20000, 43200, 123456789)
Later == At_(20000, 43500, 0)

Plain == [value |-> Chars("alice"), format |-> Standard("transient"), name_qualifier |-> {},
          sp_name_qualifier |-> {}, sp_provided_id |-> {}]
NameIds ==
  {Plain, [Plain EXCEPT !.format = Persistent],
   [Plain EXCEPT !.format = Persistent, !.sp_name_qualifier = {"sp"}],
   [Plain EXCEPT !.format = Persistent, !.sp_name_qualifier = {"other"}],
   [Plain EXCEPT !.format = Custom("emailAddress"), !.value = Blank \o Chars("alice") \o Blank],
   [Plain EXCEPT !.format = Custom("urn:x"), !.name_qualifier = {"idp"}, !.sp_provided_id = {"s1"},
                 !.sp_name_qualifier = {"group"}]}

Mail == [name |-> "mail", name_format |-> {}, friendly_name |-> {"Mail"},
         values |-> <<Chars("a"), Blank \o Chars("b"), <<>>>>]
Groups == [name |-> "groups", name_format |-> {"uri"}, friendly_name |-> {}, values |-> <<>>]

AssertionOf(name_id, attributes, hok) ==
  [id |-> "a1", idp |-> "idp", name_id |-> name_id, sp |-> "sp", acs |-> "acs",
   in_response_to |-> {"req"}, session_index |-> "s1", class_ref |-> "Password",
   attributes |-> attributes, holder_of_key_cert |-> hok,
   instants |-> [now |-> Noon, subject_confirmation |-> Later, not_before |-> At_(20000, 43199, 0),
                 not_on_or_after |-> Later, authn |-> Noon, session_end |-> {Later}]]

Success == [code |-> "Success", second_level |-> {}, message |-> {}]
Denied == [code |-> "Responder", second_level |-> {"NoPassive"}, message |-> {Chars("denied")}]

ResponseOf(carrier, assertion, status, assertion_signer, response_signer) ==
  [kind |-> "response", carrier |-> carrier, assertion |-> assertion, id |-> "r1",
   status |-> status, assertion_signer |-> assertion_signer, response_signer |-> response_signer]

Signers == {{}, {"k1"}, {"k2"}}

(* The fields with one signature, and the signatures with one assertion.     *)
ResponseJobs ==
  {ResponseOf(carrier, AssertionOf(n, as, hok), Success, {"k1"}, {}) :
     carrier \in {"HTTP-POST", "SOAP"}, n \in NameIds, hok \in {{}, {"p1"}},
     as \in {<<>>, <<Mail, Groups>>}}
  \cup {ResponseOf(carrier, AssertionOf(Plain, <<Mail>>, {}), status, a, s) :
          carrier \in {"HTTP-POST", "SOAP"}, status \in {Success, Denied},
          a \in Signers, s \in Signers}

(* Encryption: certificates and keys through a rollover, the transports and  *)
(* policies of both builds; and another implementation's parameters.         *)
Cert(name, family, fingerprint) == [name |-> name, family |-> family, fingerprint |-> fingerprint]
Old == Cert("old", "RSA", 2)
New == Cert("new", "RSA", 1)
Curve == Cert("curve", "EC", 0)

accept_all == [data |-> DataEncryptionAlgorithms, transport |-> KeyTransports(TRUE),
               oaep_digest |-> OaepDigests, mgf1_digest |-> OaepDigests]

Encrypting(j, certs, when_possible, force, data, transport, keys, policy, weak) ==
  [sp_certs |-> certs, when_possible |-> when_possible, force |-> force, data_algorithm |-> data,
   transport |-> transport, keys |-> keys, policy |-> policy, weak_algos |-> weak] @@ j

BaseResponse(kind, carrier, a, s) ==
  [ResponseOf(carrier, AssertionOf(Plain, <<>>, {}), Success, a, s) EXCEPT !.kind = kind]

Configurable == {p \in KeyTransports(TRUE) \X BOOLEAN : p[1] \in KeyTransports(p[2])}

EncryptedJobs ==
  {Encrypting(BaseResponse("encrypted", "HTTP-POST", {"k1"}, {}), certs, when_possible, force, data,
              transport, keys, policy, weak) :
     certs \in {{}, {Curve}, {Old}, {Old, New, Curve}}, when_possible \in BOOLEAN,
     force \in {{}, {TRUE}, {FALSE}}, data \in {"aes256-gcm"}, <<transport, weak>> \in {<<"rsa-oaep", FALSE>>},
     keys \in {<<>>, <<Curve, New>>}, policy \in {strong_defaults}}
  \cup {Encrypting(BaseResponse("encrypted", "HTTP-POST", {"k1"}, {}), certs, TRUE, {}, data,
              transport, keys, policy, weak) :
          certs \in {{Old}, {Old, New, Curve}}, data \in {"aes256-gcm", "aes128-cbc"},
          <<transport, weak>> \in Configurable, keys \in {<<>>, <<Old>>, <<Old, New>>, <<Curve, New>>},
          policy \in {strong_defaults, accept_all}}
  \cup {Encrypting(BaseResponse("encrypted", carrier, a, s), {Old}, TRUE, {}, "aes256-gcm", "rsa-oaep",
                   <<New, Old>>, strong_defaults, FALSE) :
          carrier \in {"HTTP-POST", "SOAP"}, a \in Signers, s \in Signers}

PeerEncryptedJobs ==
  {[peer |-> [digest |-> digest, mgf1 |-> mgf1, part |-> part]]
     @@ Encrypting(BaseResponse("peer encrypted", "HTTP-POST", {"k1"}, {}), {Old}, TRUE, {}, "aes256-gcm",
                   transport, keys, policy, weak) :
     digest \in {{}, {"sha1"}, {"sha256"}}, mgf1 \in {{}, {"sha1"}, {"sha256"}},
     part \in {"Assertion", "NameID"}, transport \in KeyTransports(TRUE), keys \in {<<New, Old>>, <<New>>},
     policy \in {strong_defaults, accept_all}, weak \in BOOLEAN}

RequestOf(issuer, acs, flag, binding, format, context) ==
  [id |-> "req", issue_instant |-> Noon, issuer |-> issuer, destination |-> "sso",
   force_authn |-> flag, is_passive |-> ~flag, acs |-> acs, protocol_binding |-> binding,
   name_id_format |-> format, authn_context |-> context]

Contexts == {{}, {[comparison |-> "minimum", class_refs |-> <<"Password", "Kerberos">>]}}
AuthnRequests ==
  {RequestOf("sp", acs, flag, binding, format, context) :
     acs \in {<<"Default">>, <<"Index", 65535>>, <<"Url", "acs">>}, flag \in BOOLEAN,
     binding \in {{}, {"HTTP-Artifact"}}, format \in {{}, {Persistent}, {Custom("kerberos")}},
     context \in Contexts}

EcpJobs ==
  {[kind |-> "ecp", assertion |-> AssertionOf(Plain, <<>>, {}), id |-> "r1", status |-> Success,
    carrier |-> "SOAP", assertion_signer |-> a, response_signer |-> s, idp_acs |-> idp_acs,
    expected_message_id |-> expected,
    ecp |-> [message_id |-> "m1", response_consumer_url |-> "acs", provider_name |-> name,
             request |-> RequestOf("sp", <<"Url", "acs">>, FALSE, {}, {}, {})]] :
   a \in {{}, {"k1"}}, s \in {{}, {"k1"}}, idp_acs \in {"acs", "elsewhere"},
   expected \in {"m1", "m2"}, name \in {{}, {"shop"}}}

LogoutRequests ==
  {[id |-> "req", issue_instant |-> Noon, issuer |-> "idp", destination |-> {"slo"},
    not_on_or_after |-> noa, reason |-> reason, name_id |-> n, session_index |-> index] :
   noa \in {{}, {Later}}, reason \in {{}, {"user"}}, n \in NameIds,
   index \in {{}, {Chars("s1")}}}

LogoutResponses ==
  {[id |-> "res", issue_instant |-> Noon, issuer |-> "sp", destination |-> destination,
    in_response_to |-> "req", status |-> status, message |-> message] :
   destination \in {{}, {"slo"}}, status \in LogoutStatus, message \in {{}, {Chars("why")}}}

MessageOf(type, message, carrier, signer, relay_state, query, spelling) ==
  [kind |-> "message", type |-> type, message |-> message, carrier |-> carrier, signer |-> signer,
   relay_state |-> relay_state, destination |-> [query |-> query], spelling |-> spelling]

OwnQuery == {<<>>, <<<<"tenant", <<"lower case", "t1">>>>>>}
Sample(S) == {CHOOSE x \in S : TRUE}
Typed == {<<"AuthnRequest", m>> : m \in AuthnRequests} \cup {<<"LogoutRequest", m>> : m \in LogoutRequests}
         \cup {<<"LogoutResponse", m>> : m \in LogoutResponses}
SampleTyped ==
  {<<"AuthnRequest", m>> : m \in Sample(AuthnRequests)}
    \cup {<<"LogoutRequest", m>> : m \in Sample(LogoutRequests)}
  \cup {<<"LogoutResponse", m>> : m \in Sample(LogoutResponses)}

(* Every message over one signed carrier, and one of each type over all.     *)
MessageJobs ==
  {MessageOf(t[1], t[2], "HTTP-POST", {"k1"}, {}, <<>>, "own") : t \in Typed}
  \cup {MessageOf(t[1], t[2], carrier, signer, relay, query, spelling) :
          t \in SampleTyped, carrier \in {"HTTP-POST", "HTTP-Redirect", "SOAP"}, signer \in Signers,
          relay \in {{}, {"rs"}}, query \in OwnQuery, spelling \in {"own", "peer"}}

-----------------------------------------------------------------------------
(* Metadata.                                                                 *)

Endpoint(url, binding, index, is_default) ==
  [url |-> url, binding |-> binding, index |-> index, is_default |-> is_default]

NoExtras == [organization |-> {}, contacts |-> <<>>, discovery |-> <<>>]
Extras == [organization |-> {[language |-> "en", name |-> Chars("Org"), url |-> Chars("org")]},
           contacts |-> <<[contact_type |-> "technical", parts |-> <<<<"EmailAddress", Chars("mail")>>>>]>>,
           discovery |-> <<>>]

IdpOf(entity, id, extras) ==
  [role |-> "idp", entity_id |-> entity, id |-> id,
   sso |-> <<Endpoint("sso", "HTTP-Redirect", {}, FALSE), Endpoint("sso2", "HTTP-POST", {}, FALSE)>>,
   slo |-> <<Endpoint("slo", "HTTP-POST", {3}, FALSE)>>,
   artifact_resolution |-> <<Endpoint("ars", "SOAP", {0}, FALSE), Endpoint("ars2", "SOAP", {1}, TRUE)>>,
   name_id_formats |-> <<Persistent, Custom("transient")>>, signing_cert |-> {"k1"},
   encryption_cert |-> {}, encryption_algorithms |-> <<>>, want_authn_requests_signed |-> TRUE,
   valid_until |-> {Noon}, cache_duration |-> {[secs |-> 3600, nanos |-> 500]}, extras |-> extras]

SpOf(entity, id, extras) ==
  [role |-> "sp", entity_id |-> entity, id |-> id,
   acs |-> <<Endpoint("acs", "HTTP-POST", {0}, FALSE), Endpoint("acs2", "HTTP-Artifact", {7}, TRUE)>>,
   slo |-> <<Endpoint("slo", "SOAP", {}, FALSE)>>, name_id_formats |-> <<>>,
   signing_cert |-> {"k2"}, encryption_cert |-> {"k3"}, encryption_algorithms |-> <<"aes">>,
   authn_requests_signed |-> TRUE, want_assertions_signed |-> FALSE,
   valid_until |-> {}, cache_duration |-> {}, extras |-> extras]

TwoArs(b, m, n) ==
  [IdpOf("idp", "e1", NoExtras) EXCEPT !.artifact_resolution =
     <<Endpoint("ars", b, m, FALSE), Endpoint("ars2", "SOAP", n, FALSE)>>]

Entities ==
  {IdpOf("idp", "e1", NoExtras), IdpOf("idp", "e1", Extras), SpOf("sp", "e1", NoExtras),
   SpOf("sp", "e1", [Extras EXCEPT !.discovery =
                       <<[url |-> "ds1", index |-> 0, is_default |-> FALSE],
                         [url |-> "ds2", index |-> 1, is_default |-> TRUE]>>])}
  \cup {TwoArs(b, m, n) : b \in {"SOAP", "HTTP-POST"}, m \in {{}, {0}}, n \in {{0}, {1}}}

(* Members in either order, with one entity ID twice.                        *)
MemberLists ==
  LET m1 == IdpOf("idp", "e1", NoExtras)
      m2 == SpOf("idp", "e2", NoExtras)
      m3 == SpOf("sp", "e3", NoExtras)
  IN  {<<m1>>, <<m1, m2>>, <<m2, m1>>, <<m3, m2, m1>>}

Aggregates ==
  {[role |-> "aggregate", id |-> "g1", name |-> name, valid_until |-> until,
    cache_duration |-> {}, members |-> members] :
   name \in {{}, {"federation"}}, until \in {{}, {Noon}}, members \in MemberLists}

(* A federation's document: two wrappers, each declaring prefixes for the    *)
(* entities inside it, which declare none of their own.                      *)
Bare(p) == [build_member(p) EXCEPT !.decls = <<>>]
Wrapper(id, decls, children) ==
  Built(MD_NS, "EntitiesDescriptor", decls, <<At("ID", id)>>, children)

WrapperDecls ==
  {<<>>, <<<<"p", MD_NS>>, <<"ds", DS_NS>>>>, <<<<"p", "other-ns">>, <<"ds", DS_NS>>>>,
   <<<<"", MD_NS>>>>}

Federations ==
  {LET inner == IdpOf("idp", "e1", NoExtras)
       outer == SpOf("sp", "e2", NoExtras)
       nested == Wrapper("g2", decls, <<Bare(inner)>>)
   IN  [role |-> "federation", members |-> IF at_end THEN <<outer, inner>> ELSE <<inner, outer>>,
        tree |-> Wrapper("g1", <<<<"md", MD_NS>>, <<"ds", DS_NS>>>> \o extra,
                         IF at_end THEN <<Bare(outer), nested>> ELSE <<nested, Bare(outer)>>)] :
   decls \in WrapperDecls, at_end \in BOOLEAN, extra \in {<<>>, <<<<"p", "other-ns">>>>}}

MetadataJobs ==
  {[kind |-> "metadata", root |-> published, signer |-> signer] :
     published \in Entities \cup Aggregates \cup Federations, signer \in Signers}

-----------------------------------------------------------------------------
(* Canonical forms: two levels of every choice of declarations, the names    *)
(* written with every prefix in scope.                                       *)

Declarations ==
  {<<>>, <<<<"a", "u-ns">>>>, <<<<"a", "v-ns">>>>, <<<<"b", "u-ns">>, <<"a", "u-ns">>>>,
   <<<<"", "u-ns">>>>, <<<<"", "">>>>}
Outer == <<<<"a", "u-ns">>, <<"b", "v-ns">>>>
Attr(prefix, local) == [name |-> Name(prefix, local), value |-> local]

Texts == {<<>>, <<TextRun(Chars("t") \o Blank)>>,
          <<TextRun(Chars("t")), Comment("c"), TextRun(Chars("t"))>>}

(* root > middle > leaf; the subject is any of them.                         *)
CanonicalDoc(d1, d2, p1, p2, attrs, text) ==
  <<Start(Name("a", "root"), Outer, <<>>), Start(Name(p1, "middle"), d1, <<>>)>> \o text
  \o <<Empty(Name(p2, "leaf"), d2, attrs)>> \o text
  \o <<End(Name(p1, "middle")), End(Name("a", "root"))>>

Arounds ==
  {Built("u-ns", "wrapper", decls, <<>>, <<>>) :
     decls \in {<<<<"x", "other-ns">>>>, <<<<"x", "u-ns">>, <<"c", "v-ns">>>>}}

WrittenPrefixes == {"", "a", "b"}
SomeAttrs == <<Attr("b", "x"), Attr("", "q"), Attr("a", "x")>>
CanonicalOver(declarations, names, attributes, texts, algs) ==
  {[kind |-> "canonical", events |-> CanonicalDoc(d[1], d[2], p[1], p[2], attrs, text), path |-> path,
    alg |-> alg, around |-> around] :
   d \in declarations, p \in names, attrs \in attributes, text \in texts,
   path \in {<<>>, <<1>>}, alg \in algs, around \in Arounds}

(* Every scope with both algorithms; and attributes, text and comments with  *)
(* each of their variants.                                                   *)
CanonicalJobs ==
  CanonicalOver(Declarations \X Declarations, WrittenPrefixes \X WrittenPrefixes, {SomeAttrs}, {<<>>},
                {"exclusive", "inclusive"})
  \cup CanonicalOver(Declarations \X {<<>>}, {<<"a", "a">>, <<"a", "">>, <<"b", "a">>},
                     {<<>>, SomeAttrs}, Texts, C14nAlgorithms)

-----------------------------------------------------------------------------
(* Instants: dates around the ends of months and years, times around the     *)
(* ends of days in offsets up to a day, and clocks to the nanosecond.        *)

Text(y, m, d, h, mi, s, offset, fraction) ==
  [year |-> y, month |-> m, day |-> d, hour |-> h, minute |-> mi, second |-> s,
   offset |-> offset, fraction |-> fraction]

InstantJobs ==
  {[kind |-> "text", text |-> Text(y, m, d, 12, 0, 0, 0, <<>>)] :
     y \in {1969, 1970, 1972, 1999, 2000, 2001, 2099, 2100, 2101, 2104, 2400, 9999},
     m \in 1..12, d \in {1, 28, 29, 30, 31}}
  \cup {[kind |-> "text", text |-> Text(y, m, d, h, mi, s, offset, <<5>>)] :
     y \in {1969, 1970, 2024}, m \in {1, 12}, d \in {1, 31}, h \in {0, 23, 24}, mi \in {0, 59},
     s \in {0, 59, 60, 61}, offset \in {-840, -60, 0, 330, 899}}
  \cup {[kind |-> "clock", instant |-> At_(day, sec, nanos)] :
     day \in {0, 58, 59, 364, 365, 789, 11016, 11017, 20000, 47540, 47541, 2932896},
     sec \in {0, 3599, 86399}, nanos \in {0, 1, 999999, 1000000, 123456789, 999999999}}

-----------------------------------------------------------------------------
(* Discovery: return addresses that differ from a registered one in each     *)
(* part, services and parameter names of every kind; and cookies over every  *)
(* short history of three providers whose names differ in length.            *)

Url(site, path, query) ==
  [site |-> site, path |-> path, userinfo |-> {}, fragment |-> {}, query |-> query]
Home == Url("sp", "/disco", <<>>)

ReturnUrls ==
  {Home, [Home EXCEPT !.query = <<<<"state", "s1">>>>], [Home EXCEPT !.query = <<<<"idp", "own">>>>],
   [Home EXCEPT !.site = "elsewhere"], [Home EXCEPT !.site = ""], [Home EXCEPT !.path = "/other"],
   [Home EXCEPT !.fragment = {"top"}], [Home EXCEPT !.userinfo = {"user"}]}

Endpoints ==
  {<<>>, <<[url |-> Home, is_default |-> FALSE]>>,
   <<[url |-> Url("sp2", "/disco", <<>>), is_default |-> FALSE], [url |-> Home, is_default |-> TRUE]>>}

DiscoveryJobs ==
  {[kind |-> "discovery", endpoints |-> endpoints, chosen |-> chosen,
    service |-> [Url("ds", "/pick", query) EXCEPT !.fragment = {"top"}],
    request |-> [sp_entity_id |-> id, return_url |-> return, return_id_param |-> param,
                 is_passive |-> passive]] :
   endpoints \in Endpoints, chosen \in {{}, {"idp"}},
   query \in {<<>>, <<<<"tenant", "t1">>>>, <<<<"policy", "multiple">>>>}, id \in {"", "sp"},
   return \in {{}} \cup {{url} : url \in ReturnUrls}, param \in {{}, {"idp"}, {"a&b"}}, passive \in BOOLEAN}

Providers == {[name |-> "a", len |-> 9], [name |-> "b", len |-> 1], [name |-> "c", len |-> 4]}

CookieJobs ==
  {[kind |-> "cookie", value |-> value, visits |-> visits, max_value_len |-> max] :
   value \in {<<>>, to_cookie_value(<<[name |-> "b", len |-> 1]>>), <<<<"text", "?">>>>},
   visits \in UNION {[1..n -> Providers] : n \in 1..4}, max \in {0, 4, 11, 19, 22, 40}}

-----------------------------------------------------------------------------

Jobs == ResponseJobs \cup EcpJobs \cup MessageJobs \cup MetadataJobs \cup CanonicalJobs \cup InstantJobs
        \cup EncryptedJobs \cup PeerEncryptedJobs \cup DiscoveryJobs \cup CookieJobs

DocumentsInit ==
  \/ ValidationInit /\ job = {} /\ outcome = <<>>
  \/ /\ \E j \in Jobs : job = {j}
     /\ outcome = <<>> /\ r = GoodResponse /\ cx = GoodContext /\ verdict = "pending"

DocumentsNext ==
  \/ job = {} /\ Validate /\ UNCHANGED <<job, outcome>>
  \/ Deliver /\ UNCHANGED validationVars

-----------------------------------------------------------------------------
(* The cache: one id in two namespaces, which must not collide, single       *)
(* entries and two-entry batches (one repeating a key), and a capacity below *)
(* the number of keys.                                                       *)

MCKey == {<<"Assertion", "a">>, <<"Assertion", "b">>, <<"ProxyTransaction", "a">>}

Single == {<<e>> : e \in [key : MCKey, expires_at : {1, 3}]}

Pairs == {<<ReplayEntry("Assertion", "a", 2), ReplayEntry("ProxyTransaction", "a", 3)>>,
          <<ReplayEntry("Assertion", "b", 1), ReplayEntry("Assertion", "b", 3)>>,
          <<ReplayEntry("Assertion", "a", 3), ReplayEntry("Assertion", "b", 3)>>}

MCBatches == Single \cup Pairs

-----------------------------------------------------------------------------

NoDocument ==
  job = {} /\ outcome = <<>> /\ r = GoodResponse /\ cx = GoodContext /\ verdict = "pending"

documentVars == <<validationVars, job, outcome>>

MCInit ==
  /\ Init
  /\ \/ which = "documents" /\ DocumentsInit
     \/ which = "cache" /\ NoDocument

MCNext ==
  /\ UNCHANGED which
  /\ \/ which = "documents" /\ DocumentsNext /\ UNCHANGED vars
     \/ which = "cache" /\ Next /\ UNCHANGED documentVars

MCSpec == MCInit /\ [][MCNext]_<<which, vars, documentVars>>
=============================================================================
