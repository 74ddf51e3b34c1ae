------------------------------- MODULE Metadata -------------------------------
(* Metadata published and consumed: the descriptors of both roles and their  *)
(* aggregates (src/metadata/emit_*.rs), the eager parser                     *)
(* (src/metadata/parse.rs, src/descriptor), the lookups on what it returns,  *)
(* and the streaming parser; and identity provider discovery, which sends    *)
(* users back to endpoints registered there. A parser returns a set: what it *)
(* read, or nothing. An endpoint is [url, binding, index : an option,        *)
(* is_default].                                                              *)
EXTENDS Bindings

md(local, attrs, children) == Elem(MD_NS, local, attrs, children)
MdNamespaces == <<<<"md", MD_NS>>, <<"ds", DS_NS>>>>
bool_str(flag) == IF flag THEN "true" ELSE "false"

(* An xs:duration is a sequence of numbers with their designators, "T" among *)
(* them; what is published is always in seconds, the fraction dropped.       *)
Part(n, unit) == [n |-> n, unit |-> unit]
format_cache_duration(d) == <<Part(0, "T"), Part(d.secs, "S")>>

DurationRank == [D |-> 1, T |-> 2, H |-> 3, M |-> 4, S |-> 5]
UnitSeconds == [D |-> 86400, T |-> 0, H |-> 3600, M |-> 60, S |-> 1]

(* Designators at most once and in order, time designators after the T.      *)
parse_xs_duration(text) ==
  LET total[i \in 0..Len(text)] ==
        IF i = 0 THEN 0 ELSE total[i - 1] + text[i].n * UnitSeconds[text[i].unit]
  IN  IF /\ text # <<>> /\ Last(text).unit # "T"
         /\ \A i \in DOMAIN text : text[i].unit \in DOMAIN DurationRank
         /\ \A i, j \in DOMAIN text : i < j => DurationRank[text[i].unit] < DurationRank[text[j].unit]
         /\ \A i \in DOMAIN text : text[i].unit \in {"H", "M", "S"} =>
              \E j \in 1..(i - 1) : text[j].unit = "T"
      THEN {[secs |-> total[Len(text)], nanos |-> 0]} ELSE {}

-----------------------------------------------------------------------------
(* Emission.                                                                 *)

IndexAt(opt) == OptAt("index", {Decimal(n) : n \in opt})
EndpointElem(name, endpoint, indexed) ==
  md(name, <<At("Binding", endpoint.binding), At("Location", endpoint.url)>>
             \o (IF indexed THEN IndexAt(endpoint.index) \o BoolAt("isDefault", endpoint.is_default)
                            ELSE <<>>), <<>>)

(* Only the consumer and artifact services carry an index.                   *)
build_acs_endpoint(endpoint) == EndpointElem("AssertionConsumerService", endpoint, TRUE)
build_sso_endpoint(endpoint) == EndpointElem("SingleSignOnService", endpoint, FALSE)
build_slo_endpoint(endpoint) == EndpointElem("SingleLogoutService", endpoint, FALSE)
build_artifact_resolution_endpoint(endpoint) ==
  EndpointElem("ArtifactResolutionService", endpoint, TRUE)

build_key_descriptor(use, cert, algorithms) ==
  md("KeyDescriptor", <<At("use", use)>>,
     <<build_x509_key_info(cert)>>
       \o [i \in DOMAIN algorithms |->
             md("EncryptionMethod", <<At("Algorithm", algorithms[i])>>, <<>>)])

build_disco_extensions(endpoints) ==
  md("Extensions", <<>>,
     [i \in DOMAIN endpoints |->
        Built(IDPDISC_NS, "DiscoveryResponse", <<<<"idpdisc", IDPDISC_NS>>>>,
              <<At("Binding", IDPDISC_NS), At("Location", endpoints[i].url),
                At("index", Decimal(endpoints[i].index))>>
                \o BoolAt("isDefault", endpoints[i].is_default), <<>>)])

KeyDescriptors(p) ==
  (IF p.signing_cert = {} THEN <<>> ELSE <<build_key_descriptor("signing", The(p.signing_cert), <<>>)>>)
  \o (IF p.encryption_cert = {} THEN <<>>
      ELSE <<build_key_descriptor("encryption", The(p.encryption_cert), p.encryption_algorithms)>>)

Formats(p) == [i \in DOMAIN p.name_id_formats |->
                 TextElem(MD_NS, "NameIDFormat", Chars(as_uri(p.name_id_formats[i])))]
Each(build(_), endpoints) == [i \in DOMAIN endpoints |-> build(endpoints[i])]

build_organization(org) ==
  LET localized(name, text) ==
        md(name, <<[At("lang", org.language) EXCEPT !.ns = XML_NS]>>, <<TextNode(text)>>)
  IN  md("Organization", <<>>, <<localized("OrganizationName", org.name),
         localized("OrganizationDisplayName", org.name), localized("OrganizationURL", org.url)>>)

build_contact_person(contact) ==
  LET text(name, value) == TextElem(MD_NS, name, value) IN
  md("ContactPerson", <<At("contactType", contact.contact_type)>>,
     [i \in DOMAIN contact.parts |-> text(contact.parts[i][1], contact.parts[i][2])])

append_extras(extras) ==
  OptChild(build_organization, extras.organization) \o Each(build_contact_person, extras.contacts)

Validity(p) ==
  OptAt("validUntil", {format_xs_datetime(t) : t \in p.valid_until})
  \o OptAt("cacheDuration", {format_cache_duration(d) : d \in p.cache_duration})

EntityDescriptor(p, role) ==
  Built(MD_NS, "EntityDescriptor", MdNamespaces,
        <<At("entityID", p.entity_id), At("ID", p.id)>> \o Validity(p),
        <<role>> \o append_extras(p.extras))

build_sp_entity_descriptor(p) ==
  EntityDescriptor(p,
    md("SPSSODescriptor",
       <<At("protocolSupportEnumeration", SAMLP_NS),
         At("AuthnRequestsSigned", bool_str(p.authn_requests_signed)),
         At("WantAssertionsSigned", bool_str(p.want_assertions_signed))>>,
       (IF p.extras.discovery = <<>> THEN <<>> ELSE <<build_disco_extensions(p.extras.discovery)>>)
         \o KeyDescriptors(p) \o Formats(p) \o Each(build_acs_endpoint, p.acs) \o Each(build_slo_endpoint, p.slo)))

(* Artifact resolution services use SOAP and have an index of their own;     *)
(* neither published nor accepted otherwise.                                 *)
validate_artifact_resolution_endpoints(endpoints) ==
  /\ \A i \in DOMAIN endpoints : endpoints[i].binding = "SOAP" /\ endpoints[i].index # {}
  /\ \A i, j \in DOMAIN endpoints : endpoints[i].index = endpoints[j].index => i = j

build_idp_entity_descriptor(p) ==
  EntityDescriptor(p,
    md("IDPSSODescriptor",
       <<At("protocolSupportEnumeration", SAMLP_NS),
         At("WantAuthnRequestsSigned", bool_str(p.want_authn_requests_signed))>>,
       KeyDescriptors(p) \o Formats(p) \o Each(build_sso_endpoint, p.sso) \o Each(build_slo_endpoint, p.slo)
         \o Each(build_artifact_resolution_endpoint, p.artifact_resolution)))

build_member(p) == IF p.role = "idp" THEN build_idp_entity_descriptor(p) ELSE build_sp_entity_descriptor(p)
MemberOk(p) == p.role = "idp" => validate_artifact_resolution_endpoints(p.artifact_resolution)

(* The aggregate and each of its members have an ID.                         *)
build_entities_descriptor(p) ==
  Built(MD_NS, "EntitiesDescriptor", MdNamespaces,
        <<At("ID", p.id)>> \o OptAt("Name", p.name) \o Validity(p), Each(build_member, p.members))

(* Signed with exclusive canonicalization when there is a signer.            *)
emit_signed(e, signer) ==
  emit_element(IF signer = {} THEN e ELSE sign_element(e, The(signer), "exclusive", {}))

-----------------------------------------------------------------------------
(* Parsing.                                                                  *)

is_md_element(e, local) == e.ns = MD_NS /\ e.local = local

EndpointBindings == {"HTTP-Redirect", "HTTP-POST", "HTTP-Artifact", "SOAP"}

EndpointOk(e) ==
  /\ attribute(e, "Binding") # {} /\ attribute(e, "Binding") \subseteq EndpointBindings
  /\ attribute(e, "Location") # {}
  /\ \A text \in attribute(e, "index") : ParseU16(text) # {}
  /\ xs_bool_ok(attribute(e, "isDefault"))

parse_endpoint(e) ==
  [url |-> The(attribute(e, "Location")), binding |-> The(attribute(e, "Binding")),
   index |-> UNION {ParseU16(text) : text \in attribute(e, "index")},
   is_default |-> xs_bool(attribute(e, "isDefault"))]

ServicesOk(role, name) ==
  \A e \in ToSet(all_child_elements(role, MD_NS, name)) : EndpointOk(e)
Services(role, name) == Each(parse_endpoint, all_child_elements(role, MD_NS, name))

(* A key descriptor without a use serves both purposes.                      *)
KeyDescriptorsOk(role) ==
  \A e \in ToSet(all_child_elements(role, MD_NS, "KeyDescriptor")) :
    attribute(e, "use") \subseteq {"signing", "encryption"} /\ child_element(e, DS_NS, "KeyInfo") # {}

parse_key_descriptors(role, use) ==
  LET fit == SelectSeq(all_child_elements(role, MD_NS, "KeyDescriptor"),
                       LAMBDA e : attribute(e, "use") \in {{}, {use}})
      certs(e) == X509Certificates(The(child_element(e, DS_NS, "KeyInfo")))
      all == FlattenSeq([i \in DOMAIN fit |-> certs(fit[i])])
  IN  [i \in DOMAIN all |-> Word(text_content(all[i]))]

parse_name_id_formats(role) ==
  LET inked == SelectSeq(all_child_elements(role, MD_NS, "NameIDFormat"),
                         LAMBDA e : trim(text_content(e)) # <<>>)
  IN  [i \in DOMAIN inked |-> from_uri(Word(trim(text_content(inked[i]))))]

(* A role's own validity comes before the entity's.                          *)
Duration(e) == UNION {parse_xs_duration(text) : text \in attribute(e, "cacheDuration")}
ValidityOk(e) == /\ InstantOk(e, "validUntil")
                 /\ attribute(e, "cacheDuration") = {} \/ Duration(e) # {}
Or(first, second) == IF first # {} THEN first ELSE second

Common(entity, role) ==
  [entity_id |-> The(attribute(entity, "entityID")),
   signing_certs |-> parse_key_descriptors(role, "signing"),
   encryption_certs |-> parse_key_descriptors(role, "encryption"),
   name_id_formats |-> parse_name_id_formats(role),
   slo |-> Services(role, "SingleLogoutService"),
   valid_until |-> Or(Instant(role, "validUntil"), Instant(entity, "validUntil")),
   cache_duration |-> Or(Duration(role), Duration(entity))]

CommonOk(entity, role) ==
  /\ attribute(entity, "entityID") # {} /\ ValidityOk(entity) /\ ValidityOk(role)
  /\ KeyDescriptorsOk(role) /\ ServicesOk(role, "SingleLogoutService")

idp_descriptor(entity, role) ==
  IF /\ CommonOk(entity, role) /\ xs_bool_ok(attribute(role, "WantAuthnRequestsSigned"))
     /\ ServicesOk(role, "SingleSignOnService") /\ ServicesOk(role, "ArtifactResolutionService")
     /\ validate_artifact_resolution_endpoints(Services(role, "ArtifactResolutionService"))
  THEN {[common |-> Common(entity, role), sso |-> Services(role, "SingleSignOnService"),
         artifact_resolution |-> Services(role, "ArtifactResolutionService"),
         want_authn_requests_signed |-> xs_bool(attribute(role, "WantAuthnRequestsSigned"))]}
  ELSE {}

parse_discovery_response_extensions(role) ==
  LET found == {all_child_elements(x, IDPDISC_NS, "DiscoveryResponse") :
                  x \in child_element(role, MD_NS, "Extensions")}
  IN  IF found = {} THEN <<>> ELSE The(found)

DiscoveryOk(e) ==
  /\ attribute(e, "Binding") = {IDPDISC_NS} /\ attribute(e, "Location") # {}
  /\ \E text \in attribute(e, "index") : ParseU16(text) # {}
  /\ xs_bool_ok(attribute(e, "isDefault"))

DiscoveryEndpoint(e) ==
  [url |-> The(attribute(e, "Location")), index |-> The(ParseU16(The(attribute(e, "index")))),
   is_default |-> xs_bool(attribute(e, "isDefault"))]

(* A consumer service answers over POST or Artifact only.                    *)
sp_descriptor(entity, role) ==
  LET acs == Services(role, "AssertionConsumerService")
      discovery == parse_discovery_response_extensions(role)
  IN  IF /\ CommonOk(entity, role) /\ xs_bool_ok(attribute(role, "AuthnRequestsSigned"))
         /\ xs_bool_ok(attribute(role, "WantAssertionsSigned"))
         /\ ServicesOk(role, "AssertionConsumerService")
         /\ \A i \in DOMAIN acs : acs[i].binding \in SsoResponseBindings
         /\ \A i \in DOMAIN discovery : DiscoveryOk(discovery[i])
      THEN {[common |-> Common(entity, role), acs |-> acs,
             authn_requests_signed |-> xs_bool(attribute(role, "AuthnRequestsSigned")),
             want_assertions_signed |-> xs_bool(attribute(role, "WantAssertionsSigned")),
             discovery |-> Each(DiscoveryEndpoint, discovery)]}
      ELSE {}

(* MetadataEntry: the roles the entity has, possibly both or neither.        *)
parse_entity_descriptor(entity) ==
  LET idps == child_element(entity, MD_NS, "IDPSSODescriptor")
      sps == child_element(entity, MD_NS, "SPSSODescriptor")
      idp == UNION {idp_descriptor(entity, role) : role \in idps}
      sp == UNION {sp_descriptor(entity, role) : role \in sps}
  IN  IF (idps # {} => idp # {}) /\ (sps # {} => sp # {})
      THEN {[idp |-> idp, sp |-> sp]} ELSE {}

(* The entities in document order, through nested wrappers.                  *)
RECURSIVE entity_elements(_)
entity_elements(e) ==
  CASE is_md_element(e, "EntityDescriptor") -> <<e>>
    [] is_md_element(e, "EntitiesDescriptor") -> FlattenSeq(Each(entity_elements, child_elements(e)))
    [] OTHER -> <<>>

collect_entities(e) ==
  LET all == entity_elements(e) IN
  IF \A i \in DOMAIN all : parse_entity_descriptor(all[i]) # {}
  THEN {[i \in DOMAIN all |-> The(parse_entity_descriptor(all[i]))]} ELSE {}

from_root_element(e) ==
  IF is_md_element(e, "EntityDescriptor") \/ is_md_element(e, "EntitiesDescriptor")
  THEN {[name |-> IF e.local = "EntitiesDescriptor" THEN attribute(e, "Name") ELSE {},
         valid_until |-> Instant(e, "validUntil"), entities |-> all] :
          all \in {c \in collect_entities(e) : InstantOk(e, "validUntil")}}
  ELSE {}

(* The signature must be by the trusted key and cover the root.              *)
verify_metadata_signature_on_document(doc, trusted) ==
  \E signature \in child_element(root(doc), DS_NS, "Signature") :
    verify_signature_with(doc, signature.id, trusted, C14nAlgorithms) = {<<>>}

SignedDescriptor(doc, trusted) ==
  IF Parsed(doc) /\ verify_metadata_signature_on_document(doc, trusted)
  THEN from_root_element(root(doc)) ELSE {}
parse_signed_entities_descriptor(xml, trusted) == SignedDescriptor(parse(xml, Limits), trusted)

-----------------------------------------------------------------------------
(* Lookups: the first entry that fits.                                       *)

FirstOf(seq, fits(_)) ==
  LET hits == {i \in DOMAIN seq : fits(seq[i])} IN IF hits = {} THEN {} ELSE {seq[Min(hits)]}

entity_id(entry) == {d.common.entity_id : d \in entry.idp} \cup {d.common.entity_id : d \in entry.sp}
by_entity_id(entries, id) == FirstOf(entries, LAMBDA e : id \in entity_id(e))
find_idp(entries, id) ==
  UNION {e.idp : e \in FirstOf(entries, LAMBDA e : \E d \in e.idp : d.common.entity_id = id)}
find_sp(entries, id) ==
  UNION {e.sp : e \in FirstOf(entries, LAMBDA e : \E d \in e.sp : d.common.entity_id = id)}

DefaultOrFirst(endpoints) ==
  LET marked == FirstOf(endpoints, LAMBDA e : e.is_default) IN
  IF marked # {} THEN marked ELSE FirstOf(endpoints, LAMBDA e : TRUE)

default_acs(sp) == DefaultOrFirst(sp.acs)
acs_endpoint_by_index(sp, index) == FirstOf(sp.acs, LAMBDA e : e.index = {index})
acs_endpoint_by_url(sp, url) == FirstOf(sp.acs, LAMBDA e : e.url = url)
-----------------------------------------------------------------------------
(* Metadata read one entity at a time (src/metadata/parse.rs,                *)
(* stream_entity_elements): the reader's events are followed by raw local    *)
(* names, each entity is lifted out into a tree builder seeded with the      *)
(* declarations of the wrappers around it, and handed to the visitor.        *)

(* frames: the wrappers open, with the depth each sits at; capture: where    *)
(* the entity being lifted out began; visited: what the visitor has seen.    *)
StreamStart ==
  [frames |-> <<>>, root_seen |-> FALSE, aggregate |-> FALSE, depth |-> 0, capture |-> {},
   builder |-> {}, visited |-> <<>>, done |-> FALSE, error |-> ""]

Frame(tag, depth) == [decls |-> tag.decls, depth |-> depth]

(* A mutant: a declaration of an outer wrapper is not replaced.              *)
OutermostWins(frames) ==
  FoldLeft(LAMBDA seed, frame :
             seed \o SelectSeq(frame.decls, LAMBDA d : ~\E i \in DOMAIN seed : seed[i][1] = d[1]),
           <<>>, frames)

(* The innermost declaration of each prefix.                                 *)
Seed(frames) ==
  MergeAll(<<>>, FlattenSeq([i \in DOMAIN frames |-> frames[i].decls]))

new_entity_builder(frames) == with_seed_scope(Seed(frames))

(* An entity begins: the builder is fed its start tag.                       *)
feed_open(s, event) ==
  [s EXCEPT !.capture = {s.depth}, !.builder = {feed(new_entity_builder(s.frames), event, Limits)}]

OnStart(s, event) ==
  LET local == event.name.local
      entered == CASE s.capture # {} -> s
                   [] local = "EntityDescriptor" -> feed_open(s, event)
                   [] local = "EntitiesDescriptor" ->
                        [s EXCEPT !.frames = Append(@, Frame(event, s.depth))]
                   [] OTHER -> s
      wrapper == local \in {"EntitiesDescriptor", "EntityDescriptor"}
  IN  IF ~s.root_seen /\ ~wrapper THEN [s EXCEPT !.error = "root is not metadata"]
      ELSE [entered EXCEPT !.depth = @ + 1, !.root_seen = TRUE,
                           !.aggregate = IF s.root_seen THEN @ ELSE local = "EntitiesDescriptor"]

OnEmpty(s, event) ==
  CASE s.root_seen -> s
    [] event.name.local \in {"EntitiesDescriptor", "EntityDescriptor"} -> [s EXCEPT !.done = TRUE]
    [] OTHER -> [s EXCEPT !.error = "root is not metadata"]

(* The entity is handed to the visitor, who stops after `wanted` entries.    *)
Visited(s, entry, wanted) ==
  IF entry = {} THEN [s EXCEPT !.error = "entity"]
  ELSE [s EXCEPT !.visited = Append(@, The(entry)), !.capture = {}, !.builder = {},
                 !.done = Len(s.visited) + 1 = wanted \/ ~s.aggregate]

(* The entity's end tag has been fed: its tree is finished and read.         *)
Visit(s, built, wanted) ==
  IF Parsed(built) THEN Visited(s, parse_entity_descriptor(root(built)), wanted)
  ELSE [s EXCEPT !.error = built.error]

(* A wrapper's frame goes with its end tag, but for the outermost one's.     *)
OnEnd(s, wanted) ==
  CASE s.capture = {s.depth} -> Visit(s, finish(The(s.builder)), wanted)
    [] s.capture = {} /\ Len(s.frames) > 1 /\ Last(s.frames).depth = s.depth ->
         [s EXCEPT !.frames = Front(@)]
    [] OTHER -> s

OnEvent(s, event, wanted) ==
  CASE \E b \in s.builder : ~Parsed(b) -> [s EXCEPT !.error = The(s.builder).error]
    [] event.ev = "Start" -> OnStart(s, event)
    [] event.ev = "Empty" -> OnEmpty(s, event)
    [] event.ev = "End"   -> OnEnd([s EXCEPT !.depth = @ - 1], wanted)
    [] event.ev = "Error" -> [s EXCEPT !.error = "malformed"]
    [] OTHER -> s

(* While an entity is lifted out every event goes to its builder first.      *)
StreamStep(s, event, wanted) ==
  IF s.done \/ s.error # "" THEN s
  ELSE OnEvent([s EXCEPT !.builder = {feed(b, event, Limits) : b \in @}], event, wanted)

RECURSIVE StreamFrom(_, _, _)
StreamFrom(s, events, wanted) ==
  IF events = <<>> THEN s
  ELSE StreamFrom(StreamStep(s, Head(events), wanted), Tail(events), wanted)

stream_entities(events, wanted) == StreamFrom(StreamStart, events, wanted)

(* The signed variant walks the verified tree instead.                       *)
Wanted(all, wanted) == IF wanted \in 1..Len(all) THEN SubSeq(all, 1, wanted) ELSE all
Entries(all) == IF {} \in ToSet(all) THEN {} ELSE {Each(The, all)}

SignedEntities(doc, trusted, wanted) ==
  IF Parsed(doc) /\ verify_metadata_signature_on_document(doc, trusted)
  THEN Entries(Each(parse_entity_descriptor, Wanted(entity_elements(root(doc)), wanted)))
  ELSE {}
stream_signed_entities(events, trusted, wanted) ==
  SignedEntities(parse(events, Limits), trusted, wanted)
-----------------------------------------------------------------------------
(* Identity provider discovery: the redirect to a discovery service and back *)
(* (src/disco/service.rs), and the common domain cookie (src/disco/cdc.rs).  *)
(* A URL is [site, path, userinfo, fragment, query]: site is its scheme,     *)
(* host and port, query a sequence of <<name, value>>. A text that should    *)
(* be a URL is a URL with site "" if it does not parse as an absolute one.   *)

DEFAULT_RETURN_ID_PARAM == "entityID"
POLICY_SINGLE == "single"
KnownParams == {"entityID", "return", "returnIDParam", "policy", "isPassive"}

(* Letters, digits, "_", "." and "-"; of the others two stand for all.       *)
ensure_safe_param_name(name) == name \notin {"", "a&b"}

ValuesOf(query, name) == SelectSeq(query, LAMBDA pair : pair[1] = name)
Given(query, name) == {pair[2] : pair \in ToSet(ValuesOf(query, name))}
Repeated(query, name) == Len(ValuesOf(query, name)) > 1
Appended(name, opt) == SetToSeq({<<name, value>> : value \in opt})

-----------------------------------------------------------------------------
(* The redirect to the service. request: [sp_entity_id, return_url,          *)
(* return_id_param, is_passive].                                             *)

build_discovery_request_url(service, request) ==
  IF \/ request.sp_entity_id = ""
     \/ \E name \in request.return_id_param : ~ensure_safe_param_name(name)
  THEN {}
  ELSE {[service EXCEPT !.fragment = {}, !.query = @
           \o Appended("entityID", {request.sp_entity_id})
           \o Appended("return", request.return_url)
           \o Appended("returnIDParam", request.return_id_param)
           \o Appended("isPassive", IF request.is_passive THEN {"true"} ELSE {})]}

ReturnIdParam(query) ==
  IF Given(query, "returnIDParam") = {} THEN {DEFAULT_RETURN_ID_PARAM} ELSE Given(query, "returnIDParam")

RequestRefused(query) ==
  \/ \E name \in KnownParams : Repeated(query, name)
  \/ Given(query, "entityID") \ {""} = {}
  \/ Given(query, "policy") \ {POLICY_SINGLE} # {}
  \/ \E name \in ReturnIdParam(query) : ~ensure_safe_param_name(name)
  \/ Given(query, "isPassive") \ {"true", "1", "false", "0"} # {}

parse_discovery_request_query(query) ==
  IF RequestRefused(query) THEN {}
  ELSE {[sp_entity_id |-> id, return_url |-> Given(query, "return"), return_id_param |-> param,
         is_passive |-> Given(query, "isPassive") \cap {"true", "1"} # {}] :
          id \in Given(query, "entityID"), param \in ReturnIdParam(query)}

-----------------------------------------------------------------------------
(* Where the service may send the user agent, by the endpoints the service   *)
(* provider registered, a sequence of [url, is_default].                     *)

default_discovery_response(endpoints) ==
  LET flagged == SelectSeq(endpoints, LAMBDA e : e.is_default)
      first(s) == {s[i] : i \in {1} \cap DOMAIN s}
  IN  IF flagged # <<>> THEN first(flagged) ELSE first(endpoints)

Absolute(url) == url.site # ""
same_endpoint(registered, candidate) ==
  <<registered.site, registered.path>> = <<candidate.site, candidate.path>>

ReturnOk(endpoints, candidate) ==
  /\ Absolute(candidate) /\ candidate.fragment = {} /\ candidate.userinfo = {}
  /\ \E e \in ToSet(endpoints) : Absolute(e.url) /\ same_endpoint(e.url, candidate)

validate_discovery_return_url(endpoints, request) ==
  IF request.return_url = {}
  THEN {e.url : e \in {e \in default_discovery_response(endpoints) : Absolute(e.url)}}
  ELSE {url \in request.return_url : ReturnOk(endpoints, url)}

build_discovery_response_url(return_url, return_id_param, chosen) ==
  IF ~ensure_safe_param_name(return_id_param) \/ "" \in chosen THEN {}
  ELSE {[return_url EXCEPT !.fragment = {}, !.query = @ \o Appended(return_id_param, chosen)]}

(* What the service chose, if anything; no result for a refused query.       *)
parse_discovery_response_query(query, return_id_param) ==
  IF ~ensure_safe_param_name(return_id_param) \/ Repeated(query, return_id_param) THEN {}
  ELSE {[chosen |-> Given(query, return_id_param) \ {""}]}

-----------------------------------------------------------------------------
(* The cookie. entity_ids is oldest first; an entity ID is [name, len]. The  *)
(* value is the sequence of the tokens between its spaces, a token           *)
(* <<"base64", id>> or text that does not decode.                            *)

TokenRefused(token) == token[1] # "base64" \/ token[2].len = 0

parse_cookie(value) ==
  LET tokens == SelectSeq(value, LAMBDA token : token # <<"text", "">>)
  IN  IF \E token \in ToSet(tokens) : TokenRefused(token) THEN {}
      ELSE {[i \in DOMAIN tokens |-> tokens[i][2]]}

most_recent(entity_ids) == IF entity_ids = <<>> THEN {} ELSE {Last(entity_ids)}

record(entity_ids, id) == Append(SelectSeq(entity_ids, LAMBDA existing : existing # id), id)

to_cookie_value(entity_ids) == [i \in DOMAIN entity_ids |-> <<"base64", entity_ids[i]>>]

(* Base64 writes four octets for three, and "%20" stands between the tokens. *)
EncodedLen(entity_ids) ==
  FoldLeft(LAMBDA sum, id : sum + 4 * ((id.len + 2) \div 3), 0, entity_ids)
  + IF entity_ids = <<>> THEN 0 ELSE 3 * (Len(entity_ids) - 1)

RECURSIVE truncate_to_fit(_, _)
truncate_to_fit(entity_ids, max_value_len) ==
  IF entity_ids = <<>> \/ EncodedLen(entity_ids) <= max_value_len THEN entity_ids
  ELSE truncate_to_fit(Tail(entity_ids), max_value_len)
=============================================================================
