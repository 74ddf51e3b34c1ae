------------------------------- MODULE Bindings -------------------------------
(* How serialized messages travel: the Redirect query with its detached      *)
(* signature (src/binding/redirect.rs), the POST form (src/binding/post.rs), *)
(* the decoder over both (src/binding/mod.rs), the SOAP envelope             *)
(* (src/binding/soap.rs) and the PAOS exchange (src/binding/ecp.rs).         *)
(* DEFLATE and base64 are wrappers that come off again; sizes are counted in *)
(* reader events.                                                            *)
EXTENDS XmlSignature, Messages

CONSTANTS Limits,        \* XmlLimits of every parse
          MaxDecoded     \* MAX_INFLATED_BYTES and MAX_DECODED_BYTES

-----------------------------------------------------------------------------
(* Redirect. A query is a sequence of <<name, raw value>>; a raw value is    *)
(* the spelling its percent-encoding uses and the value. This library spells *)
(* in one way, a peer may in another.                                        *)

ENCODE_SET == "upper case"
write_pct_pair(name, value) == <<name, <<ENCODE_SET, value>>>>
pct_decode(raw) == raw[2]

deflate_and_base64(xml) == <<"deflated", xml>>
inflate_capped(deflated) == IF Len(deflated[2]) <= MaxDecoded THEN {deflated[2]} ELSE {}

OptPair(name, opt) == IF opt = {} THEN <<>> ELSE <<write_pct_pair(name, The(opt))>>

(* The endpoint's own query comes first.                                     *)
append_query(destination, query) == destination.query \o query

encode_unsigned(destination, param_name, xml, relay_state) ==
  append_query(destination, <<write_pct_pair(param_name, deflate_and_base64(xml))>>
                              \o OptPair("RelayState", relay_state))

encode_signed(destination, param_name, xml, relay_state, sig_alg, key) ==
  LET signed_qs == <<write_pct_pair(param_name, deflate_and_base64(xml))>>
                     \o OptPair("RelayState", relay_state)
                     \o <<write_pct_pair("SigAlg", sig_alg)>>
  IN  append_query(destination, Append(signed_qs, write_pct_pair("Signature", Signed(key, signed_qs))))

(* The octets the signature covers are the sender's own spelling.            *)
SignedOctets(pairs) == pairs

(* The last pair of a name counts; the signed query is put together again in *)
(* the order the specification lays down, from the raw values.               *)
decode(query, param_name) ==
  LET of(name) == {i \in DOMAIN query : query[i][1] = name}
      raw(name) == {query[i][2] : i \in {j \in of(name) : \A k \in of(name) : k <= j}}
      value(name) == {pct_decode(v) : v \in raw(name)}
      pair(name) == IF raw(name) = {} THEN <<>> ELSE <<<<name, The(raw(name))>>>>
      xml == UNION {inflate_capped(v) : v \in value(param_name)}
  IN  IF xml = {} THEN {}
      ELSE {[xml |-> The(xml), relay_state |-> value("RelayState"),
             signature |-> value("Signature"), sig_alg |-> value("SigAlg"),
             signed_query_string |->
               IF of("Signature") = {} THEN {}
               ELSE {SignedOctets(pair(param_name) \o pair("RelayState") \o pair("SigAlg"))}]}

(* All three parts or no signature at all.                                   *)
as_detached_signature(decoded) ==
  {[signature |-> s, sig_alg |-> a, raw_query_string |-> q] :
     s \in decoded.signature, a \in decoded.sig_alg, q \in decoded.signed_query_string}

-----------------------------------------------------------------------------
(* POST.                                                                     *)

encode_request(xml, relay_state) ==
  [saml_request |-> {xml}, saml_response |-> {}, relay_state |-> relay_state]
encode_response(xml, relay_state) ==
  [saml_request |-> {}, saml_response |-> {xml}, relay_state |-> relay_state]
encode_sso_response(xml, relay_state) == [saml_response |-> {xml}, relay_state |-> relay_state]

decode_post(value, relay_state) ==
  IF Len(value) <= MaxDecoded
  THEN {[xml |-> value, relay_state |-> relay_state, signature |-> {}, sig_alg |-> {},
         signed_query_string |-> {}]}
  ELSE {}

(* SOAP and artifacts are not decoded here.                                  *)
decode_wire(body, binding, param_name) ==
  CASE binding = "HTTP-Redirect" -> decode(body, param_name)
    [] binding = "HTTP-POST"     -> decode_post(body, {})
    [] OTHER                     -> {}

-----------------------------------------------------------------------------
(* SOAP.                                                                     *)

soap(local, children) == Elem(SOAP_NS, local, <<>>, children)
Envelope(children) == emit_element(Built(SOAP_NS, "Envelope", <<<<"soap", SOAP_NS>>>>, <<>>, children))

wrap_element(payload) == Envelope(<<soap("Body", <<payload>>)>>)
wrap_with_header(blocks, payload) == Envelope(<<soap("Header", blocks), soap("Body", <<payload>>)>>)

(* A payload is parsed and grafted into an envelope.                         *)
Grafted(doc, envelope(_)) == IF Parsed(doc) THEN envelope(root(doc)) ELSE <<Broken>>
wrap(xml) == Grafted(parse(xml, Limits), wrap_element)

IsEnvelope(e) == e.ns = SOAP_NS /\ e.local = "Envelope"

(* Its body is there and has one payload, which is not a fault.              *)
CheckedBody(doc, body) ==
  CASE body = {} -> Fail(doc, "missing soap:Body")
    [] child_element(The(body), SOAP_NS, "Fault") # {} -> Fail(doc, "SoapFault")
    [] Len(child_elements(The(body))) # 1 -> Fail(doc, "not one payload")
    [] OTHER -> doc

CheckedEnvelope(doc) ==
  CASE ~Parsed(doc) -> doc
    [] ~IsEnvelope(root(doc)) -> Fail(doc, "not an envelope")
    [] OTHER -> CheckedBody(doc, child_element(root(doc), SOAP_NS, "Body"))

unwrap_envelope(events) == CheckedEnvelope(parse(events, Limits))

header_blocks(doc, ns, local) ==
  LET header == child_element(root(doc), SOAP_NS, "Header") IN
  IF header = {} THEN <<>> ELSE all_child_elements(The(header), ns, local)

body_payload(doc) == child_elements(The(child_element(root(doc), SOAP_NS, "Body")))[1]
body_payload_xml(doc) == emit_element(body_payload(doc))

(* unwrap: the payload, serialized alone and parsed again as a document of   *)
(* its own, so that it is canonicalized as its signer had it.                *)
Rerooted(doc) == IF Parsed(doc) THEN parse(body_payload_xml(doc), Limits) ELSE doc
unwrap(events) == Rerooted(unwrap_envelope(events))
-----------------------------------------------------------------------------
(* The Enhanced Client or Proxy profile (src/binding/ecp.rs): the service    *)
(* provider's PAOS envelope, the client between the two parties, and the     *)
(* identity provider's answer. A step returns a set: its result, or nothing  *)
(* when it refuses.                                                          *)

PAOS_NS == "paos-ns"
ECP_NS  == "ecp-ns"
PAOS_BINDING == "PAOS"
SOAP_ACTOR_NEXT == "actor-next"

soap_attr(local, value) == [At(local, value) EXCEPT !.ns = SOAP_NS]
MustUnderstand == <<soap_attr("mustUnderstand", "1"), soap_attr("actor", SOAP_ACTOR_NEXT)>>
paos(local, attrs) == Built(PAOS_NS, local, <<<<"paos", PAOS_NS>>>>, attrs, <<>>)
ecp(local, attrs, children) == Built(ECP_NS, local, <<<<"ecp", ECP_NS>>>>, attrs, children)

IsSamlp(e, local) == e.ns = SAMLP_NS /\ e.local = local

(* The envelope of which there is at most one trust-bearing header block and *)
(* whose payload is the message expected; the block if it has the attributes.*)
HeaderIn(doc, ns, block, attrs, payload) ==
  LET blocks == header_blocks(doc, ns, block) IN
  IF /\ Parsed(doc) /\ Len(blocks) = 1
     /\ \A name \in attrs : attribute(blocks[1], name) # {}
     /\ IsSamlp(body_payload(doc), payload)
  THEN {[block |-> blocks[1], xml |-> body_payload_xml(doc)]} ELSE {}

HeaderOf(events, ns, block, attrs, payload) ==
  HeaderIn(unwrap_envelope(events), ns, block, attrs, payload)

-----------------------------------------------------------------------------
(* The service provider. p: [message_id, request, response_consumer_url,     *)
(* is_passive, provider_name], the request naming its ACS by URL.            *)

set_protocol_binding_paos(e) == [e EXCEPT !.attrs = Append(@, At("ProtocolBinding", PAOS_BINDING))]

build_ecp_authn_request(p) ==
  LET authn == set_protocol_binding_paos(build_authn_request_element(p.request))
      paos_request == paos("Request", MustUnderstand \o
                        <<At("responseConsumerURL", p.response_consumer_url),
                          At("service", ECP_NS), At("messageID", p.message_id)>>)
      issuer == [Issuer(Chars(p.request.issuer)) EXCEPT !.decls = <<<<"saml", SAML_NS>>>>]
      ecp_request == ecp("Request", MustUnderstand
                           \o (IF p.request.is_passive THEN <<At("IsPassive", "1")>> ELSE <<>>)
                           \o OptAt("ProviderName", p.provider_name), <<issuer>>)
  IN  wrap_with_header(<<paos_request, ecp_request>>, authn)

consume_paos_response(envelope, expected_message_id) ==
  {h.xml : h \in {g \in HeaderOf(envelope, PAOS_NS, "Response", {"refToMessageID"}, "Response") :
                    attribute(g.block, "refToMessageID") = {expected_message_id}}}

-----------------------------------------------------------------------------
(* The client.                                                               *)

parse_sp_request(envelope) ==
  {[response_consumer_url |-> The(attribute(h.block, "responseConsumerURL")),
    message_id |-> The(attribute(h.block, "messageID")), authn_request_xml |-> h.xml] :
     h \in HeaderOf(envelope, PAOS_NS, "Request", {"responseConsumerURL", "messageID"}, "AuthnRequest")}

relay_request_to_idp(xml) == wrap(xml)

parse_idp_response(envelope) ==
  {[assertion_consumer_service_url |-> The(attribute(h.block, "AssertionConsumerServiceURL")),
    response_xml |-> h.xml] :
     h \in HeaderOf(envelope, ECP_NS, "Response", {"AssertionConsumerServiceURL"}, "Response")}

build_acs_mismatch_fault ==
  wrap_element(soap("Fault", <<TextElem("", "faultcode", Chars("soap:Client")),
                               TextElem("", "faultstring", Chars("withheld"))>>))

PaosEnvelope(sp_request, payload) ==
  wrap_with_header(<<paos("Response", <<soap_attr("actor", SOAP_ACTOR_NEXT),
                                        At("refToMessageID", sp_request.message_id)>>)>>, payload)

(* The assertion is delivered only where the service provider asked for it;  *)
(* otherwise a fault goes there.                                             *)
build_paos_post(sp_request, idp_response) ==
  IF sp_request.response_consumer_url # idp_response.assertion_consumer_service_url
  THEN build_acs_mismatch_fault
  ELSE Grafted(parse(idp_response.response_xml, Limits), LAMBDA e : PaosEnvelope(sp_request, e))

-----------------------------------------------------------------------------
(* The identity provider.                                                    *)

PayloadXml(doc, local) ==
  IF Parsed(doc) /\ IsSamlp(root(doc), local) THEN {emit_element(root(doc))} ELSE {}
parse_ecp_authn_request(envelope) == PayloadXml(unwrap(envelope), "AuthnRequest")

EcpEnvelope(acs_url, doc) ==
  LET ecp_response == ecp("Response", Append(MustUnderstand,
                            At("AssertionConsumerServiceURL", acs_url)), <<>>)
  IN  IF Parsed(doc) /\ IsSamlp(root(doc), "Response")
      THEN {wrap_with_header(<<ecp_response>>, root(doc))} ELSE {}
build_ecp_response(acs_url, response_xml) == EcpEnvelope(acs_url, parse(response_xml, Limits))
=============================================================================
