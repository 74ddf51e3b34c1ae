------------------------------- MODULE Delivery -------------------------------
(* Documents from the party that builds them to the party that reads them:   *)
(* built, signed, serialized, carried by a binding, parsed, verified, gated  *)
(* and read. A state holds a job and, once it is done, what came of it.      *)
EXTENDS Metadata, XmlEncryption

VARIABLES job,        \* the document to deliver, if the state has one
          outcome     \* what its reader got, once it is delivered

(* The signatures that stand directly under an element, and whether one of   *)
(* them was made with the key and covers just that element.                  *)
SignedBy(doc, e, key) ==
  \E signature \in child_element(e, DS_NS, "Signature") :
    verify_signature_with(doc, signature.id, key, {"exclusive"}) = {e.id}

Sign(e, signer) == IF signer = {} THEN e ELSE sign_element(e, The(signer), "exclusive", {})

(* A message in a SOAP envelope is read after it is unwrapped, one in a form *)
(* after it is decoded; what it parses to, if it does.                       *)
Decoded(wire) == {parse(d.xml, Limits) : d \in wire}
Arrived(xml, carrier) ==
  {doc \in IF carrier = "SOAP" THEN {unwrap(xml)} ELSE Decoded(decode_wire(xml, carrier, "SAMLResponse")) :
     Parsed(doc)}

-----------------------------------------------------------------------------
(* Responses. j: [kind, carrier, assertion, id, status, assertion_signer,    *)
(* response_signer].                                                         *)

ResponseAround(j, held) ==
  LET p == j.assertion IN
  Sign(build_response(j.id, p.idp, p.acs, p.in_response_to, p.instants.now, j.status, held),
       j.response_signer)

SignedAssertion(j) == Sign(build_assertion(j.assertion), j.assertion_signer)
ResponseElement(j) ==
  ResponseAround(j, IF j.status.code = "Success" THEN <<SignedAssertion(j)>> ELSE <<>>)

(* held: the assertions in it, each with the document it is verified in.     *)
ReadHolding(doc, held) ==
  [response |-> parse_response(root(doc)), assertion |-> UNION {parse_assertion(h[2]) : h \in held},
   response_signed |-> SignedBy(doc, root(doc), "k1"),
   assertion_signed |-> \E h \in held : SignedBy(h[1], h[2], "k1")]

Clear(doc) == {<<doc, a>> : a \in child_element(root(doc), SAML_NS, "Assertion")}
ReadResponse(doc) == ReadHolding(doc, Clear(doc))

ResponseXml(j, e) ==
  IF j.carrier = "SOAP" THEN wrap_element(e)
  ELSE The(encode_sso_response(emit_element(e), {}).saml_response)

DeliverResponse(j) ==
  IF ~ensure_name_id_sp_qualifier(j.assertion.name_id, j.assertion.sp) THEN {}
  ELSE {ReadResponse(doc) : doc \in Arrived(ResponseXml(j, ResponseElement(j)), j.carrier)}

(* An encrypted one. j adds [sp_certs, when_possible, force,                 *)
(* data_algorithm, transport, keys, policy, weak_algos]: what the identity   *)
(* provider encrypts for and with, and what the service provider opens with. *)
should_encrypt(j) ==
  IF j.force # {} THEN The(j.force) ELSE j.when_possible /\ encryption_cert(j.sp_certs) # {}

HeldByIssuer(j) ==
  IF ~should_encrypt(j) THEN {SignedAssertion(j)}
  ELSE UNION {encrypt_assertion(SignedAssertion(j), cert, j.data_algorithm, j.transport, j.weak_algos) :
                cert \in encryption_cert(j.sp_certs)}

(* Another implementation declares the digest and the mask it used, or does  *)
(* not when they are the standard's defaults, folds its base64 into lines,   *)
(* and may encrypt the identifier alone, before it signs. j.peer: [digest,   *)
(* mgf1, part].                                                              *)
PeerPadding(j) ==
  IF j.transport = "rsa-1_5" THEN <<>>
  ELSE <<IF j.peer.digest = {} THEN "sha1" ELSE The(j.peer.digest),
         IF j.peer.mgf1 = {} THEN "sha1" ELSE The(j.peer.mgf1)>>

PeerEncrypted(j, local, e) ==
  build_encrypted_element(local, j.data_algorithm,
    key_encryption_method(j.transport, j.peer.digest, j.peer.mgf1),
    Blank \o wrap_session_key(The(j.sp_certs), PeerPadding(j), SessionKey(j.data_algorithm)),
    encrypt_data(j.data_algorithm, SessionKey(j.data_algorithm), emit_element(e)) \o Blank)

WithEncryptedId(j, e) ==
  LET seal(n) == IF n.kind = "element" /\ n.local = "NameID"
                 THEN PeerEncrypted(j, "EncryptedID", clone_with_namespace(n, <<"saml", SAML_NS>>)) ELSE n
      sealed(n) == IF n.kind = "element" /\ n.local = "Subject"
                   THEN [n EXCEPT !.children = [i \in DOMAIN @ |-> seal(@[i])]] ELSE n
  IN  [e EXCEPT !.children = [i \in DOMAIN @ |-> sealed(@[i])]]

HeldByPeer(j) ==
  IF j.peer.part = "Assertion" THEN PeerEncrypted(j, "EncryptedAssertion", SignedAssertion(j))
  ELSE Sign(WithEncryptedId(j, build_assertion(j.assertion)), j.assertion_signer)

Opening(j, e) == decrypt_encrypted_element(e, j.keys, j.policy, j.weak_algos)

(* handle_encrypted: an assertion is verified in the document it decrypts to.*)
HeldIn(doc, j) ==
  Clear(doc) \cup UNION {{<<c, root(c)>> : c \in Opening(j, e)} :
                          e \in child_element(root(doc), SAML_NS, "EncryptedAssertion")}

(* The identifiers an assertion's subject decrypts to, if it has one to      *)
(* decrypt; that replaces the placeholder.                                   *)
EncryptedIds(assertion) ==
  UNION {child_element(s, SAML_NS, "EncryptedID") : s \in child_element(assertion, SAML_NS, "Subject")}
decrypt_subject_id(assertion, j) ==
  {parse_name_id(root(c)) : c \in {c \in UNION {Opening(j, e) : e \in EncryptedIds(assertion)} :
                                     root(c).ns = SAML_NS /\ root(c).local = "NameID"}}

Named(h, read, j) ==
  IF EncryptedIds(h[2]) = {} THEN {read}
  ELSE {[read EXCEPT !.name_id = n] : n \in decrypt_subject_id(h[2], j)}

ReadEncrypted(doc, j) ==
  LET held == HeldIn(doc, j) IN
  [ReadHolding(doc, held) EXCEPT !.assertion =
     UNION {UNION {Named(h, read, j) : read \in parse_assertion(h[2])} : h \in held}]

DeliverEncrypted(j, issued) ==
  UNION {{ReadEncrypted(doc, j) : doc \in Arrived(ResponseXml(j, ResponseAround(j, <<held>>)), j.carrier)} :
           held \in issued}

(* The PAOS exchange: the service provider's envelope, the client, the       *)
(* identity provider, the client again, the service provider. j adds         *)
(* [ecp, idp_acs, expected_message_id].                                      *)
EcpAnswer(j) ==
  {build_ecp_response(j.idp_acs, emit_element(ResponseElement(j))) :
     xml \in UNION {parse_ecp_authn_request(relay_request_to_idp(q.authn_request_xml)) :
                      q \in parse_sp_request(build_ecp_authn_request(j.ecp))}}

EcpPosts(requests, answers) == {build_paos_post(q, a) : q \in requests, a \in answers}

DeliverByEcp(j) ==
  LET posts == EcpPosts(parse_sp_request(build_ecp_authn_request(j.ecp)),
                        UNION {parse_idp_response(x) : x \in UNION EcpAnswer(j)})
  IN  {ReadResponse(parse(xml, Limits)) :
         xml \in UNION {consume_paos_response(post, j.expected_message_id) : post \in posts}}

-----------------------------------------------------------------------------
(* Requests and logout messages. j: [kind, type, message, carrier, signer,   *)
(* relay_state, destination, spelling].                                      *)

MessageElement(j) ==
  CASE j.type = "AuthnRequest"   -> build_authn_request_element(j.message)
    [] j.type = "LogoutRequest"  -> build_logout_request_element(j.message)
    [] j.type = "LogoutResponse" -> build_logout_response_element(j.message)

param_name(j) == IF j.type = "LogoutResponse" THEN "SAMLResponse" ELSE "SAMLRequest"

(* A peer spells percent-encodings its own way and puts the pairs of its     *)
(* query in its own order; its signature is over its own spelling.           *)
PeerQuery(j, xml) ==
  LET spelt(name, value) == <<name, <<"lower case", value>>>>
      payload == <<spelt(param_name(j), deflate_and_base64(xml))>>
      relay == IF j.relay_state = {} THEN <<>> ELSE <<spelt("RelayState", The(j.relay_state))>>
      alg == <<spelt("SigAlg", "rsa-sha256")>>
  IN  IF j.signer = {} THEN relay \o payload
      ELSE <<spelt("Signature", Signed(The(j.signer), payload \o relay \o alg))>> \o alg \o relay \o payload

RedirectQuery(j, xml) ==
  CASE j.spelling = "peer" -> PeerQuery(j, xml)
    [] j.signer = {}       -> encode_unsigned(j.destination, param_name(j), xml, j.relay_state)
    [] OTHER -> encode_signed(j.destination, param_name(j), xml, j.relay_state, "rsa-sha256", The(j.signer))

ReadMessage(doc, type) ==
  CASE type = "AuthnRequest"   -> parse_authn_request(root(doc))
    [] type = "LogoutRequest"  -> parse_logout_request(root(doc))
    [] type = "LogoutResponse" -> parse_logout_response(root(doc))

ReadAs(j, doc, relay_state, signed) ==
  [message |-> ReadMessage(doc, j.type), relay_state |-> relay_state, signed |-> signed]

DeliverByRedirect(j) ==
  {ReadAs(j, parse(d.xml, Limits), d.relay_state,
          \E s \in as_detached_signature(d) : s.signature = Signed("k1", s.raw_query_string)) :
     d \in decode_wire(RedirectQuery(j, emit_element(MessageElement(j))), "HTTP-Redirect", param_name(j))}

(* Where the signature is in the message.                                    *)
ReadSigned(j, doc, relay_state) ==
  IF Parsed(doc) THEN {ReadAs(j, doc, relay_state, SignedBy(doc, root(doc), "k1"))} ELSE {}

PostForm(j, xml) == IF j.type = "LogoutResponse" THEN encode_response(xml, j.relay_state)
                                                 ELSE encode_request(xml, j.relay_state)
ReadForm(j, form) ==
  UNION {ReadSigned(j, parse(d.xml, Limits), form.relay_state) :
           d \in decode_wire(The(form.saml_request \cup form.saml_response), "HTTP-POST", param_name(j))}

DeliverInBody(j, e) ==
  IF j.carrier = "SOAP" THEN ReadSigned(j, unwrap(wrap_element(e)), j.relay_state)
  ELSE ReadForm(j, PostForm(j, emit_element(e)))

DeliverMessage(j) ==
  IF j.carrier = "HTTP-Redirect" THEN DeliverByRedirect(j)
  ELSE DeliverInBody(j, Sign(MessageElement(j), j.signer))

-----------------------------------------------------------------------------
(* Metadata. j: [kind, root, signer]: an entity, an aggregate to publish or  *)
(* a federation's own document, a tree with the members it lists.            *)

MetadataElement(j) ==
  CASE j.root.role \in {"idp", "sp"} -> build_member(j.root)
    [] j.root.role = "aggregate"     -> build_entities_descriptor(j.root)
    [] j.root.role = "federation"    -> j.root.tree

Members(r) == IF r.role \in {"idp", "sp"} THEN <<r>> ELSE r.members

Streamed(s) == IF s.error = "" THEN {s.visited} ELSE {}
EagerRead(doc) == IF Parsed(doc) THEN from_root_element(root(doc)) ELSE {}

ReadMetadata(xml) ==
  [verified |-> parse_signed_entities_descriptor(xml, "k1"),
   eager |-> EagerRead(parse(xml, Limits)),
   stream |-> Streamed(stream_entities(xml, 0)), first |-> Streamed(stream_entities(xml, 1)),
   signed_stream |-> stream_signed_entities(xml, "k1", 0)]

DeliverMetadata(j) ==
  IF \E p \in ToSet(Members(j.root)) : ~MemberOk(p) THEN {}
  ELSE {ReadMetadata(emit_signed(MetadataElement(j), j.signer))}

-----------------------------------------------------------------------------
(* Canonicalization. j: [kind, events, path, alg, around]: a document as it  *)
(* is read, the element in it, and what the document may be put into.        *)

CanonicalOf(element, ancestors, form, j) ==
  [element |-> element, form |-> form, reread |-> parse(form, Limits).root,
   moved |-> canonicalize(element, <<j.around>> \o ancestors, j.alg, {})]

CanonicalIn(e, j) ==
  LET element == ElementAt(e, j.path)
      ancestors == ancestor_chain(e, j.path)
  IN  CanonicalOf(element, ancestors, canonicalize(element, ancestors, j.alg, {}), j)

DeliverCanonical(j) == {CanonicalIn(e, j) : e \in parse(j.events, Limits).root}

-----------------------------------------------------------------------------
(* Instants. j: [kind, text] or [kind, instant].                             *)

DeliverInstant(j) ==
  IF j.kind = "text" THEN parse_xs_datetime(j.text) ELSE parse_xs_datetime(format_xs_datetime(j.instant))

-----------------------------------------------------------------------------
(* Discovery. j: [kind, service, request, endpoints, chosen]; and the cookie *)
(* over the identity providers a user signs in at, each of which reads it,   *)
(* records itself and sets what fits: [kind, value, visits, max_value_len].  *)

AwaitedParam(request) ==
  IF request.return_id_param = {} THEN DEFAULT_RETURN_ID_PARAM ELSE The(request.return_id_param)

DiscoveryAnswers(j, asked) ==
  {[request |-> asked, to |-> back,
    read |-> parse_discovery_response_query(back.query, AwaitedParam(j.request))] :
     back \in UNION {build_discovery_response_url(url, asked.return_id_param, j.chosen) :
                       url \in validate_discovery_return_url(j.endpoints, asked)}}

DeliverDiscovery(j) ==
  UNION {UNION {DiscoveryAnswers(j, asked) : asked \in parse_discovery_request_query(url.query)} :
           url \in build_discovery_request_url(j.service, j.request)}

Recorded(value, id, max_value_len) ==
  {to_cookie_value(truncate_to_fit(record(ids, id), max_value_len)) : ids \in parse_cookie(value)}

DeliverCookie(j) ==
  LET visit(values, id) == UNION {Recorded(value, id, j.max_value_len) : value \in values}
      reread(values) == UNION {parse_cookie(value) : value \in values}
  IN  {[entity_ids |-> ids, most_recent |-> most_recent(ids)] :
         ids \in reread(FoldLeft(visit, {j.value}, j.visits))}

-----------------------------------------------------------------------------

WhatArrives(j) ==
  CASE j.kind = "response"          -> DeliverResponse(j)
    [] j.kind = "encrypted"         -> DeliverEncrypted(j, HeldByIssuer(j))
    [] j.kind = "peer encrypted"    -> DeliverEncrypted(j, {HeldByPeer(j)})
    [] j.kind = "ecp"               -> DeliverByEcp(j)
    [] j.kind = "message"           -> DeliverMessage(j)
    [] j.kind = "metadata"          -> DeliverMetadata(j)
    [] j.kind = "canonical"         -> DeliverCanonical(j)
    [] j.kind = "discovery"         -> DeliverDiscovery(j)
    [] j.kind = "cookie"            -> DeliverCookie(j)
    [] j.kind \in {"text", "clock"} -> DeliverInstant(j)

(* A document is delivered and read.                                         *)
Deliver == \E j \in job : /\ outcome = <<>>
                          /\ outcome' = <<WhatArrives(j)>>
                          /\ UNCHANGED job
=============================================================================
