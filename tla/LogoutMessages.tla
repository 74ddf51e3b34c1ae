-------------------------- MODULE LogoutMessages --------------------------
(***************************************************************************)
(* Single Logout messages: how the two roles build, sign and check them    *)
(* (src/src/sp.rs, src/src/idp.rs, src/src/logout).                        *)
(*                                                                         *)
(* A party is a record [entity, role : "sp" | "idp", slo : sequence of its *)
(* own endpoints [url, binding], sign_requests, sign_responses,            *)
(* want_requests, want_responses : BOOLEAN]; it signs with a key named by  *)
(* its entity ID. A message carries at most one enveloped signature, and,  *)
(* on the Redirect binding, at most one detached one over the query.       *)
(***************************************************************************)
EXTENDS Integers, Sequences, Signatures

Over(not_on_or_after, now, skew) == \E t \in not_on_or_after : t <= now - skew

(* slo_endpoint(binding): the first endpoint a descriptor lists for it.    *)
Endpoints(party, binding) ==
  {i \in DOMAIN party.slo : party.slo[i].binding = binding}

slo_endpoint(party, binding) ==
  party.slo[CHOOSE i \in Endpoints(party, binding) :
              \A j \in Endpoints(party, binding) : i <= j].url

SignedBy(party, on) ==
  IF on THEN {[cert |-> party.entity, covers |-> "Message", intact |-> TRUE]} ELSE {}

-----------------------------------------------------------------------------
(* Outbound. start_logout serves the front channel, send_soap_logout_      *)
(* request the back channel; both need the peer's endpoint.                *)

CanRequest(peer, binding) ==
  binding # "HttpArtifact" /\ Endpoints(peer, binding) # {}

(* Redirect signs the query string, POST and SOAP the XML.                 *)
LogoutRequest(from, to, binding, id) ==
  [kind |-> "LogoutRequest", id |-> id, in_response_to |-> {}, issuer |-> from.entity,
   destination |-> {slo_endpoint(to, binding)}, binding |-> binding,
   not_on_or_after |-> {}, status |-> [top |-> "none", second |-> {}],
   detached  |-> SignedBy(from, from.sign_requests /\ binding = "HttpRedirect"),
   enveloped |-> SignedBy(from, from.sign_requests /\ binding # "HttpRedirect")]

(* The two-level StatusCode of a LogoutStatus, and back again on receipt.  *)
LogoutStatus == {"Success", "PartialLogout", "RequestDenied", "Requester", "Responder"}

build_status(status) ==
  [top    |-> CASE status = "PartialLogout" -> "Responder"
                [] status = "RequestDenied" -> "Requester"
                [] OTHER -> status,
   second |-> {status} \cap {"PartialLogout", "RequestDenied"}]

(* Mutant: any second-level code passes for a partial logout.             *)
SecondLevelIsPartial(code) ==
  IF code.top = "Success" THEN "Success"
  ELSE IF code.second # {} THEN "PartialLogout" ELSE "Failure"

to_outcome(code) ==
  CASE code.top = "Success" -> "Success"
    [] code.top = "PartialLogout" \/ code.second = {"PartialLogout"} -> "PartialLogout"
    [] OTHER -> "Failure"

(* The SP's build_logout_response has no SOAP form.                        *)
CanRespond(from, to, binding) ==
  /\ Endpoints(to, binding) # {}
  /\ binding \in IF from.role = "sp" THEN {"HttpRedirect", "HttpPost"}
                                     ELSE {"HttpRedirect", "HttpPost", "Soap"}

(* The SP signs a Redirect response over its query string. The IdP signs   *)
(* the XML whatever the binding and sends the Redirect query unsigned.     *)
DetachedResponseSignature(from, binding) ==
  SignedBy(from, from.sign_responses /\ binding = "HttpRedirect" /\ from.role = "sp")

(* Mutant: the SP, too, signs nothing but its query strings.               *)
IdpEnvelopeOnly(from, binding) == SignedBy(from, from.sign_responses /\ from.role = "idp")

EnvelopedResponseSignature(from, binding) ==
  SignedBy(from, from.sign_responses /\ (binding # "HttpRedirect" \/ from.role = "idp"))

build_logout_response(from, to, request, status, binding) ==
  [kind |-> "LogoutResponse", id |-> request.id, in_response_to |-> {request.id},
   issuer |-> from.entity, destination |-> {slo_endpoint(to, binding)},
   binding |-> binding, not_on_or_after |-> {}, status |-> build_status(status),
   detached  |-> DetachedResponseSignature(from, binding),
   enveloped |-> EnvelopedResponseSignature(from, binding)]

-----------------------------------------------------------------------------
(* Inbound. A signature that is present must verify whether it is demanded *)
(* or not; Redirect looks at the detached one only, POST and SOAP at the   *)
(* enveloped one only.                                                     *)

(* Mutant: a POST body is searched for a detached signature.               *)
VerifyDetachedOnly(binding, detached, enveloped, certs, required) ==
     Reject(binding = "HttpArtifact", "UnsupportedByPeer")
  && Reject(required /\ detached = {}, "SignatureMissing")
  && VerifyPresent(detached, certs, "Message")

verify_inbound_signature(binding, detached, enveloped, certs, required) ==
  LET sigs == IF binding = "HttpRedirect" THEN detached ELSE enveloped IN
     Reject(binding = "HttpArtifact", "UnsupportedByPeer")
  && Reject(required /\ sigs = {}, "SignatureMissing")
  && VerifyPresent(sigs, certs, "Message")

(* Mutant: Destination is not compared.                                    *)
DestinationUnread(me, m, expected_destination) ==
  Reject(\A i \in DOMAIN me.slo : me.slo[i].url # expected_destination,
         "InvalidConfiguration")

DestinationCheck(me, m, expected_destination) ==
     Reject(\A i \in DOMAIN me.slo : me.slo[i].url # expected_destination,
            "InvalidConfiguration")
  && Reject(~(m.destination \subseteq {expected_destination}), "DestinationMismatch")

IssuerCheck(peer, m) == Reject(m.issuer # peer.entity, "IssuerMismatch")

(* The two roles make the same checks in a different order.                *)
EnvelopeChecks(me, peer, m, expected_destination) ==
  IF me.role = "sp"
    THEN DestinationCheck(me, m, expected_destination) && IssuerCheck(peer, m)
    ELSE IssuerCheck(peer, m) && DestinationCheck(me, m, expected_destination)

consume_logout_request(me, peer, m, expected_destination, now, skew) ==
     Reject(m.kind # "LogoutRequest", "XmlParse")
  && EnvelopeChecks(me, peer, m, expected_destination)
  && verify_inbound_signature(m.binding, m.detached, m.enveloped, {peer.entity},
                              me.want_requests)
  && Reject(Over(m.not_on_or_after, now, skew), "Expired")

(* Mutant: InResponseTo is not compared with the tracker.                  *)
ConsumeUncorrelated(me, peer, m, binding, detached, expected_destination, request_id) ==
     Reject(m.kind # "LogoutResponse", "XmlParse")
  && EnvelopeChecks(me, peer, m, expected_destination)
  && verify_inbound_signature(binding, detached, m.enveloped, {peer.entity},
                              me.want_responses)

(* `binding` and `detached` are the caller's account of how the message    *)
(* came in; `request_id` is the tracker's.                                 *)
consume_logout_response(me, peer, m, binding, detached, expected_destination, request_id) ==
     Reject(m.kind # "LogoutResponse", "XmlParse")
  && EnvelopeChecks(me, peer, m, expected_destination)
  && verify_inbound_signature(binding, detached, m.enveloped, {peer.entity},
                              me.want_responses)
  && Reject(m.in_response_to # {request_id}, "InResponseToMismatch")

(* The tail of send_soap_logout_request on the SP: no Destination check,   *)
(* and a signature nobody demanded may cover any part of the message.      *)
EmbeddedSignature(sigs, certs, required) ==
  IF required THEN VerifyRequired(sigs, certs, "Message")
  ELSE Reject(\E sig \in sigs : sig.cert \notin certs \/ ~sig.intact, "SignatureVerification")

consume_soap_reply(me, peer, m, request_id) ==
     Reject(m.kind # "LogoutResponse", "XmlParse")
  && IssuerCheck(peer, m)
  && Reject(m.in_response_to # {request_id}, "InResponseToMismatch")
  && EmbeddedSignature(m.enveloped, {peer.entity}, me.want_responses)

(* The IdP's send_soap_logout_request hands the reply to                   *)
(* consume_logout_response, with its own first endpoint as destination.    *)
consume_back_channel_reply(me, peer, m, request_id) ==
  IF me.role = "sp" THEN consume_soap_reply(me, peer, m, request_id)
  ELSE consume_logout_response(me, peer, m, "Soap", {}, me.slo[1].url, request_id)
=============================================================================
