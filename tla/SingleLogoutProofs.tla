------------------------- MODULE SingleLogoutProofs -------------------------
(***************************************************************************)
(* Proofs about SingleLogout for any number of parties, any configurations *)
(* in which entity IDs and endpoints are distinct, and any number of       *)
(* logouts with their messages repeated, reordered and misdelivered.       *)
(***************************************************************************)
EXTENDS SingleLogout, TLAPS, WellFoundedInduction

Ended == {"Success", "PartialLogout"}

-----------------------------------------------------------------------------
(* What the consumption of a message establishes.                          *)

LEMMA ConsumedRequest ==
  ASSUME NEW me, NEW peer, NEW m, NEW url,
         consume_logout_request(me, peer, m, url, 0, 0) = "Ok"
  PROVE  /\ m.kind = "LogoutRequest" /\ m.issuer = peer.entity
         /\ m.destination \subseteq {url}
BY DEF consume_logout_request, EnvelopeChecks, IssuerCheck, DestinationCheck, Reject, &&

LEMMA ConsumedResponse ==
  ASSUME NEW me, NEW peer, NEW m, NEW b, NEW d, NEW url, NEW id,
         consume_logout_response(me, peer, m, b, d, url, id) = "Ok"
  PROVE  m.kind = "LogoutResponse" /\ m.issuer = peer.entity /\ m.in_response_to = {id}
BY DEF consume_logout_response, EnvelopeChecks, IssuerCheck, DestinationCheck, Reject, &&

LEMMA ConsumedReply ==
  ASSUME NEW me, NEW peer, NEW m, NEW id,
         consume_back_channel_reply(me, peer, m, id) = "Ok"
  PROVE  m.kind = "LogoutResponse" /\ m.issuer = peer.entity /\ m.in_response_to = {id}
<1>1. CASE me.role = "sp"
  BY <1>1 DEF consume_back_channel_reply, consume_soap_reply, IssuerCheck, Reject, &&
<1>2. CASE me.role # "sp"
  BY <1>2, ConsumedResponse DEF consume_back_channel_reply
<1>3. QED
  BY <1>1, <1>2

(* No error is called Success or PartialLogout.                            *)
LEMMA ErrorsAreNotOutcomes ==
  ASSUME NEW me, NEW peer, NEW m, NEW b, NEW d, NEW url, NEW id
  PROVE  /\ consume_logout_response(me, peer, m, b, d, url, id) \notin Ended
         /\ consume_back_channel_reply(me, peer, m, id) \notin Ended
<1>1. \A x, y, z, w : verify_inbound_signature(x, y, z, w, me.want_responses) \notin Ended
  BY DEF verify_inbound_signature, VerifyPresent, Reject, &&, Ended
<1>2. \A u : EnvelopeChecks(me, peer, m, u) \notin Ended
  BY DEF EnvelopeChecks, IssuerCheck, DestinationCheck, Reject, &&, Ended
<1>3. \A x, y, u : consume_logout_response(me, peer, m, x, y, u, id) \notin Ended
  BY <1>1, <1>2 DEF consume_logout_response, Reject, &&, Ended
<1>4. consume_soap_reply(me, peer, m, id) \notin Ended
  BY DEF consume_soap_reply, EmbeddedSignature, VerifyRequired, VerifyPresent, IssuerCheck,
         Reject, &&, Ended
<1>5. QED
  BY <1>3, <1>4 DEF consume_back_channel_reply

(* Encoding a status and reading it back: only a logout passes for one.    *)
LEMMA StatusRoundTrip ==
  ASSUME NEW status \in LogoutStatus, to_outcome(build_status(status)) \in Ended
  PROVE  status \in Ended
<1>1. CASE status \in Ended
  BY <1>1
<1>2. CASE status \in {"RequestDenied", "Requester", "Responder"}
  <2>1. build_status(status).top \in {"Requester", "Responder"}
    BY <1>2 DEF build_status
  <2>2. build_status(status).second \subseteq {"RequestDenied"}
    BY <1>2 DEF build_status
  <2>3. to_outcome(build_status(status)) = "Failure"
    BY <2>1, <2>2 DEF to_outcome
  <2>4. QED
    BY <2>3 DEF Ended
<1>3. QED
  BY <1>1, <1>2 DEF LogoutStatus, Ended

-----------------------------------------------------------------------------
(* Endpoints.                                                              *)

(* The endpoint a message is addressed to is one of the addressee's own.   *)
LEMMA EndpointIsOwn ==
  ASSUME party \in Configurations, NEW n \in Name, NEW b, Endpoints(party[n], b) # {}
  PROVE  slo_endpoint(party[n], b) \in Urls(n)
<1> DEFINE E == Endpoints(party[n], b)
<1>1. DOMAIN party[n].slo \subseteq Nat
  <2>1. PICK S : party[n].slo \in Seq(S)
    BY SloAssumption
  <2>2. \A s \in Seq(S) : DOMAIN s \subseteq Nat
    OBVIOUS
  <2>3. QED
    BY <2>1, <2>2
<1>2. E \in SUBSET Nat /\ E \subseteq DOMAIN party[n].slo
  BY <1>1 DEF Endpoints
<1>3. \E i \in E : \A j \in E : i <= j
  <2>1. PICK i \in E : \A j \in E : <<j, i>> \notin OpToRel(<, Nat)
    BY <1>2, NatLessThanWellFounded, WFMin
  <2>2. \A j \in E : ~(j < i)
    BY <1>2, <2>1 DEF OpToRel
  <2>3. QED
    BY <1>2, <2>2
<1>4. (CHOOSE i \in E : \A j \in E : i <= j) \in DOMAIN party[n].slo
  BY <1>2, <1>3
<1>5. QED
  BY <1>4 DEF slo_endpoint, Urls

(* So a message that passes the destination check reached its addressee.   *)
LEMMA Addressee ==
  ASSUME party \in Configurations, NEW n \in Name, NEW p \in Name, NEW b,
         Endpoints(party[n], b) # {}, NEW url \in Urls(p),
         {slo_endpoint(party[n], b)} \subseteq {url}
  PROVE  p = n
<1>1. url \in Urls(n)
  BY EndpointIsOwn
<1>2. PICK i \in DOMAIN party[n].slo, j \in DOMAIN party[p].slo :
        party[n].slo[i].url = party[p].slo[j].url
  BY <1>1 DEF Urls
<1>3. QED
  BY <1>2, DistinctParties

-----------------------------------------------------------------------------
(* The inductive invariant. Nothing is on the wire but what the parties    *)
(* built: a request as its tracker describes it, a response on a request   *)
(* its issuer handled, reporting a logout only if the session was ended.   *)

Trackers ==
  \A id \in Request :
    /\ sent[id] = {} => outcome[id] = "none"
    /\ \A t \in sent[id] : /\ sent[id] = {t}
                           /\ t.from \in Name /\ t.peer \in Name
                           /\ party[t.from].role # party[t.peer].role

RequestMade(m) ==
  \E t \in sent[m.id] :
    /\ m.issuer = party[t.from].entity
    /\ Endpoints(party[t.peer], t.binding) # {}
    /\ m.destination = {slo_endpoint(party[t.peer], t.binding)}

ResponseMade(m) ==
  \E n, p \in Name, id \in Request :
    /\ m.issuer = party[n].entity /\ m.in_response_to = {id}
    /\ party[n].role # party[p].role
    /\ to_outcome(m.status) \in Ended => <<n, p, id>> \in ended
    /\ CanRespond(party[n], party[p], m.binding)
    /\ m.destination = {slo_endpoint(party[p], m.binding)}
    /\ m.detached = DetachedResponseSignature(party[n], m.binding)
    /\ m.enveloped = EnvelopedResponseSignature(party[n], m.binding)

WireMade ==
  \A m \in wire :
    /\ m.kind = "LogoutRequest" => m.id \in Request /\ RequestMade(m)
    /\ m.kind = "LogoutResponse" => ResponseMade(m)

Fixed == party \in Configurations /\ DOMAIN sent = Request /\ DOMAIN outcome = Request

LogoutInv == Fixed /\ Trackers /\ WireMade /\ EndedOnRequest /\ OutcomeTruthful

LEMMA InitLogoutInv == Init => LogoutInv
BY DEF Init, LogoutInv, Fixed, Trackers, WireMade, EndedOnRequest, OutcomeTruthful

(* No step unmakes a message: trackers and ended sessions are only added.  *)
LEMMA StaysMade ==
  ASSUME Fixed, WireMade, party' = party, NEW m \in wire,
         \A id \in Request : sent[id] \subseteq sent'[id], ended \subseteq ended'
  PROVE  /\ m.kind = "LogoutRequest" => m.id \in Request /\ RequestMade(m)'
         /\ m.kind = "LogoutResponse" => ResponseMade(m)'
<1>1. ASSUME m.kind = "LogoutRequest"
      PROVE  m.id \in Request /\ RequestMade(m)'
  BY <1>1 DEF WireMade, RequestMade
<1>2. ASSUME m.kind = "LogoutResponse"
      PROVE  ResponseMade(m)'
  <2>1. ResponseMade(m)
    BY <1>2 DEF WireMade
  <2>2. PICK n \in Name, p \in Name, id \in Request :
          /\ m.issuer = party[n].entity /\ m.in_response_to = {id}
          /\ party[n].role # party[p].role
          /\ to_outcome(m.status) \in Ended => <<n, p, id>> \in ended
          /\ CanRespond(party[n], party[p], m.binding)
          /\ m.destination = {slo_endpoint(party[p], m.binding)}
          /\ m.detached = DetachedResponseSignature(party[n], m.binding)
          /\ m.enveloped = EnvelopedResponseSignature(party[n], m.binding)
    BY <2>1 DEF ResponseMade
  <2>3. to_outcome(m.status) \in Ended => <<n, p, id>> \in ended'
    BY <2>2
  <2>4. QED
    BY <2>2, <2>3 DEF ResponseMade
<1>3. QED
  BY <1>1, <1>2

(* A logout is started: its request and its tracker agree.                 *)
LEMMA StartInv ==
  ASSUME LogoutInv, NEW id \in Request, NEW from \in Name, NEW to \in Name, NEW b \in Binding,
         StartLogout(id, from, to, b)
  PROVE  LogoutInv'
<1> DEFINE t == [from |-> from, peer |-> to, binding |-> b]
           m == LogoutRequest(party[from], party[to], b, id)
<1> USE DEF LogoutInv
<1>1. /\ sent[id] = {} /\ sent' = [sent EXCEPT ![id] = {t}] /\ wire' = wire \cup {m}
      /\ party[from].role # party[to].role /\ CanRequest(party[to], b)
      /\ party' = party /\ ended' = ended /\ outcome' = outcome
  BY DEF StartLogout
<1>2. t.from = from /\ t.peer = to /\ t.binding = b
  OBVIOUS
<1>3. DOMAIN sent' = Request /\ sent'[id] = {t}
      /\ \A q \in Request : q # id => sent'[q] = sent[q]
  BY <1>1 DEF Fixed
<1> HIDE DEF t
<1>4. Fixed'
  BY <1>1, <1>3 DEF Fixed
<1>5. Trackers'
  BY <1>1, <1>2, <1>3 DEF Trackers
<1>6. WireMade'
  <2>1. PICK new : new = m
    OBVIOUS
  <2>2. /\ new.kind = "LogoutRequest" /\ new.id = id /\ new.issuer = party[from].entity
        /\ new.destination = {slo_endpoint(party[to], b)}
    BY <2>1 DEF LogoutRequest
  <2>3. Endpoints(party[to], b) # {}
    BY <1>1 DEF CanRequest
  <2> HIDE DEF m
  <2>4. RequestMade(new)'
    <3>1. t \in sent'[new.id]
      BY <1>3, <2>2
    <3>2. /\ new.issuer = party'[t.from].entity
          /\ Endpoints(party'[t.peer], t.binding) # {}
          /\ new.destination = {slo_endpoint(party'[t.peer], t.binding)}
      BY <1>1, <1>2, <2>2, <2>3
    <3>3. QED
      BY <3>1, <3>2 DEF RequestMade
  <2>5. \A q \in Request : sent[q] \subseteq sent'[q]
    BY <1>1, <1>3
  <2>6. wire' = wire \cup {new}
    BY <1>1, <2>1
  <2>7. QED
    BY <1>1, <2>2, <2>4, <2>5, <2>6, StaysMade DEF WireMade
<1>7. EndedOnRequest'
  <2> SUFFICES ASSUME NEW e \in ended
               PROVE  \E u \in sent'[e[3]] : u.peer = e[1] /\ u.from = e[2]
    BY <1>1 DEF EndedOnRequest
  <2>1. PICK u \in sent[e[3]] : u.peer = e[1] /\ u.from = e[2]
    BY DEF EndedOnRequest
  <2>2. e[3] # id
    BY <1>1, <2>1
  <2>3. sent'[e[3]] = sent[e[3]]
    BY <1>1, <2>2 DEF Fixed
  <2>4. QED
    BY <2>1, <2>3
<1>8. OutcomeTruthful'
  <2>1. outcome[id] = "none"
    BY <1>1 DEF Trackers
  <2>2. QED
    BY <1>1, <1>3, <2>1 DEF OutcomeTruthful
<1>9. QED
  BY <1>4, <1>5, <1>6, <1>7, <1>8

(* A request is handled: only its addressee can end the session, and only  *)
(* the session with the party that sent it.                                *)
LEMMA RequestInv ==
  ASSUME LogoutInv, NEW me \in Name, NEW peer \in Name, NEW m \in wire, NEW status \in Status,
         NEW b \in Binding, NEW url \in Urls(me), HandleRequest(me, peer, m, url, status, b)
  PROVE  LogoutInv'
<1> DEFINE answer == build_logout_response(party[me], party[peer], m, status, b)
<1> USE DEF LogoutInv
<1>1. /\ party[me].role # party[peer].role
      /\ consume_logout_request(party[me], party[peer], m, url, 0, 0) = "Ok"
      /\ ended' = IF status \in Ended THEN ended \cup {<<me, peer, m.id>>} ELSE ended
      /\ party' = party /\ sent' = sent /\ outcome' = outcome
      /\ wire' = IF CanRespond(party[me], party[peer], b) THEN wire \cup {answer} ELSE wire
  BY DEF HandleRequest, Ended
<1>2. /\ m.kind = "LogoutRequest" /\ m.issuer = party[peer].entity
      /\ m.destination \subseteq {url}
  BY <1>1, ConsumedRequest
<1>3. m.id \in Request /\ RequestMade(m)
  BY <1>2 DEF WireMade
<1>4. PICK t \in sent[m.id] :
        /\ m.issuer = party[t.from].entity
        /\ Endpoints(party[t.peer], t.binding) # {}
        /\ m.destination = {slo_endpoint(party[t.peer], t.binding)}
  BY <1>3 DEF RequestMade
<1>5. t.from \in Name /\ t.peer \in Name
  BY <1>3, <1>4 DEF Trackers
<1>6. t.from = peer
  <2>1. party[t.from].entity = party[peer].entity
    BY <1>2, <1>4
  <2>2. QED
    BY <1>5, <2>1, DistinctParties DEF Fixed
<1>7. t.peer = me
  BY <1>2, <1>4, <1>5, Addressee DEF Fixed
<1>8. ended \subseteq ended'
  BY <1>1
<1>9. Fixed' /\ Trackers'
  BY <1>1 DEF Fixed, Trackers
<1>10. WireMade'
  <2>1. PICK new : new = answer
    OBVIOUS
  <2>2. /\ new.kind = "LogoutResponse" /\ new.issuer = party[me].entity
        /\ new.in_response_to = {m.id} /\ new.status = build_status(status)
        /\ new.binding = b /\ new.destination = {slo_endpoint(party[peer], b)}
        /\ new.detached = DetachedResponseSignature(party[me], b)
        /\ new.enveloped = EnvelopedResponseSignature(party[me], b)
    BY <2>1 DEF build_logout_response
  <2> HIDE DEF answer
  <2>3. to_outcome(new.status) \in Ended => <<me, peer, m.id>> \in ended'
    BY <1>1, <2>2, StatusRoundTrip, SloAssumption
  <2>4. CanRespond(party[me], party[peer], b) => ResponseMade(new)'
    BY <1>1, <1>3, <2>2, <2>3 DEF ResponseMade
  <2>5. wire' = IF CanRespond(party[me], party[peer], b) THEN wire \cup {new} ELSE wire
    BY <1>1, <2>1
  <2>6. QED
    BY <1>1, <1>8, <2>2, <2>4, <2>5, StaysMade DEF WireMade
<1>11. EndedOnRequest'
  <2> DEFINE new == <<me, peer, m.id>>
  <2>1. new[1] = me /\ new[2] = peer /\ new[3] = m.id
    OBVIOUS
  <2> HIDE DEF new
  <2>2. ended' \subseteq ended \cup {new}
    BY <1>1 DEF new
  <2>3. QED
    BY <1>1, <1>4, <1>6, <1>7, <2>1, <2>2 DEF EndedOnRequest
<1>12. OutcomeTruthful'
  BY <1>1, <1>8 DEF OutcomeTruthful
<1>13. QED
  BY <1>9, <1>10, <1>11, <1>12

(* A response is consumed: one that passes was made by the peer of the     *)
(* tracker on that tracker's request.                                      *)
LEMMA ConclusionInv ==
  ASSUME LogoutInv, NEW id \in Request, NEW t \in sent[id], NEW m \in wire, NEW verdict,
         verdict \notin Ended,
         verdict = "Ok" => /\ m.kind = "LogoutResponse" /\ m.issuer = party[t.peer].entity
                           /\ m.in_response_to = {id},
         Conclude(id, verdict, m), UNCHANGED <<party, sent, wire, ended>>
  PROVE  LogoutInv'
<1> USE DEF LogoutInv
<1>1. /\ DOMAIN outcome' = Request
      /\ outcome'[id] = IF verdict = "Ok" THEN to_outcome(m.status) ELSE verdict
      /\ \A q \in Request : q # id => outcome'[q] = outcome[q]
  BY DEF Conclude, Fixed
<1>2. Fixed' /\ EndedOnRequest'
  BY <1>1 DEF Fixed, EndedOnRequest
<1>3. Trackers'
  BY <1>1 DEF Trackers
<1>4. WireMade'
  BY StaysMade DEF WireMade
<1>5. OutcomeTruthful'
  <2>1. ASSUME outcome'[id] \in Ended, NEW u \in sent[id]
        PROVE  <<u.peer, u.from, id>> \in ended
    <3>1. /\ m.kind = "LogoutResponse" /\ m.issuer = party[t.peer].entity
          /\ m.in_response_to = {id} /\ to_outcome(m.status) \in Ended
      BY <1>1, <2>1
    <3>2. ResponseMade(m)
      BY <3>1 DEF WireMade
    <3>3. PICK n \in Name, p \in Name, q \in Request :
            /\ m.issuer = party[n].entity /\ m.in_response_to = {q}
            /\ <<n, p, q>> \in ended
      BY <3>1, <3>2 DEF ResponseMade
    <3>4. party[t.peer].entity = party[n].entity
      BY <3>1, <3>3
    <3>5. q = id
      BY <3>1, <3>3
    <3>6. u = t /\ t.peer \in Name
      BY <2>1 DEF Trackers
    <3>7. n = t.peer
      BY <3>4, <3>6, DistinctParties DEF Fixed
    <3>8. PICK v \in sent[id] : v.peer = n /\ v.from = p
      <4> DEFINE e == <<n, p, q>>
      <4>1. e[1] = n /\ e[2] = p /\ e[3] = q
        OBVIOUS
      <4> HIDE DEF e
      <4>2. e \in ended
        BY <3>3 DEF e
      <4>3. QED
        BY <3>5, <4>1, <4>2 DEF EndedOnRequest
    <3>9. v = t
      BY <3>8 DEF Trackers
    <3>10. QED
      BY <3>3, <3>5, <3>6, <3>7, <3>8, <3>9
  <2>2. QED
    BY <1>1, <2>1 DEF OutcomeTruthful, Ended
<1>6. QED
  BY <1>2, <1>3, <1>4, <1>5

LEMMA StepLogoutInv == LogoutInv /\ [Next]_vars => LogoutInv'
<1> SUFFICES ASSUME LogoutInv, [Next]_vars PROVE LogoutInv'
  OBVIOUS
<1>1. CASE \E id \in Request, from, to \in Name, b \in Binding : StartLogout(id, from, to, b)
  BY <1>1, StartInv
<1>2. CASE \E me, peer \in Name, m \in wire, status \in Status, b \in Binding :
             \E url \in Urls(me) : HandleRequest(me, peer, m, url, status, b)
  BY <1>2, RequestInv
<1>3. ASSUME NEW id \in Request, NEW m \in wire, NEW t \in sent[id], NEW url \in Urls(t.from),
             HandleResponse(id, t, m, url)
      PROVE  LogoutInv'
  <2> DEFINE verdict == consume_logout_response(party[t.from], party[t.peer], m, m.binding,
                                                m.detached, url, id)
  <2>1. Conclude(id, verdict, m) /\ UNCHANGED <<party, sent, wire, ended>>
    BY <1>3 DEF HandleResponse
  <2>2. verdict \notin Ended
    BY ErrorsAreNotOutcomes
  <2>3. verdict = "Ok" => /\ m.kind = "LogoutResponse" /\ m.issuer = party[t.peer].entity
                          /\ m.in_response_to = {id}
    BY ConsumedResponse
  <2> HIDE DEF verdict
  <2>4. QED
    BY <2>1, <2>2, <2>3, ConclusionInv
<1>4. ASSUME NEW id \in Request, NEW m \in wire, NEW t \in sent[id], HandleReply(id, t, m)
      PROVE  LogoutInv'
  <2> DEFINE verdict == consume_back_channel_reply(party[t.from], party[t.peer], m, id)
  <2>1. Conclude(id, verdict, m) /\ UNCHANGED <<party, sent, wire, ended>>
    BY <1>4 DEF HandleReply
  <2>2. verdict \notin Ended
    BY ErrorsAreNotOutcomes
  <2>3. verdict = "Ok" => /\ m.kind = "LogoutResponse" /\ m.issuer = party[t.peer].entity
                          /\ m.in_response_to = {id}
    BY ConsumedReply
  <2> HIDE DEF verdict
  <2>4. QED
    BY <2>1, <2>2, <2>3, ConclusionInv
<1>5. CASE UNCHANGED vars
  <2> USE <1>5 DEF vars, LogoutInv
  <2>1. Fixed' /\ Trackers' /\ EndedOnRequest' /\ OutcomeTruthful'
    BY DEF Fixed, Trackers, EndedOnRequest, OutcomeTruthful
  <2>2. WireMade'
    BY StaysMade DEF WireMade
  <2>3. QED
    BY <2>1, <2>2
<1>6. QED
  BY <1>1, <1>2, <1>3, <1>4, <1>5 DEF Next

LEMMA Invariance == Spec => []LogoutInv
BY InitLogoutInv, StepLogoutInv, PTL DEF Spec

(* An initiator is told of a complete logout only if the peer it addressed *)
(* ended its session with it on that very request (consume_logout_         *)
(* response), whatever is repeated, reordered or misdelivered.             *)
THEOREM LogoutOutcomeTruthful == Spec => []OutcomeTruthful
<1>1. LogoutInv => OutcomeTruthful
  BY DEF LogoutInv
<1>2. QED
  BY <1>1, Invariance, PTL

(* A party ends a session only on a request of that session's other side,  *)
(* addressed to it (consume_logout_request).                               *)
THEOREM LogoutEndedOnRequest == Spec => []EndedOnRequest
<1>1. LogoutInv => EndedOnRequest
  BY DEF LogoutInv
<1>2. QED
  BY <1>1, Invariance, PTL

-----------------------------------------------------------------------------
(* Signed in both directions. Which responses a party that signs can still *)
(* have refused as unsigned.                                               *)

LEMMA MissingInResponse ==
  ASSUME NEW me, NEW peer, NEW m, NEW b, NEW d, NEW url, NEW id,
         consume_logout_response(me, peer, m, b, d, url, id) = "SignatureMissing"
  PROVE  /\ m.kind = "LogoutResponse" /\ m.issuer = peer.entity
         /\ m.destination \subseteq {url} /\ me.want_responses
         /\ IF b = "HttpRedirect" THEN d = {} ELSE m.enveloped = {}
<1>1. \A x, y, z, w, v :
        verify_inbound_signature(x, y, z, w, v) = "SignatureMissing"
          => v /\ IF x = "HttpRedirect" THEN y = {} ELSE z = {}
  BY DEF verify_inbound_signature, VerifyPresent, Reject, &&
<1>2. /\ EnvelopeChecks(me, peer, m, url) # "SignatureMissing"
      /\ EnvelopeChecks(me, peer, m, url) = "Ok"
           => m.issuer = peer.entity /\ m.destination \subseteq {url}
  BY DEF EnvelopeChecks, IssuerCheck, DestinationCheck, Reject, &&
<1>3. QED
  BY <1>1, <1>2 DEF consume_logout_response, Reject, &&

LEMMA MissingInReply ==
  ASSUME NEW me, NEW peer, NEW m, NEW id,
         consume_back_channel_reply(me, peer, m, id) = "SignatureMissing"
  PROVE  m.kind = "LogoutResponse" /\ m.issuer = peer.entity /\ m.enveloped = {}
<1>1. CASE me.role = "sp"
  BY <1>1 DEF consume_back_channel_reply, consume_soap_reply, IssuerCheck,
              EmbeddedSignature, VerifyRequired, VerifyPresent, Reject, &&
<1>2. CASE me.role # "sp"
  BY <1>2, MissingInResponse DEF consume_back_channel_reply
<1>3. QED
  BY <1>1, <1>2

(* The one case left: an SP that demands signed responses has a Redirect   *)
(* endpoint, and the IdP answers it there.                                 *)
UnsignedRedirect(me, peer) ==
  /\ peer.role = "idp" /\ me.role = "sp" /\ me.want_responses
  /\ Endpoints(me, "HttpRedirect") # {}

MissingExplained ==
  \A id \in Request : \A t \in sent[id] :
    party[t.peer].sign_responses /\ outcome[id] = "SignatureMissing"
      => UnsignedRedirect(party[t.from], party[t.peer])

(* A response made by a signing peer that reads as unsigned.               *)
LEMMA UnsignedResponse ==
  ASSUME LogoutInv, NEW id \in Request, NEW t \in sent[id], NEW m \in wire,
         m.kind = "LogoutResponse", m.issuer = party[t.peer].entity,
         party[t.peer].sign_responses,
         IF m.binding = "HttpRedirect" THEN m.detached = {} ELSE m.enveloped = {}
  PROVE  /\ m.binding = "HttpRedirect" /\ party[t.peer].role # "sp"
         /\ \E p \in Name : /\ Endpoints(party[p], "HttpRedirect") # {}
                            /\ m.destination = {slo_endpoint(party[p], "HttpRedirect")}
<1>1. ResponseMade(m)
  BY DEF LogoutInv, WireMade
<1>2. PICK n \in Name, p \in Name :
        /\ m.issuer = party[n].entity
        /\ CanRespond(party[n], party[p], m.binding)
        /\ m.destination = {slo_endpoint(party[p], m.binding)}
        /\ m.detached = DetachedResponseSignature(party[n], m.binding)
        /\ m.enveloped = EnvelopedResponseSignature(party[n], m.binding)
  BY <1>1 DEF ResponseMade
<1>3. n = t.peer
  <2>1. party[n].entity = party[t.peer].entity /\ t.peer \in Name
    BY <1>2 DEF LogoutInv, Trackers
  <2>2. QED
    BY <2>1, DistinctParties DEF LogoutInv, Fixed
<1>4. m.binding = "HttpRedirect" /\ party[t.peer].role # "sp"
  BY <1>2, <1>3 DEF DetachedResponseSignature, EnvelopedResponseSignature, SignedBy
<1>5. QED
  BY <1>2, <1>4 DEF CanRespond

LEMMA StepMissing ==
  ASSUME LogoutInv, MissingExplained, [Next]_vars
  PROVE  MissingExplained'
<1> USE DEF LogoutInv
<1>1. CASE UNCHANGED <<party, sent, outcome>>
  BY <1>1 DEF MissingExplained
<1>2. ASSUME NEW id \in Request, NEW from \in Name, NEW to \in Name, NEW b \in Binding,
             StartLogout(id, from, to, b)
      PROVE  MissingExplained'
  <2>1. /\ sent[id] = {} /\ party' = party /\ outcome' = outcome
        /\ \A q \in Request : q # id => sent'[q] = sent[q]
    BY <1>2 DEF StartLogout, Fixed
  <2>2. outcome'[id] = "none"
    BY <2>1 DEF Trackers
  <2>3. QED
    BY <2>1, <2>2 DEF MissingExplained
<1>3. ASSUME NEW id \in Request, NEW t \in sent[id], NEW m \in wire, NEW verdict,
             Conclude(id, verdict, m), UNCHANGED <<party, sent>>,
             verdict = "SignatureMissing" /\ party[t.peer].sign_responses
               => UnsignedRedirect(party[t.from], party[t.peer])
      PROVE  MissingExplained'
  <2>1. /\ outcome'[id] = IF verdict = "Ok" THEN to_outcome(m.status) ELSE verdict
        /\ \A q \in Request : q # id => outcome'[q] = outcome[q]
    BY <1>3 DEF Conclude, Fixed
  <2>2. outcome'[id] = "SignatureMissing" => verdict = "SignatureMissing"
    BY <2>1 DEF to_outcome
  <2>3. sent[id] = {t}
    BY DEF Trackers
  <2>4. QED
    BY <1>3, <2>1, <2>2, <2>3 DEF MissingExplained
<1>4. ASSUME NEW id \in Request, NEW m \in wire, NEW t \in sent[id], NEW url \in Urls(t.from),
             HandleResponse(id, t, m, url)
      PROVE  MissingExplained'
  <2> DEFINE verdict == consume_logout_response(party[t.from], party[t.peer], m, m.binding,
                                                m.detached, url, id)
  <2>1. Conclude(id, verdict, m) /\ UNCHANGED <<party, sent>>
    BY <1>4 DEF HandleResponse
  <2>2. ASSUME verdict = "SignatureMissing", party[t.peer].sign_responses
        PROVE  UnsignedRedirect(party[t.from], party[t.peer])
    <3>1. /\ m.kind = "LogoutResponse" /\ m.issuer = party[t.peer].entity
          /\ m.destination \subseteq {url} /\ party[t.from].want_responses
          /\ IF m.binding = "HttpRedirect" THEN m.detached = {} ELSE m.enveloped = {}
      BY <2>2, MissingInResponse
    <3>2. PICK p \in Name : /\ party[t.peer].role # "sp"
                            /\ Endpoints(party[p], "HttpRedirect") # {}
                           /\ m.destination = {slo_endpoint(party[p], "HttpRedirect")}
      BY <2>2, <3>1, UnsignedResponse
    <3>3. /\ t.from \in Name /\ t.peer \in Name
          /\ party[t.from].role # party[t.peer].role
      BY DEF Trackers
    <3>4. t.from = p
      BY <3>1, <3>2, <3>3, Addressee DEF Fixed
    <3>5. party[t.peer].role = "idp" /\ party[t.from].role = "sp"
      BY <3>2, <3>3, SloAssumption DEF Fixed
    <3>6. QED
      BY <3>1, <3>2, <3>4, <3>5 DEF UnsignedRedirect
  <2> HIDE DEF verdict
  <2>3. QED
    BY <1>3, <2>1, <2>2
<1>5. ASSUME NEW id \in Request, NEW m \in wire, NEW t \in sent[id], HandleReply(id, t, m)
      PROVE  MissingExplained'
  <2> DEFINE verdict == consume_back_channel_reply(party[t.from], party[t.peer], m, id)
  <2>1. Conclude(id, verdict, m) /\ UNCHANGED <<party, sent>> /\ m.binding = "Soap"
    BY <1>5 DEF HandleReply
  <2>2. ~(verdict = "SignatureMissing" /\ party[t.peer].sign_responses)
    BY <2>1, MissingInReply, UnsignedResponse
  <2> HIDE DEF verdict
  <2>3. QED
    BY <1>3, <2>1, <2>2
<1>6. CASE \E me, peer \in Name, m \in wire, status \in Status, b \in Binding :
             \E url \in Urls(me) : HandleRequest(me, peer, m, url, status, b)
  BY <1>1, <1>6 DEF HandleRequest
<1>7. QED
  BY <1>1, <1>2, <1>4, <1>5, <1>6 DEF Next, vars

(* What is true of "signed in both directions": a signing peer's response  *)
(* is refused as unsigned only where an IdP answered over Redirect an SP   *)
(* that demands signed responses (build_logout_response of idp.rs).        *)
THEOREM LogoutMissingExplained == Spec => []MissingExplained
<1>1. Init => MissingExplained
  BY DEF Init, MissingExplained
<1>2. LogoutInv /\ MissingExplained /\ [Next]_vars => MissingExplained'
  BY StepMissing
<1>3. QED
  BY <1>1, <1>2, Invariance, PTL DEF Spec

(* Without such an SP in the deployment, the promise holds as it is worded.*)
THEOREM LogoutSignedBothWays ==
  ASSUME \A c \in Configurations : \A n \in Name :
           c[n].role = "sp" /\ c[n].want_responses => Endpoints(c[n], "HttpRedirect") = {}
  PROVE  Spec => []SignedBothWays
<1>1. LogoutInv /\ MissingExplained => SignedBothWays
  <2> SUFFICES ASSUME LogoutInv, MissingExplained, NEW id \in Request, NEW t \in sent[id],
                      party[t.peer].sign_responses, outcome[id] = "SignatureMissing"
               PROVE  FALSE
    BY DEF SignedBothWays
  <2>1. UnsignedRedirect(party[t.from], party[t.peer]) /\ t.from \in Name
    BY DEF MissingExplained, LogoutInv, Trackers
  <2>2. QED
    BY <2>1 DEF UnsignedRedirect, LogoutInv, Fixed
<1>2. QED
  BY <1>1, Invariance, LogoutMissingExplained, PTL
=============================================================================
