---------------------------- MODULE SingleLogout ----------------------------
(***************************************************************************)
(* Single Logout between an identity provider and its service providers:   *)
(* every party may start logouts at any time, front channel (Redirect,     *)
(* POST) or back channel (SOAP), while requests and responses are          *)
(* delivered late, repeatedly, out of order and to any of the receiver's   *)
(* endpoints. Sessions and LogoutTrackers are kept by the applications.    *)
(***************************************************************************)
EXTENDS LogoutMessages, FiniteSets

CONSTANTS
  Name,             \* the parties' names
  Configurations,   \* the party records a deployment may give them
  Request,          \* IDs for the LogoutRequests
  Binding,          \* bindings in use
  Status            \* statuses the applications answer with

ASSUME SloAssumption ==
  /\ Status \subseteq LogoutStatus
  /\ \A c \in Configurations : \A n \in Name :
       /\ c[n].role \in {"sp", "idp"}
       /\ c[n].slo \in Seq({c[n].slo[i] : i \in DOMAIN c[n].slo})

(* An entity ID names one party, and an endpoint is one party's.           *)
ASSUME DistinctParties ==
  \A c \in Configurations : \A n, p \in Name :
    n # p => /\ c[n].entity # c[p].entity
             /\ \A i \in DOMAIN c[n].slo, j \in DOMAIN c[p].slo :
                  c[n].slo[i].url # c[p].slo[j].url

VARIABLES
  party,      \* party[n]: the configuration of n, fixed at start-up
  sent,       \* sent[id]: option of the LogoutTracker of request id
  wire,       \* messages under way
  ended,      \* <<n, p, id>>: n ended its session with p on request id
  outcome     \* outcome[id]: what the initiator made of the response

vars == <<party, sent, wire, ended, outcome>>

Init ==
  /\ party \in Configurations
  /\ sent = [id \in Request |-> {}]
  /\ wire = {}
  /\ ended = {}
  /\ outcome = [id \in Request |-> "none"]

Urls(n) == {party[n].slo[i].url : i \in DOMAIN party[n].slo}

(* start_logout, or the sending half of send_soap_logout_request.          *)
StartLogout(id, from, to, binding) ==
  /\ sent[id] = {}
  /\ party[from].role # party[to].role
  /\ CanRequest(party[to], binding)
  /\ sent' = [sent EXCEPT ![id] = {[from |-> from, peer |-> to, binding |-> binding]}]
  /\ wire' = wire \cup {LogoutRequest(party[from], party[to], binding, id)}
  /\ UNCHANGED <<party, ended, outcome>>

(* consume_logout_request, then the application ends the session or not,   *)
(* then build_logout_response where it can.                                *)
HandleRequest(me, peer, m, url, status, binding) ==
  /\ party[me].role # party[peer].role
  /\ m.binding = "Soap" <=> binding = "Soap"
  /\ consume_logout_request(party[me], party[peer], m, url, 0, 0) = "Ok"
  /\ ended' = IF status \in {"Success", "PartialLogout"}
                THEN ended \cup {<<me, peer, m.id>>} ELSE ended
  /\ wire' = IF CanRespond(party[me], party[peer], binding)
               THEN wire \cup {build_logout_response(party[me], party[peer], m, status,
                                                     binding)}
               ELSE wire
  /\ UNCHANGED <<party, sent, outcome>>

Concluded == {"Success", "PartialLogout", "Failure"}

Conclude(id, verdict, m) ==
  outcome' = [outcome EXCEPT ![id] = IF verdict = "Ok" THEN to_outcome(m.status) ELSE verdict]

(* consume_logout_response on the front channel, with the detached         *)
(* signature of the query string the response came in with.                *)
HandleResponse(id, t, m, url) ==
  /\ t.binding # "Soap" /\ m.binding # "Soap"
  /\ outcome[id] \notin Concluded
  /\ Conclude(id, consume_logout_response(party[t.from], party[t.peer], m, m.binding,
                                          m.detached, url, id), m)
  /\ UNCHANGED <<party, sent, wire, ended>>

(* The receiving half of send_soap_logout_request: the HTTP reply.         *)
HandleReply(id, t, m) ==
  /\ t.binding = "Soap" /\ m.binding = "Soap"
  /\ outcome[id] = "none"
  /\ Conclude(id, consume_back_channel_reply(party[t.from], party[t.peer], m, id), m)
  /\ UNCHANGED <<party, sent, wire, ended>>

Next ==
  \/ \E id \in Request, from, to \in Name, b \in Binding : StartLogout(id, from, to, b)
  \/ \E me, peer \in Name, m \in wire, status \in Status, b \in Binding :
       \E url \in Urls(me) : HandleRequest(me, peer, m, url, status, b)
  \/ \E id \in Request, m \in wire : \E t \in sent[id] :
       \E url \in Urls(t.from) : HandleResponse(id, t, m, url)
  \/ \E id \in Request, m \in wire : \E t \in sent[id] : HandleReply(id, t, m)

Spec == Init /\ [][Next]_vars

-----------------------------------------------------------------------------

(* A logout is reported to its initiator as complete only when the peer it *)
(* was addressed to ended its session with that initiator because of that  *)
(* very request: repeated, crossed and late messages of other logouts, or  *)
(* of other peers, never pass for it (consume_logout_response, both roles).*)
OutcomeTruthful ==
  \A id \in Request : \A t \in sent[id] :
    outcome[id] \in {"Success", "PartialLogout"} => <<t.peer, t.from, id>> \in ended

(* A session ends only because the other side of it asked for that: the    *)
(* request is one that very peer sent to this very party                   *)
(* (consume_logout_request, whatever endpoint it was delivered to).        *)
EndedOnRequest ==
  \A e \in ended : \E t \in sent[e[3]] : t.peer = e[1] /\ t.from = e[2]

(* "Signed in both directions" (src/README.md): a peer that signs its      *)
(* responses is never refused for a missing signature, on any binding.     *)
SignedBothWays ==
  \A id \in Request : \A t \in sent[id] :
    party[t.peer].sign_responses => outcome[id] # "SignatureMissing"
=============================================================================
