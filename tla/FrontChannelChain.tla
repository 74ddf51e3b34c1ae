------------------------- MODULE FrontChannelChain -------------------------
(***************************************************************************)
(* FrontChannelChain (src/src/proxy.rs): the helper that logs a user out   *)
(* of one SP after the other through the browser. The IdP application      *)
(* keeps the chain, sends the browser to the current target and calls      *)
(* advance with whatever LogoutResponse comes back; the targets run the    *)
(* crate's SP role. The browser may repeat, delay or drop what it carries. *)
(*                                                                         *)
(* start_logout can fail (no Redirect endpoint in the target's descriptor, *)
(* no signing key, no randomness for the ID); the application then calls   *)
(* advance again, which is the only way on. MaxFaults bounds how often     *)
(* that happens.                                                           *)
(***************************************************************************)
EXTENDS LogoutMessages

CONSTANTS
  Idp,              \* the IdP's party record
  Targets,          \* sequence of the targets' party records
  ReplyBinding,     \* ReplyBinding[i]: bindings target i answers on
  Reply,            \* statuses they answer with
  MaxFaults         \* bound on failures of start_logout

ASSUME ChainAssumption ==
  /\ Targets \in Seq({Targets[i] : i \in DOMAIN Targets})
  /\ MaxFaults \in Nat
  /\ ReplyBinding \in [DOMAIN Targets -> SUBSET {"HttpRedirect", "HttpPost"}]
  /\ Reply \subseteq LogoutStatus

(* A session is logged out of once: no SP is listed as two targets.        *)
ASSUME DistinctTargets ==
  \A i, j \in DOMAIN Targets : Targets[i].entity = Targets[j].entity => i = j

VARIABLES
  index,      \* NextTarget { index }: the target waited for; 0 before start
  request,    \* the request ID in the tracker of that state
  pending,    \* pending_outcomes, each with the target it stands for
  outcomes,   \* option of the outcomes of Done
  issued,     \* number of LogoutRequests sent; the next one is the ID
  wire,       \* LogoutRequests and LogoutResponses with the browser
  ended,      \* <<i, id>>: target i ended its session on request id
  faults      \* failures of start_logout so far

vars == <<index, request, pending, outcomes, issued, wire, ended, faults>>

Done == outcomes # {}

Running == index > 0 /\ ~Done

Init ==
  /\ index = 0 /\ request = 0 /\ issued = 0 /\ faults = 0
  /\ pending = <<>> /\ outcomes = {} /\ wire = {} /\ ended = {}

(* idp.start_logout for target i: the state waits for its response.        *)
WaitFor(i) ==
  /\ CanRequest(Targets[i], "HttpRedirect")
  /\ issued' = issued + 1
  /\ wire' = wire \cup {LogoutRequest(Idp, Targets[i], "HttpRedirect", issued + 1)}
  /\ index' = i /\ request' = issued + 1
  /\ UNCHANGED faults

(* The same call returning an error: the state stays as it is.             *)
StartFails(i) ==
  /\ faults < MaxFaults
  /\ faults' = faults + 1
  /\ UNCHANGED <<issued, wire, index, request>>

start ==
  /\ index = 0 /\ ~Done
  /\ IF Targets = <<>>
       THEN outcomes' = {<<>>} /\ UNCHANGED <<index, request, issued, wire, faults>>
       ELSE WaitFor(1) /\ UNCHANGED outcomes
  /\ UNCHANGED <<pending, ended>>

(* What advance makes of a response: the first SLO endpoint is the         *)
(* expected destination, and no detached signature is handed on.           *)
Verdict(m) ==
  LET verdict == consume_logout_response(Idp, Targets[index], m, m.binding, {},
                                         Idp.slo[1].url, request)
  IN  IF verdict = "Ok" THEN to_outcome(m.status) ELSE verdict

(* Mutant: a response that is refused leaves no outcome behind.            *)
RecordedIfOk(m) ==
  IF Verdict(m) \in {"Success", "PartialLogout", "Failure"}
    THEN Append(pending, [target |-> index, outcome |-> Verdict(m), id |-> request])
    ELSE pending

Recorded(m) == Append(pending, [target |-> index, outcome |-> Verdict(m), id |-> request])

(* Mutant: the end of the list is looked for one place too far.            *)
AdvancePastLast(m) ==
  /\ Running /\ index > Len(Targets)
  /\ outcomes' = {Recorded(m)} /\ pending' = <<>>
  /\ UNCHANGED <<index, request, issued, wire, ended, faults>>

(* advance on the last target: Done with the outcomes gathered,            *)
AdvanceLast(m) ==
  /\ Running /\ index = Len(Targets)
  /\ outcomes' = {Recorded(m)} /\ pending' = <<>>
  /\ UNCHANGED <<index, request, issued, wire, ended, faults>>

(* or the outcome is recorded and the next target's request goes out,      *)
AdvanceNext(m) ==
  /\ Running /\ index < Len(Targets)
  /\ pending' = Recorded(m)
  /\ WaitFor(index + 1)
  /\ UNCHANGED <<outcomes, ended>>

(* or the outcome is recorded and the next request cannot be built.        *)
AdvanceFails(m) ==
  /\ Running /\ index < Len(Targets)
  /\ pending' = Recorded(m)
  /\ StartFails(index + 1)
  /\ UNCHANGED <<outcomes, ended>>

(* A target: consume_logout_request, the application's decision, then      *)
(* build_logout_response.                                                  *)
TargetAnswers(i, m, status, binding) ==
  LET response == build_logout_response(Targets[i], Idp, m, status, binding) IN
  /\ \E n \in DOMAIN Targets[i].slo :
       consume_logout_request(Targets[i], Idp, m, Targets[i].slo[n].url, 0, 0) = "Ok"
  /\ CanRespond(Targets[i], Idp, binding)
  /\ response \notin wire
  /\ wire' = wire \cup {response}
  /\ ended' = IF status \in {"Success", "PartialLogout"} THEN ended \cup {<<i, m.id>>}
                                                        ELSE ended
  /\ UNCHANGED <<index, request, pending, outcomes, issued, faults>>

(* The browser brings the chain any response it has.                       *)
Advance ==
  \E m \in {w \in wire : w.kind = "LogoutResponse"} :
    AdvanceLast(m) \/ AdvanceNext(m) \/ AdvanceFails(m)

(* A browser that follows its redirects brings the current target's answer.*)
AdvanceInOrder ==
  \E m \in {w \in wire : w.kind = "LogoutResponse"} :
    m.in_response_to = {request} /\ (AdvanceLast(m) \/ AdvanceNext(m))

Answers ==
  \E i \in DOMAIN Targets, m \in wire, status \in Reply : \E b \in ReplyBinding[i] :
    TargetAnswers(i, m, status, b)

Next == start \/ Advance \/ Answers

Spec == Init /\ [][Next]_vars

(* The application starts the chain, targets answer the requests they get, *)
(* and the browser keeps following redirects.                              *)
Fairness == WF_vars(start) /\ WF_vars(Answers) /\ WF_vars(AdvanceInOrder)

FairSpec == Spec /\ Fairness

-----------------------------------------------------------------------------

Failures ==
  {"XmlParse", "IssuerMismatch", "InvalidConfiguration", "DestinationMismatch",
   "UnsupportedByPeer", "SignatureMissing", "SignatureVerification",
   "InResponseToMismatch"}

OutcomeEntry ==
  [target : DOMAIN Targets, id : Nat,
   outcome : {"Success", "PartialLogout", "Failure"} \cup Failures]

(* Type correctness of the chain's position, its outcomes and its request. *)
TypeOK ==
  /\ index \in 0..Len(Targets) /\ request \in Nat /\ issued \in Nat /\ faults \in Nat
  /\ pending \in Seq(OutcomeEntry)
  /\ outcomes \subseteq Seq(OutcomeEntry)

(* An outcome reported as a completed logout stands for a session its      *)
(* target ended on this chain's request for it, however the browser        *)
(* repeats and reorders the targets' answers.                              *)
Truthful ==
  \A list \in {pending} \cup outcomes : \A n \in DOMAIN list :
    list[n].outcome \in {"Success", "PartialLogout"}
      => <<list[n].target, list[n].id>> \in ended

(* "Outcomes parallels targets" (RFC-007 section 8, and the comment in     *)
(* advance): at Done there is one outcome per target, in their order.      *)
ParallelShaped ==
  \A list \in outcomes :
    /\ Len(list) = Len(Targets)
    /\ \A n \in DOMAIN list : list[n].target = n

(* advance records an outcome on every path: the list is longer than the   *)
(* chain's progress by exactly one entry per failed start_logout, and the  *)
(* entries are in the order of the targets.                                *)
SurplusOutcomes ==
  /\ Running => Len(pending) = index - 1 + faults
  /\ \A list \in outcomes : Len(list) = Len(Targets) + faults
  /\ \A list \in {pending} \cup outcomes : \A n, k \in DOMAIN list :
       n < k => list[n].target <= list[k].target

(* LogoutResponses of target i that a browser may have brought.            *)
AnswersOver(binding, i) ==
  {m \in wire : m.kind = "LogoutResponse" /\ m.issuer = Targets[i].entity
                                          /\ m.binding = binding}

(* What is left of "advance verifies each response" (RFC-007 section 8):   *)
(* when the IdP wants its responses signed, a completed logout stands for  *)
(* a signed POST answer to that request by that target, and a target that  *)
(* signs is reported as unsigned only after it answered over Redirect,     *)
(* whose signature advance does not hand on.                               *)
PostAnswersVerified ==
  \A list \in {pending} \cup outcomes : \A n \in DOMAIN list :
    /\ Idp.want_responses /\ list[n].outcome \in {"Success", "PartialLogout"}
         => \E m \in AnswersOver("HttpPost", list[n].target) :
              m.in_response_to = {list[n].id} /\ m.enveloped # {}
    /\ Targets[list[n].target].sign_responses /\ list[n].outcome = "SignatureMissing"
         => AnswersOver("HttpRedirect", list[n].target) # {}

(* The claim itself: a target that signs is never reported as unsigned.    *)
(* It holds of a chain whose targets do not answer over Redirect.          *)
SignedTargetsVerify ==
  \A list \in {pending} \cup outcomes : \A n \in DOMAIN list :
    Targets[list[n].target].sign_responses => list[n].outcome # "SignatureMissing"

(* Every chain ends, stale answers and failed starts notwithstanding.      *)
ChainCompletes == <>Done
=============================================================================
