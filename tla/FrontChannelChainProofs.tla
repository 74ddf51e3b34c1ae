---------------------- MODULE FrontChannelChainProofs ----------------------
(***************************************************************************)
(* Proofs about FrontChannelChain for every list of targets, every mix of  *)
(* answers the browser may bring and any number of failed start_logout     *)
(* calls.                                                                  *)
(***************************************************************************)
EXTENDS FrontChannelChain, TLAPS, SequenceTheorems

Response == {w \in wire : w.kind = "LogoutResponse"}

Ended == {"Success", "PartialLogout"}

-----------------------------------------------------------------------------
(* What a verdict says about the message.                                  *)

(* A verdict is "Ok" or one of the errors.                                 *)
LEMMA ConsumeVerdicts ==
  ASSUME NEW me, NEW peer, NEW m, NEW b, NEW d, NEW url, NEW id
  PROVE  consume_logout_response(me, peer, m, b, d, url, id) \in {"Ok"} \cup Failures
<1>1. verify_inbound_signature(b, d, m.enveloped, {peer.entity}, me.want_responses)
        \in {"Ok"} \cup Failures
  BY DEF verify_inbound_signature, VerifyPresent, Reject, &&, Failures
<1>2. EnvelopeChecks(me, peer, m, url) \in {"Ok"} \cup Failures
  BY DEF EnvelopeChecks, IssuerCheck, DestinationCheck, Reject, &&, Failures
<1>3. QED
  BY <1>1, <1>2 DEF consume_logout_response, Reject, &&, Failures

(* So an outcome is one of the three statuses or one of the errors.        *)
LEMMA VerdictTyped ==
  ASSUME NEW m
  PROVE  Verdict(m) \in {"Success", "PartialLogout", "Failure"} \cup Failures
<1>1. to_outcome(m.status) \in {"Success", "PartialLogout", "Failure"}
  BY DEF to_outcome
<1>2. QED
  BY <1>1, ConsumeVerdicts DEF Verdict

(* A response that passes comes from the current target and answers the    *)
(* tracked request.                                                        *)
LEMMA PassedIsBound ==
  ASSUME NEW m, Verdict(m) \in Ended
  PROVE  /\ m.issuer = Targets[index].entity
         /\ m.in_response_to = {request}
         /\ to_outcome(m.status) \in Ended
         /\ Idp.want_responses => m.binding # "HttpRedirect" /\ m.enveloped # {}
<1> DEFINE verdict == consume_logout_response(Idp, Targets[index], m, m.binding, {},
                                              Idp.slo[1].url, request)
<1>1. verdict \notin Ended
  BY ConsumeVerdicts DEF Ended, Failures
<1>2. verdict = "Ok" /\ to_outcome(m.status) \in Ended
  BY <1>1 DEF Verdict
<1>3. /\ m.issuer = Targets[index].entity /\ m.in_response_to = {request}
      /\ Idp.want_responses => m.binding # "HttpRedirect" /\ m.enveloped # {}
  BY <1>2 DEF consume_logout_response, EnvelopeChecks, IssuerCheck, DestinationCheck,
              verify_inbound_signature, VerifyPresent, Reject, &&
<1>4. QED
  BY <1>2, <1>3

(* A response reported as unsigned names the current target as issuer and  *)
(* carries no signature where the binding has it.                          *)
LEMMA UnsignedIsIssuers ==
  ASSUME NEW m, Verdict(m) = "SignatureMissing"
  PROVE  /\ m.issuer = Targets[index].entity
         /\ m.binding # "HttpRedirect" => m.enveloped = {}
<1> DEFINE verdict == consume_logout_response(Idp, Targets[index], m, m.binding, {},
                                              Idp.slo[1].url, request)
<1>1. to_outcome(m.status) # "SignatureMissing"
  BY DEF to_outcome
<1>2. verdict = "SignatureMissing"
  BY <1>1 DEF Verdict
<1>3. QED
  BY <1>2 DEF consume_logout_response, EnvelopeChecks, IssuerCheck, DestinationCheck,
              verify_inbound_signature, VerifyPresent, Reject, &&

-----------------------------------------------------------------------------
(* The inductive invariant. Progress alone is not inductive: before start  *)
(* nothing may have failed, after Done nothing is pending, and what the    *)
(* browser holds must be what the targets made.                            *)

(* Outcomes are in the order of the targets and none is of a later one.    *)
InOrder(list) ==
  \A n, k \in DOMAIN list : n < k => list[n].target <= list[k].target

Progress ==
  /\ index = 0 => faults = 0
  /\ ~Running => pending = <<>>
  /\ Running => Len(pending) = index - 1 + faults
  /\ \A n \in DOMAIN pending : pending[n].target <= index
  /\ InOrder(pending)
  /\ \A list \in outcomes : Len(list) = Len(Targets) + faults /\ InOrder(list)

(* An outcome names its target by its place in the list.                   *)
LEMMA TargetsAreNumbered == \A e \in OutcomeEntry : e.target \in Nat
<1>1. DOMAIN Targets \subseteq Nat
  BY ChainAssumption
<1>2. QED
  BY <1>1 DEF OutcomeEntry

(* The facts about lists that the steps of the chain rest on.              *)
LEMMA AppendInOrder ==
  ASSUME NEW list \in Seq(OutcomeEntry), NEW e \in OutcomeEntry, InOrder(list),
         \A n \in DOMAIN list : list[n].target <= e.target
  PROVE  /\ Append(list, e) \in Seq(OutcomeEntry)
         /\ Len(Append(list, e)) = Len(list) + 1
         /\ InOrder(Append(list, e))
         /\ \A n \in DOMAIN Append(list, e) : Append(list, e)[n].target <= e.target
<1>1. \A f \in OutcomeEntry : f.target \in Nat
  BY TargetsAreNumbered
<1>2. /\ Append(list, e) \in Seq(OutcomeEntry)
      /\ Len(Append(list, e)) = Len(list) + 1
      /\ DOMAIN Append(list, e) = 1..(Len(list) + 1)
      /\ DOMAIN list = 1..Len(list) /\ Len(list) \in Nat
      /\ \A n \in 1..Len(list) : Append(list, e)[n] = list[n] /\ list[n] \in OutcomeEntry
      /\ Append(list, e)[Len(list) + 1] = e
  OBVIOUS
<1>3. \A n \in DOMAIN Append(list, e) : Append(list, e)[n].target <= e.target
  BY <1>1, <1>2
<1>4. InOrder(Append(list, e))
  <2> SUFFICES ASSUME NEW n \in 1..(Len(list) + 1), NEW k \in 1..(Len(list) + 1), n < k
               PROVE  Append(list, e)[n].target <= Append(list, e)[k].target
    BY <1>2 DEF InOrder
  <2>1. CASE k = Len(list) + 1
    BY <2>1, <1>2, <1>3
  <2>2. CASE k \in 1..Len(list)
    <3>1. n \in 1..Len(list)
      BY <2>2, <1>2
    <3>2. QED
      BY <2>2, <3>1, <1>2 DEF InOrder
  <2>3. QED
    BY <2>1, <2>2, <1>2
<1>5. QED
  BY <1>2, <1>3, <1>4

(* What advance appends for the current target.                            *)
LEMMA RecordedFacts ==
  ASSUME TypeOK, Progress, Running, NEW m
  PROVE  /\ Recorded(m) \in Seq(OutcomeEntry)
         /\ Len(Recorded(m)) = index + faults
         /\ InOrder(Recorded(m))
         /\ \A n \in DOMAIN Recorded(m) : Recorded(m)[n].target <= index
<1> DEFINE e == [target |-> index, outcome |-> Verdict(m), id |-> request]
<1>1. index \in 1..Len(Targets) /\ DOMAIN Targets = 1..Len(Targets) /\ Len(Targets) \in Nat
  BY ChainAssumption DEF TypeOK, Running
<1>2. e \in OutcomeEntry
  BY <1>1, VerdictTyped DEF TypeOK, OutcomeEntry
<1>3. pending \in Seq(OutcomeEntry) /\ InOrder(pending)
      /\ \A n \in DOMAIN pending : pending[n].target <= e.target
  BY DEF TypeOK, Progress
<1>4. /\ Append(pending, e) \in Seq(OutcomeEntry)
      /\ Len(Append(pending, e)) = Len(pending) + 1
      /\ InOrder(Append(pending, e))
      /\ \A n \in DOMAIN Append(pending, e) : Append(pending, e)[n].target <= e.target
  BY <1>2, <1>3, AppendInOrder
<1>5. Len(pending) = index - 1 + faults /\ faults \in Nat
  BY DEF TypeOK, Progress
<1>6. Len(pending) + 1 = index + faults
  BY <1>1, <1>5
<1>7. QED
  BY <1>4, <1>6 DEF Recorded

-----------------------------------------------------------------------------
(* Type correctness and progress.                                          *)

(* A chain that has not started satisfies both.                            *)
LEMMA InitProgress == Init => TypeOK /\ Progress
<1> SUFFICES ASSUME Init PROVE TypeOK /\ Progress
  OBVIOUS
<1>1. Len(Targets) \in Nat
  BY ChainAssumption
<1>2. <<>> \in Seq(OutcomeEntry)
  OBVIOUS
<1>3. TypeOK
  BY <1>1, <1>2 DEF Init, TypeOK
<1>4. Progress
  BY DEF Init, Progress, Running, Done, InOrder
<1>5. QED
  BY <1>3, <1>4

(* Every step of the chain, the targets or the browser preserves them.     *)
LEMMA StepProgress ==
  ASSUME TypeOK, Progress, [Next]_vars
  PROVE  TypeOK' /\ Progress'
<1>0. Len(Targets) \in Nat /\ index \in 0..Len(Targets) /\ faults \in Nat /\ issued \in Nat
  BY ChainAssumption DEF TypeOK
<1>1. CASE start
  <2>1. index = 0 /\ faults = 0 /\ faults' = 0 /\ pending = <<>> /\ pending' = <<>>
        /\ outcomes = {}
    BY <1>1 DEF start, Progress, Running, Done, WaitFor
  <2>2. CASE Targets = <<>>
    <3>1. outcomes' = {<<>>} /\ index' = 0 /\ request' = request /\ issued' = issued
      BY <1>1, <2>1, <2>2 DEF start
    <3>2. <<>> \in Seq(OutcomeEntry) /\ Len(<<>>) = 0 /\ InOrder(<<>>) /\ Len(Targets) = 0
      BY <2>2 DEF InOrder
    <3>3. TypeOK'
      BY <2>1, <3>1, <3>2 DEF TypeOK
    <3>4. Progress'
      BY <2>1, <3>1, <3>2 DEF Progress, Running, Done
    <3>5. QED
      BY <3>3, <3>4
  <2>3. CASE Targets # <<>>
    <3>1. index' = 1 /\ request' = issued + 1 /\ issued' = issued + 1 /\ outcomes' = outcomes
      BY <1>1, <2>3 DEF start, WaitFor
    <3>2. Len(Targets) >= 1
      BY <2>3, <1>0, ChainAssumption
    <3>3. TypeOK'
      BY <1>0, <2>1, <3>1, <3>2 DEF TypeOK
    <3>4. Progress'
      BY <2>1, <3>1 DEF Progress, Running, Done, InOrder
    <3>5. QED
      BY <3>3, <3>4
  <2>4. QED
    BY <2>2, <2>3
<1>2. ASSUME NEW m \in Response, AdvanceLast(m)
      PROVE  TypeOK' /\ Progress'
  <2>1. /\ Running /\ index = Len(Targets) /\ outcomes' = {Recorded(m)} /\ pending' = <<>>
        /\ index' = index /\ request' = request /\ issued' = issued /\ faults' = faults
    BY <1>2 DEF AdvanceLast
  <2>2. /\ Recorded(m) \in Seq(OutcomeEntry) /\ InOrder(Recorded(m))
        /\ Len(Recorded(m)) = Len(Targets) + faults
    BY <2>1, RecordedFacts
  <2>3. <<>> \in Seq(OutcomeEntry) /\ InOrder(<<>>)
    BY DEF InOrder
  <2>4. TypeOK'
    BY <2>1, <2>2, <2>3 DEF TypeOK
  <2>5. Progress'
    BY <2>1, <2>2, <2>3 DEF Progress, Running, Done
  <2>6. QED
    BY <2>4, <2>5
<1>3. ASSUME NEW m \in Response, AdvanceNext(m)
      PROVE  TypeOK' /\ Progress'
  <2>1. /\ Running /\ index < Len(Targets) /\ pending' = Recorded(m) /\ outcomes' = outcomes
        /\ index' = index + 1 /\ request' = issued + 1 /\ issued' = issued + 1
        /\ faults' = faults
    BY <1>3 DEF AdvanceNext, WaitFor
  <2>2. /\ Recorded(m) \in Seq(OutcomeEntry) /\ InOrder(Recorded(m))
        /\ Len(Recorded(m)) = index + faults
        /\ \A n \in DOMAIN Recorded(m) : Recorded(m)[n].target <= index
    BY <2>1, RecordedFacts
  <2>3. \A n \in DOMAIN Recorded(m) : Recorded(m)[n].target <= index + 1
    <3>a. \A n \in DOMAIN Recorded(m) : Recorded(m)[n] \in OutcomeEntry
      BY <2>2
    <3>1. \A n \in DOMAIN Recorded(m) : Recorded(m)[n].target \in Nat
      BY <3>a, TargetsAreNumbered
    <3>2. QED
      BY <1>0, <2>2, <3>1
  <2>4. TypeOK'
    BY <1>0, <2>1, <2>2 DEF TypeOK
  <2>5. Progress'
    BY <1>0, <2>1, <2>2, <2>3 DEF Progress, Running, Done
  <2>6. QED
    BY <2>4, <2>5
<1>4. ASSUME NEW m \in Response, AdvanceFails(m)
      PROVE  TypeOK' /\ Progress'
  <2>1. /\ Running /\ index < Len(Targets) /\ pending' = Recorded(m) /\ outcomes' = outcomes
        /\ index' = index /\ request' = request /\ issued' = issued
        /\ faults' = faults + 1
    BY <1>4 DEF AdvanceFails, StartFails
  <2>2. /\ Recorded(m) \in Seq(OutcomeEntry) /\ InOrder(Recorded(m))
        /\ Len(Recorded(m)) = index + faults
        /\ \A n \in DOMAIN Recorded(m) : Recorded(m)[n].target <= index
    BY <2>1, RecordedFacts
  <2>3. TypeOK'
    BY <1>0, <2>1, <2>2 DEF TypeOK
  <2>4. Progress'
    BY <1>0, <2>1, <2>2 DEF Progress, Running, Done
  <2>5. QED
    BY <2>3, <2>4
<1>5. CASE Answers
  <2>1. UNCHANGED <<index, request, pending, outcomes, issued, faults>>
    BY <1>5 DEF Answers, TargetAnswers
  <2>2. QED
    BY <2>1 DEF TypeOK, Progress, Running, Done
<1>6. CASE UNCHANGED vars
  BY <1>6 DEF vars, TypeOK, Progress, Running, Done
<1>7. QED
  BY <1>1, <1>2, <1>3, <1>4, <1>5, <1>6 DEF Next, Advance, Response

(* The chain's position is in the list of targets and its outcomes are of  *)
(* listed targets, for every list, browser and failure of start_logout.    *)
THEOREM ChainTypeCorrect == Spec => []TypeOK
<1>1. Init => TypeOK /\ Progress
  BY InitProgress
<1>2. (TypeOK /\ Progress) /\ [Next]_vars => (TypeOK /\ Progress)'
  BY StepProgress
<1>3. QED
  BY <1>1, <1>2, PTL DEF Spec

(* advance leaves exactly one outcome per target and one more per failed   *)
(* start_logout, in the order of the targets: what holds in place of the   *)
(* "parallel-shaped" vector its comment promises.                          *)
THEOREM Surplus == Spec => []SurplusOutcomes
<1>1. Init => TypeOK /\ Progress
  BY InitProgress
<1>2. (TypeOK /\ Progress) /\ [Next]_vars => (TypeOK /\ Progress)'
  BY StepProgress
<1>3. TypeOK /\ Progress => SurplusOutcomes
  BY DEF Progress, SurplusOutcomes, InOrder
<1>4. QED
  BY <1>1, <1>2, <1>3, PTL DEF Spec

-----------------------------------------------------------------------------
(* Truthfulness. What the browser carries was made by a target, and says   *)
(* of that target what it did.                                             *)

MadeByTarget(m) ==
  \E i \in DOMAIN Targets, id \in {r.id : r \in wire} :
    /\ m.issuer = Targets[i].entity
    /\ m.in_response_to = {id}
    /\ to_outcome(m.status) \in Ended => <<i, id>> \in ended
    /\ m.binding \in ReplyBinding[i]
    /\ Targets[i].sign_responses => m.binding = "HttpRedirect" \/ m.enveloped # {}

WireTruthful == \A m \in Response : MadeByTarget(m)

(* Encoding a status and reading it back: only a logout passes for one.    *)
LEMMA StatusRoundTrip ==
  ASSUME NEW status \in LogoutStatus, to_outcome(build_status(status)) \in Ended
  PROVE  status \in Ended
<1>1. CASE status \in Ended
  BY <1>1
<1>2. CASE status \in {"RequestDenied", "Requester", "Responder"}
  <2>1. build_status(status).top \in {"Requester", "Responder"}
    BY <1>2 DEF build_status
  <2>2. build_status(status).second \subseteq {"RequestDenied"}
    BY <1>2 DEF build_status
  <2>3. to_outcome(build_status(status)) = "Failure"
    BY <2>1, <2>2 DEF to_outcome
  <2>4. QED
    BY <2>3 DEF Ended
<1>3. QED
  BY <1>1, <1>2 DEF LogoutStatus, Ended

(* No step takes anything out of the browser or forgets an ended session.  *)
LEMMA OldResponses ==
  ASSUME WireTruthful, wire \subseteq wire', ended \subseteq ended', NEW m \in Response
  PROVE  MadeByTarget(m)'
<1>1. PICK i \in DOMAIN Targets, id \in {r.id : r \in wire} :
        /\ m.issuer = Targets[i].entity
        /\ m.in_response_to = {id}
        /\ to_outcome(m.status) \in Ended => <<i, id>> \in ended
        /\ m.binding \in ReplyBinding[i]
        /\ Targets[i].sign_responses => m.binding = "HttpRedirect" \/ m.enveloped # {}
  BY DEF WireTruthful, MadeByTarget
<1>2. id \in {r.id : r \in wire'}
  OBVIOUS
<1>3. to_outcome(m.status) \in Ended => <<i, id>> \in ended'
  BY <1>1
<1>4. QED
  BY <1>1, <1>2, <1>3 DEF MadeByTarget

(* Every step keeps the browser's content truthful.                        *)
LEMMA StepWire ==
  ASSUME TypeOK, WireTruthful, [Next]_vars
  PROVE  WireTruthful'
<1>1. ASSUME wire' = wire \/ \E i \in DOMAIN Targets :
                 wire' = wire \cup {LogoutRequest(Idp, Targets[i], "HttpRedirect", issued + 1)},
             ended' = ended
      PROVE  WireTruthful'
  <2>1. Response' = Response
    BY <1>1 DEF Response, LogoutRequest
  <2>2. QED
    BY <1>1, <2>1, OldResponses DEF WireTruthful
<1>2. ASSUME NEW i \in DOMAIN Targets, NEW r \in wire, NEW status \in Reply,
             NEW b \in ReplyBinding[i], TargetAnswers(i, r, status, b)
      PROVE  WireTruthful'
  <2> DEFINE m == build_logout_response(Targets[i], Idp, r, status, b)
  <2>1. wire' = wire \cup {m}
    BY <1>2 DEF TargetAnswers
  <2>2. ended' = IF status \in Ended THEN ended \cup {<<i, r.id>>} ELSE ended
    BY <1>2 DEF TargetAnswers, Ended
  <2>3. /\ m.issuer = Targets[i].entity /\ m.in_response_to = {r.id}
        /\ m.status = build_status(status) /\ m.binding = b
        /\ m.enveloped = EnvelopedResponseSignature(Targets[i], b)
    BY DEF build_logout_response
  <2>4. to_outcome(m.status) \in Ended => <<i, r.id>> \in ended'
    BY <2>2, <2>3, StatusRoundTrip, ChainAssumption
  <2>5. Targets[i].sign_responses => m.binding = "HttpRedirect" \/ m.enveloped # {}
    BY <2>3 DEF EnvelopedResponseSignature, SignedBy
  <2>6. MadeByTarget(m)'
    BY <2>1, <2>3, <2>4, <2>5 DEF MadeByTarget
  <2>7. wire \subseteq wire' /\ ended \subseteq ended' /\ Response' \subseteq Response \cup {m}
    BY <2>1, <2>2 DEF Response
  <2>8. QED
    BY <2>6, <2>7, OldResponses DEF WireTruthful
<1>3. CASE start
  BY <1>1, <1>3, ChainAssumption DEF start, WaitFor
<1>4. CASE Advance
  <2>1. PICK m \in Response : AdvanceLast(m) \/ AdvanceNext(m) \/ AdvanceFails(m)
    BY <1>4 DEF Advance, Response
  <2>2. CASE AdvanceLast(m) \/ AdvanceFails(m)
    BY <1>1, <2>2 DEF AdvanceLast, AdvanceFails, StartFails
  <2>3. CASE AdvanceNext(m)
    <3>1. index + 1 \in DOMAIN Targets
      BY <2>3, ChainAssumption DEF AdvanceNext, Running, TypeOK
    <3>2. ended' = ended /\ wire' = wire \cup
            {LogoutRequest(Idp, Targets[index + 1], "HttpRedirect", issued + 1)}
      BY <2>3 DEF AdvanceNext, WaitFor
    <3>3. QED
      BY <1>1, <3>1, <3>2
  <2>4. QED
    BY <2>1, <2>2, <2>3
<1>5. CASE Answers
  BY <1>2, <1>5 DEF Answers
<1>6. CASE UNCHANGED vars
  BY <1>1, <1>6 DEF vars
<1>7. QED
  BY <1>3, <1>4, <1>5, <1>6 DEF Next

(* The entry advance makes of a response for the current target.           *)
NewEntry(m) == [target |-> index, outcome |-> Verdict(m), id |-> request]

(* Appending it adds that entry and no other.                              *)
LEMMA RecordedEntries ==
  ASSUME TypeOK, NEW m, NEW n \in DOMAIN Recorded(m)
  PROVE  \/ Recorded(m)[n] = NewEntry(m)
         \/ \E k \in DOMAIN pending : Recorded(m)[n] = pending[k]
<1>1. pending \in Seq(OutcomeEntry)
  BY DEF TypeOK
<1>2. Recorded(m) = Append(pending, NewEntry(m))
  BY DEF Recorded, NewEntry
<1>3. /\ DOMAIN pending = 1..Len(pending) /\ Len(pending) \in Nat
      /\ DOMAIN Append(pending, NewEntry(m)) = 1..(Len(pending) + 1)
      /\ \A k \in 1..Len(pending) : Append(pending, NewEntry(m))[k] = pending[k]
      /\ Append(pending, NewEntry(m))[Len(pending) + 1] = NewEntry(m)
  BY <1>1
<1>4. QED
  BY <1>2, <1>3

Entries == UNION {{list[n] : n \in DOMAIN list} : list \in {pending} \cup outcomes}

(* So an entry of a list was there before or is made of a response.        *)
LEMMA StepEntries ==
  ASSUME TypeOK, [Next]_vars, NEW e \in Entries'
  PROVE  \/ e \in Entries
         \/ Running /\ \E m \in Response : e = NewEntry(m)
<1>1. CASE start
  <2>1. pending' = pending /\ outcomes' \subseteq outcomes \cup {<<>>}
    BY <1>1 DEF start
  <2>2. QED
    BY <2>1 DEF Entries
<1>2. ASSUME NEW m \in Response, AdvanceLast(m) \/ AdvanceNext(m) \/ AdvanceFails(m)
      PROVE  \/ e \in Entries
             \/ Running /\ \E r \in Response : e = NewEntry(r)
  <2>1. Running /\ ({pending'} \cup outcomes') \subseteq {<<>>, Recorded(m)} \cup outcomes
    BY <1>2 DEF AdvanceLast, AdvanceNext, AdvanceFails
  <2>2. PICK list \in {<<>>, Recorded(m)} \cup outcomes : \E n \in DOMAIN list : e = list[n]
    BY <2>1 DEF Entries
  <2>3. CASE list \in outcomes
    BY <2>2, <2>3 DEF Entries
  <2>4. CASE list = Recorded(m)
    <3>1. PICK n \in DOMAIN Recorded(m) : e = Recorded(m)[n]
      BY <2>2, <2>4
    <3>2. e = NewEntry(m) \/ \E k \in DOMAIN pending : e = pending[k]
      BY <3>1, RecordedEntries
    <3>3. QED
      BY <2>1, <3>2 DEF Entries
  <2>5. CASE list = <<>>
    BY <2>2, <2>5
  <2>6. QED
    BY <2>2, <2>3, <2>4, <2>5
<1>3. CASE Answers
  BY <1>3 DEF Answers, TargetAnswers, Entries
<1>4. CASE UNCHANGED vars
  BY <1>4 DEF vars, Entries
<1>5. QED
  BY <1>1, <1>2, <1>3, <1>4 DEF Next, Advance, Response

(* No step takes back that a session has ended, or what the browser holds. *)
LEMMA HistoryGrows == [Next]_vars => ended \subseteq ended' /\ wire \subseteq wire'
BY DEF Next, vars, start, WaitFor, StartFails, Advance, AdvanceLast, AdvanceNext,
       AdvanceFails, Answers, TargetAnswers

(* Outcomes reported as logged out, and what stands behind an outcome.     *)
TrueEntries == \A e \in Entries : e.outcome \in Ended => <<e.target, e.id>> \in ended

SignedPost(m, e) ==
  /\ m \in AnswersOver("HttpPost", e.target)
  /\ m.in_response_to = {e.id} /\ m.enveloped # {}

VerifiedEntry(e) ==
  /\ Idp.want_responses /\ e.outcome \in Ended => \E m \in wire : SignedPost(m, e)
  /\ Targets[e.target].sign_responses /\ e.outcome = "SignatureMissing"
       => AnswersOver("HttpRedirect", e.target) # {}

(* A new entry is true of the target that made the response.               *)
LEMMA NewEntryTrue ==
  ASSUME TypeOK, WireTruthful, Running, NEW m \in Response
  PROVE  /\ NewEntry(m).outcome \in Ended => <<index, request>> \in ended
         /\ VerifiedEntry(NewEntry(m))
<1>1. index \in DOMAIN Targets
  BY ChainAssumption DEF TypeOK, Running
<1>2. PICK i \in DOMAIN Targets, id \in {r.id : r \in wire} :
        /\ m.issuer = Targets[i].entity
        /\ m.in_response_to = {id}
        /\ to_outcome(m.status) \in Ended => <<i, id>> \in ended
        /\ m.binding \in ReplyBinding[i]
        /\ Targets[i].sign_responses => m.binding = "HttpRedirect" \/ m.enveloped # {}
  BY DEF WireTruthful, MadeByTarget
<1>3. NewEntry(m).outcome = Verdict(m)
  BY DEF NewEntry
<1>4. ASSUME Verdict(m) \in Ended PROVE <<index, request>> \in ended
  <2>1. m.issuer = Targets[index].entity /\ {id} = {request} /\ to_outcome(m.status) \in Ended
    BY <1>2, <1>4, PassedIsBound
  <2>2. i = index /\ id = request
    BY <1>1, <1>2, <2>1, DistinctTargets
  <2>3. QED
    BY <1>2, <2>1, <2>2
<1>5. ASSUME Verdict(m) \in Ended, Idp.want_responses
      PROVE  SignedPost(m, NewEntry(m))
  <2>1. /\ m.issuer = Targets[index].entity /\ m.in_response_to = {request}
        /\ m.binding # "HttpRedirect" /\ m.enveloped # {}
    BY <1>5, PassedIsBound
  <2>2. m.binding \in {"HttpRedirect", "HttpPost"}
    BY <1>2, ChainAssumption
  <2>3. QED
    BY <2>1, <2>2 DEF SignedPost, NewEntry, AnswersOver, Response
<1>6. ASSUME Verdict(m) = "SignatureMissing", Targets[index].sign_responses
      PROVE  m \in AnswersOver("HttpRedirect", index)
  <2>1. m.issuer = Targets[index].entity /\ (m.binding # "HttpRedirect" => m.enveloped = {})
    BY <1>6, UnsignedIsIssuers
  <2>2. i = index
    BY <1>1, <1>2, <2>1, DistinctTargets
  <2>3. QED
    BY <1>2, <1>6, <2>1, <2>2 DEF AnswersOver, Response
<1>7. VerifiedEntry(NewEntry(m))
  <2>1. NewEntry(m).target = index
    BY DEF NewEntry
  <2>2. QED
    BY <1>3, <1>5, <1>6, <2>1 DEF VerifiedEntry, Response
<1>8. QED
  BY <1>3, <1>4, <1>7

-----------------------------------------------------------------------------

(* advance never reports a logout that did not happen: a Success or a      *)
(* PartialLogout stands for a session that very target ended on that very  *)
(* request, whatever the browser repeats, delays or mixes up.              *)
THEOREM ChainTruthful == Spec => []Truthful
<1> DEFINE Inv == TypeOK /\ Progress /\ WireTruthful /\ TrueEntries
<1>1. Init => Inv
  <2> SUFFICES ASSUME Init PROVE WireTruthful /\ TrueEntries
    BY InitProgress
  <2>1. Entries = {} /\ Response = {}
    BY DEF Init, Entries, Response
  <2>2. QED
    BY <2>1 DEF WireTruthful, TrueEntries
<1>2. Inv /\ [Next]_vars => Inv'
  <2> SUFFICES ASSUME Inv, [Next]_vars PROVE Inv'
    OBVIOUS
  <2>1. TypeOK' /\ Progress' /\ WireTruthful'
    BY StepProgress, StepWire
  <2>2. ended \subseteq ended'
    BY HistoryGrows
  <2>3. TrueEntries'
    <3> SUFFICES ASSUME NEW e \in Entries', e.outcome \in Ended
                 PROVE  <<e.target, e.id>> \in ended'
      BY DEF TrueEntries, Ended
    <3>1. CASE e \in Entries
      BY <3>1, <2>2 DEF TrueEntries
    <3>2. CASE Running /\ \E m \in Response : e = NewEntry(m)
      <4>1. PICK m \in Response : e = NewEntry(m)
        BY <3>2
      <4>2. e.target = index /\ e.id = request
        BY <4>1 DEF NewEntry
      <4>3. QED
        BY <3>2, <4>1, <4>2, <2>2, NewEntryTrue
    <3>3. QED
      BY <3>1, <3>2, StepEntries
  <2>4. QED
    BY <2>1, <2>3
<1>3. Inv => Truthful
  BY DEF TrueEntries, Entries, Truthful, Ended
<1>4. QED
  BY <1>1, <1>2, <1>3, PTL DEF Spec

(* Every entry has behind it what its outcome says.                        *)
VerifiedInv ==
  TypeOK /\ Progress /\ WireTruthful /\ (\A e \in Entries : VerifiedEntry(e))

LEMMA VerifiedStays ==
  ASSUME wire \subseteq wire', NEW e, VerifiedEntry(e)
  PROVE  VerifiedEntry(e)'
BY DEF VerifiedEntry, SignedPost, AnswersOver

LEMMA StepVerified == Spec => []VerifiedInv
<1>1. Init => VerifiedInv
  <2> SUFFICES ASSUME Init PROVE WireTruthful /\ Entries = {}
    BY InitProgress DEF VerifiedInv
  <2>1. Entries = {} /\ Response = {}
    BY DEF Init, Entries, Response
  <2>2. QED
    BY <2>1 DEF WireTruthful
<1>2. VerifiedInv /\ [Next]_vars => VerifiedInv'
  <2> SUFFICES ASSUME VerifiedInv, [Next]_vars PROVE VerifiedInv'
    OBVIOUS
  <2>1. TypeOK' /\ Progress' /\ WireTruthful'
    BY StepProgress, StepWire DEF VerifiedInv
  <2>2. wire \subseteq wire'
    BY HistoryGrows
  <2>3. ASSUME NEW e \in Entries' PROVE VerifiedEntry(e)'
    <3>1. CASE e \in Entries
      BY <3>1, <2>2, VerifiedStays DEF VerifiedInv
    <3>2. CASE Running /\ \E m \in Response : e = NewEntry(m)
      <4>1. PICK m \in Response : e = NewEntry(m)
        BY <3>2
      <4>2. VerifiedEntry(NewEntry(m))
        BY <3>2, NewEntryTrue DEF VerifiedInv
      <4>3. VerifiedEntry(e)
        BY <4>1, <4>2
      <4>4. QED
        BY <4>3, <2>2, VerifiedStays
    <3>3. QED
      BY <3>1, <3>2, StepEntries DEF VerifiedInv
  <2>4. QED
    BY <2>1, <2>3 DEF VerifiedInv
<1>3. QED
  BY <1>1, <1>2, PTL DEF Spec

(* What advance verifies, whatever bindings the targets answer on: for an  *)
(* IdP that wants responses signed a completed logout has behind it a      *)
(* signed POST answer of that target to that request, and a signing target *)
(* is called unsigned only if it answered over Redirect.                   *)
THEOREM ChainVerifies == Spec => []PostAnswersVerified
<1>1. VerifiedInv => PostAnswersVerified
  BY DEF VerifiedInv, VerifiedEntry, SignedPost, Entries, PostAnswersVerified, Ended
<1>2. QED
  BY <1>1, StepVerified, PTL

(* When no target answers over Redirect, a target that signs its responses *)
(* is never reported as unsigned. (Over Redirect advance hands on no       *)
(* detached signature.)                                                    *)
THEOREM ChainSigned ==
  ASSUME \A i \in DOMAIN Targets : "HttpRedirect" \notin ReplyBinding[i]
  PROVE  Spec => []SignedTargetsVerify
<1>1. VerifiedInv => SignedTargetsVerify
  <2> SUFFICES ASSUME VerifiedInv, NEW e \in Entries, Targets[e.target].sign_responses
               PROVE  e.outcome # "SignatureMissing"
    BY DEF SignedTargetsVerify, Entries
  <2>1. ASSUME NEW m \in AnswersOver("HttpRedirect", e.target) PROVE FALSE
    <3>1. m \in Response /\ m.binding = "HttpRedirect"
      BY <2>1 DEF AnswersOver, Response
    <3>2. MadeByTarget(m)
      BY <3>1 DEF VerifiedInv, WireTruthful
    <3>3. QED
      BY <3>1, <3>2 DEF MadeByTarget
  <2>2. QED
    BY <2>1 DEF VerifiedInv, VerifiedEntry
<1>2. QED
  BY <1>1, StepVerified, PTL
=============================================================================
