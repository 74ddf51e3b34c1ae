----------------------------- MODULE MCArtifact -----------------------------
(* Two service providers and two identity providers; the IdP that issues   *)
(* has two resolution services of which the second is the default. Its     *)
(* metadata loses an endpoint; the metadata of one SP gains a certificate. *)
EXTENDS Artifact, TLC

CONSTANTS h1, h2, g1, g2, c1, c2, l1, l2

Certs1 == [i \in {"i1", "i2"} |-> IF i = "i1" THEN {"ki1"} ELSE {"ki2"}]
SpKeys == [s \in {"s1", "s2"} |-> IF s = "s1" THEN {"k1", "k1new"} ELSE {"k2"}]

E(index, url, default) == [index |-> index, url |-> url, is_default |-> default]
Listed(index, url) == [index |-> index, url |-> url]

Configured ==
  [i \in {"i1", "i2"} |->
     IF i = "i1" THEN <<E(0, "i1/ars0", FALSE), E(1, "i1/ars1", TRUE)>>
                 ELSE <<E(1, "i2/ars1", FALSE)>>]

Home == [certs |-> {"ki1"}, ars |-> {Listed(0, "i1/ars0"), Listed(1, "i1/ars1")}]
Metadata ==
  [i \in {"i1", "i2"} |->
     IF i = "i1" THEN {Home, [Home EXCEPT !.ars = {Listed(0, "i1/ars0")}]}
                 ELSE {[certs |-> {"ki2"}, ars |-> {Listed(1, "i2/ars1")}]}]
KeySets ==
  [s \in {"s1", "s2"} |-> IF s = "s1" THEN {{"k1"}, {"k1", "k1new"}} ELSE {{"k2"}}]

SignWith ==
  [s \in {"s1", "s2"} |-> IF s = "s1" THEN {{}, {"k1"}, {"k1new"}} ELSE {{"k2"}}]
CallsOfS1 == [c \in {c1, c2} |-> "s1"]
VerifyAlways == {{TRUE}}

(* Overlapping resolutions at one instant with settled metadata, or one    *)
(* resolution at a time while the clock and the metadata move.             *)
Settled ==
  /\ clock = 0 /\ spmeta["s1"] = {"k1"}
  /\ \A q \in resolves : q.by = "call" /\ q.sig \subseteq {"k1", "k2"}
Moving ==
  /\ idpmeta["i1"] = Home
  /\ \A l \in Login : \A t \in tracker[l] : t.idp = "i1"
  /\ \A l, m \in Login : \A t \in tracker[l], u \in tracker[m] : t.sp = u.sp => l = m
  /\ Cardinality({c \in Call : call[c] # Idle}) <= 1
  /\ clock > 0 => resolves # {}
Scenario == Settled \/ Moving

Sym == Permutations({l1, l2}) \cup Permutations({h1, h2}) \cup Permutations({g1, g2})
       \cup Permutations({c1, c2})
=============================================================================
