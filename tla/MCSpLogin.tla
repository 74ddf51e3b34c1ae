----------------------------- MODULE MCSpLogin -----------------------------
(* Two small instances of SpLogin, each with its own variables, checked in *)
(* one run: `which` says the instance a behaviour is of, and the other one *)
(* does not move.                                                          *)
(*                                                                         *)
(* "cache" (the constants of the .cfg): one IdP, two assertion IDs, three  *)
(* handlers that may run in any order, every replay setting, a cache with  *)
(* room for one tombstone.                                                 *)
(*                                                                         *)
(* "bind": two IdPs, one of them rotating its certificate, two logins, two *)
(* ACS endpoints and a route that differs only in binding.                   *)
EXTENDS SpLogin, TLC

CONSTANTS
  c1, c2, c3, a1, a2, k0,               \* calls, assertion IDs, key of "cache"
  d1, b1, l1, l2, k1, k2, k3            \* call, assertion ID, ... of "bind"

VARIABLES which, b_clock, b_roots, b_tracker, b_wire, b_store, b_call, b_swept

bvars == <<b_clock, b_roots, b_tracker, b_wire, b_store, b_call, b_swept>>

MCSymmetry ==
  {p @@ q : p \in Permutations({c1, c2, c3}), q \in Permutations({a1, a2})}
    \cup {p @@ q : p \in Permutations({k1, k2}), q \in Permutations({l1, l2})}

OneCert == [i \in {"idp1"} |-> {k0}]
Rotating == [i \in {"idp1", "idp2"} |-> IF i = "idp1" THEN {k1, k2} ELSE {k3}]

Post(u) == [url |-> u, binding |-> "HttpPost"]
Artifact(u) == [url |-> u, binding |-> "HttpArtifact"]

OneAcs == {Post("acs1")}

Transient == {[format |-> "Transient", sp_name_qualifier |-> {}]}
OtherQualifier == {[format |-> "Persistent", sp_name_qualifier |-> {"other"}]}

AskNone == {{}}

Bind == INSTANCE SpLogin WITH
  Idp <- {"idp1", "idp2"}, CertsOf <- Rotating, Login <- {l1, l2}, Aid <- {b1},
  Call <- {d1}, Acs <- {Post("acs1"), Artifact("acs2")},
  Route <- {Post("acs1"), Artifact("acs1")}, NameId <- Transient \cup OtherQualifier,
  RequestedFormat <- {{"Transient"}}, OneTimeUse <- {FALSE}, Mode <- {"All"},
  AllowUnsolicited <- TRUE, WantResponse <- TRUE, WantAssertions <- FALSE,
  MaxAge <- 0, Lifetime <- 1, Skew <- 0, Capacity <- 1, MaxTime <- 0, MaxLag <- 1,
  MaxMessages <- 1, clock <- b_clock, roots <- b_roots, tracker <- b_tracker,
  wire <- b_wire, store <- b_store, call <- b_call, swept <- b_swept

CacheInit ==
  /\ which = "cache" /\ Init
  /\ b_clock = 0 /\ b_roots = {} /\ b_tracker = {} /\ b_wire = {} /\ b_store = {}
  /\ b_call = {} /\ b_swept = 0

BindInit ==
  which = "bind" /\ Init /\ Bind!Init

(* Bounds: the metadata of "cache" does not change, and nothing is         *)
(* explored once the one call of "bind" is answered.                       *)
SameMetadata == UNCHANGED roots
Undecided == b_call[d1].pc \in {"idle", "received"}

MCNext ==
  /\ UNCHANGED which
  /\ \/ which = "cache" /\ Next /\ SameMetadata /\ UNCHANGED bvars
     \/ which = "bind" /\ Undecided /\ Bind!Next /\ UNCHANGED vars

MCSpec == (CacheInit \/ BindInit) /\ [][MCNext]_<<which, vars, bvars>>

(* Only "cache", for the run with a lag.                                   *)
LagSpec == CacheInit /\ [][MCNext]_<<which, vars, bvars>>

(* LoginBound of "bind": a login is completed only by the IdP, for the     *)
(* request, at the endpoint and under the keys it was started with         *)
(* (consume_response against the tracker of start_login).                  *)
LoginsBound == which = "bind" => Bind!LoginBound
=============================================================================
