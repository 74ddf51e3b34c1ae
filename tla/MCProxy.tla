------------------------------ MODULE MCProxy ------------------------------
(* Two proxy instances over one cache, upstream key rotation, downstream   *)
(* metadata that changes its encryption key or moves its ACS.              *)
EXTENDS Proxy, TLC

CONSTANTS f1, f2, k1, k2, a1, a2, x1, x2

Sym == Permutations({f1, f2}) \cup Permutations({a1, a2}) \cup Permutations({x1, x2})

Acs1 == [url |-> "sp/acs", binding |-> "HttpPost", index |-> 1]
Acs2 == [url |-> "sp/acs2", binding |-> "HttpArtifact", index |-> 1]

Stable == {[enc |-> {"e1"}, acs |-> {Acs1}]}
Renumbered == {[enc |-> {"e1"}, acs |-> {[Acs1 EXCEPT !.index = 2]}]}
Changing == Stable \cup {[enc |-> {"e2"}, acs |-> {Acs1}], [enc |-> {"e1"}, acs |-> {Acs2}]}

Mfa == [comparison |-> "Minimum", class_refs |-> {"MultiFactorAuth"}]

NameId(value, f) == [value |-> value, format |-> f, sp_name_qualifier |-> {}]

PassThrough == [kind |-> "PassThrough"]
Pseudonym == [kind |-> "PersistentPerSpHmac", format |-> "Transient"]
FromMail == [kind |-> "NameIdFromAttribute", format |-> "Email", attribute |-> "mail"]

Attributes == <<[name |-> "mail", values |-> <<"m1", "m2">>], [name |-> "roles", values |-> <<>>]>>

(* Two plain logins at once, each answered by any of two assertions, until *)
(* after their contexts have expired;                                      *)
Plain ==
  [instances |-> {"p1", "p2"},
   metadata |-> [s \in {"sp1"} |-> Stable], certs |-> {k1}, aids |-> {a1, a2},
   requested |-> {{}}, class_refs |-> {{"Password"}}, formats |-> {{}},
   name_ids |-> {NameId("alice", "Transient")}, session_ends |-> {{}},
   confirmations |-> {2}, attributes |-> <<>>, transforms |-> {PassThrough}, allow_lists |-> [s \in {} |-> {}],
   max_time |-> 4, max_messages |-> 2, max_flows |-> 2]

(* or one login, with everything that can differ.                          *)
Varied ==
  [instances |-> {"p1"},
   metadata |-> [s \in {"sp1", "sp2"} |-> IF s = "sp1" THEN Changing ELSE Stable],
   certs |-> {k1, k2}, aids |-> {a1, a2},
   requested |-> {{}, {Mfa}}, class_refs |-> {{"Password"}, {"MultiFactorAuth"}},
   formats |-> {{}, {"Email"}, {"Kerberos"}},
   name_ids |-> {NameId("alice", "Transient"), NameId("alice", "Email")}, session_ends |-> {{}, {1}},
   confirmations |-> {2},
   attributes |-> Attributes, transforms |-> {PassThrough, FromMail},
   allow_lists |-> [s \in {"sp1"} |-> {"mail"}],
   max_time |-> 1, max_messages |-> 1, max_flows |-> 1]

(* or two logins of two users at two service providers, under pseudonyms.  *)
Pseudonymous ==
  [Plain EXCEPT !.metadata = [s \in {"sp1", "sp2"} |-> Stable],
                !.name_ids = {NameId("alice", "Transient"), NameId("bob", "Transient")},
                !.attributes = Attributes, !.transforms = {Pseudonym},
                !.allow_lists = [s \in {"sp1"} |-> {"mail"}], !.max_time = 0]

(* or one login whose upstream deadlines come in any order and whose ACS   *)
(* may get another index.                                                  *)
Deadline ==
  [Plain EXCEPT !.instances = {"p1"}, !.aids = {a1}, !.session_ends = {{}, {1}, {2}},
                !.metadata = [s \in {"sp1"} |-> Stable \cup Renumbered],
                !.confirmations = {1, 2, 3}, !.max_time = 3, !.max_messages = 1, !.max_flows = 1]

Deployments == {Plain, Varied, Pseudonymous, Deadline}
=============================================================================
