--------------------------- MODULE ExpiringStore ---------------------------
(***************************************************************************)
(* The bounded in-memory maps of the example applications                  *)
(* (src/examples/idp/src/lib.rs, src/examples/demo/src/lib.rs): pending    *)
(* requests, login trackers, logout trackers, stashed artifacts. All are   *)
(* the same map with the same three steps on insertion; each has its own   *)
(* capacity and its own age.                                               *)
(*                                                                         *)
(* A store is a function from keys to entries [at : insertion time, value].*)
(***************************************************************************)
EXTENDS Integers, FiniteSets

Empty == [k \in {} |-> 0]

Without(store, keys) == [k \in DOMAIN store \ keys |-> store[k]]

(* map.retain(age < STALE_AFTER): only an insertion removes old entries.   *)
Retain(store, now, stale_after) ==
  Without(store, {k \in DOMAIN store : now - store[k].at >= stale_after})

Oldest(store) ==
  {k \in DOMAIN store : \A j \in DOMAIN store : store[k].at <= store[j].at}

(* Mutant: the comparison is the wrong way round.                          *)
MakeRoomForOldest(store, max) ==
  IF Cardinality(DOMAIN store) < max THEN {store}
  ELSE {Without(store, {k}) : k \in {k \in DOMAIN store :
                                       \A j \in DOMAIN store : store[k].at >= store[j].at}}

(* A full map loses one of its oldest entries; which one, when several are *)
(* equally old, is up to the HashMap's order.                              *)
MakeRoom(store, max) ==
  IF Cardinality(DOMAIN store) < max THEN {store}
  ELSE {Without(store, {k}) : k \in Oldest(store)}

Put(store, key, entry) ==
  [k \in DOMAIN store \cup {key} |-> IF k = key THEN entry ELSE store[k]]

(* The stores insert() may leave behind.                                   *)
Insert(store, key, value, now, stale_after, max) ==
  {Put(s, key, [at |-> now, value |-> value]) :
     s \in MakeRoom(Retain(store, now, stale_after), max)}

(* get(): an entry of any age, as long as no insertion has removed it.     *)
Get(store, key) == {store[k].value : k \in {key} \cap DOMAIN store}

(* take(): what is there, and the store without it.                        *)
Take(store, key) == [found |-> Get(store, key), rest |-> Without(store, {key})]
=============================================================================
