---------------------------- MODULE ReplayStore ----------------------------
(***************************************************************************)
(* The map inside InMemoryReplayCache and the one operation on it,         *)
(* check_and_insert (src/src/replay.rs), as operators on a store: a        *)
(* function from namespaced keys to the instant the tombstone expires.     *)
(* The modules that share a cache (the SP, the proxy, the IdP's artifact   *)
(* endpoint) apply these operators to a store variable of their own.       *)
(***************************************************************************)
EXTENDS Integers, Sequences, FiniteSets

ReplayEntry(namespace, id, expires_at) ==
  [key |-> <<namespace, id>>, expires_at |-> expires_at]

EmptyStore == [k \in {} |-> 0]

(* Mutant: a sweep that drops tombstones one instant early.                *)
SweepEarly(store, now) ==
  [k \in {k \in DOMAIN store : store[k] > now + 1} |-> store[k]]

(* guard.retain(|_, exp| *exp > now): the sweep every call starts with.    *)
Sweep(store, now) ==
  [k \in {k \in DOMAIN store : store[k] > now} |-> store[k]]

Keys(entries) == {entries[i].key : i \in DOMAIN entries}

(* A key twice in one batch, or already in the swept store.                *)
Conflict(store, entries) ==
  \/ \E i, j \in DOMAIN entries : i # j /\ entries[i].key = entries[j].key
  \/ Keys(entries) \cap DOMAIN store # {}

Insert(store, entries) ==
  [k \in DOMAIN store \cup Keys(entries) |->
     IF k \in Keys(entries)
       THEN entries[CHOOSE i \in DOMAIN entries : entries[i].key = k].expires_at
       ELSE store[k]]

(* Mutant: the capacity is compared with the map before the sweep.         *)
OutcomeBeforeSweep(store, entries, now, capacity) ==
  IF Conflict(Sweep(store, now), entries) THEN "seen"
  ELSE IF Cardinality(DOMAIN store) + Len(entries) > capacity THEN "full"
  ELSE "fresh"

(* The outcome of check_and_insert: Ok(true), Ok(false) or the error.      *)
Outcome(store, entries, now, capacity) ==
  LET swept == Sweep(store, now) IN
  IF Conflict(swept, entries) THEN "seen"
  ELSE IF Cardinality(DOMAIN swept) + Len(entries) > capacity THEN "full"
  ELSE "fresh"

(* Mutant: a full cache makes room by evicting what it holds.              *)
StoreAfterEvicting(store, entries, now, capacity) ==
  CASE Outcome(store, entries, now, capacity) = "fresh" -> Insert(Sweep(store, now), entries)
    [] Outcome(store, entries, now, capacity) = "seen"  -> Sweep(store, now)
    [] Outcome(store, entries, now, capacity) = "full"  -> EmptyStore

(* The store the call leaves behind. The sweep is kept on every path;      *)
(* entries are inserted on the fresh path only, all of them.               *)
StoreAfter(store, entries, now, capacity) ==
  IF Outcome(store, entries, now, capacity) = "fresh"
    THEN Insert(Sweep(store, now), entries)
    ELSE Sweep(store, now)
=============================================================================
