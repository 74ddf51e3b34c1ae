---------------------------- MODULE ReplayCache ----------------------------
(***************************************************************************)
(* InMemoryReplayCache under concurrent callers (src/src/replay.rs). The   *)
(* Mutex makes each check_and_insert one step. `now` is an argument: each  *)
(* caller read the clock before it took the lock, and MaxLag bounds how    *)
(* far the clock may have moved in between. MaxLag = 0 is the case of      *)
(* callers whose `now` values reach the cache in clock order.              *)
(***************************************************************************)
EXTENDS ReplayStore

CONSTANTS Key,         \* namespaced keys
          Batches,     \* the batches (sequences of entries) callers present
          Capacity,    \* InMemoryReplayCache::capacity
          MaxTime,     \* bound on the clock
          MaxLag       \* bound on (clock - now) when a caller gets the lock

Entry == [key : Key, expires_at : Nat]

ASSUME CacheAssumption ==
  /\ Batches \subseteq Seq(Entry)
  /\ Capacity \in Nat
  /\ MaxTime \in Nat
  /\ MaxLag \in Nat

VARIABLES clock,       \* the wall clock callers read
          store,       \* the HashMap behind the Mutex
          granted,     \* history: every tombstone ever inserted
          swept,       \* history: the latest `now` the cache was called with
          last         \* history: the last call and its outcome

vars == <<clock, store, granted, swept, last>>

Outcomes == {"none", "fresh", "seen", "full"}

Init ==
  /\ clock = 0
  /\ store = EmptyStore
  /\ granted = {}
  /\ swept = 0
  /\ last = [entries |-> <<>>, now |-> 0, outcome |-> "none"]

Tick ==
  /\ clock < MaxTime
  /\ clock' = clock + 1
  /\ UNCHANGED <<store, granted, swept, last>>

(* One check_and_insert(entries, now) by a caller that read the clock at   *)
(* most MaxLag ago.                                                        *)
CheckAndInsert(entries, now) ==
  LET outcome == Outcome(store, entries, now, Capacity) IN
  /\ now <= clock /\ clock <= now + MaxLag
  /\ store' = StoreAfter(store, entries, now, Capacity)
  /\ granted' = IF outcome = "fresh"
                  THEN granted \cup {entries[i] : i \in DOMAIN entries}
                  ELSE granted
  /\ swept' = IF now > swept THEN now ELSE swept
  /\ last' = [entries |-> entries, now |-> now, outcome |-> outcome]
  /\ UNCHANGED clock

Next == Tick \/ \E entries \in Batches, now \in 0..MaxTime : CheckAndInsert(entries, now)

Spec == Init /\ [][Next]_vars

-----------------------------------------------------------------------------

(* Type correctness of the cache's map and of the history kept beside it.  *)
TypeOK ==
  /\ clock \in Nat
  /\ DOMAIN store \subseteq Key
  /\ \A k \in DOMAIN store : store[k] \in Nat
  /\ granted \subseteq Entry
  /\ swept \in 0..clock
  /\ last \in [entries : Seq(Entry), now : Nat, outcome : Outcomes]

(* The retention clause of the ReplayCache contract: a tombstone handed    *)
(* out by check_and_insert stays in the map, with the expiry it was given, *)
(* until some call is made at or after that expiry - whatever the order in *)
(* which the callers' clock values arrive. Dropping it earlier would       *)
(* reopen a replay window.                                                 *)
TombstoneRetained ==
  \A g \in granted :
    g.expires_at > swept => g.key \in DOMAIN store /\ store[g.key] >= g.expires_at

(* Capacity is a hard bound: however batches and sweeps interleave the map *)
(* never outgrows it (fail closed rather than evict).                      *)
CapacityBound == Cardinality(DOMAIN store) <= Capacity

(* ReplayCacheFull is returned only when the tombstones that are still     *)
(* live at the caller's own `now`, together with the batch, really exceed  *)
(* the capacity: entries that merely have not been swept yet never refuse  *)
(* a login.                                                                *)
FullOnlyWhenLive ==
  [][last'.outcome = "full" =>
       Cardinality({k \in DOMAIN store : store[k] > last'.now})
         + Len(last'.entries) > Capacity]_last

(* The trait contract: the map, with its sweep and its capacity, behaves   *)
(* as the specification in which no grant is ever forgotten.               *)
Contract == INSTANCE ReplayContract WITH Instants <- 0..MaxTime

ImplementsContract == Contract!Spec
=============================================================================
