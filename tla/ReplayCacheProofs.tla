------------------------- MODULE ReplayCacheProofs -------------------------
(***************************************************************************)
(* Proofs about InMemoryReplayCache for every set of keys and batches,     *)
(* every capacity and every order of calls.                                *)
(***************************************************************************)
EXTENDS ReplayCache, TLAPS, FiniteSetTheorems, FunctionTheorems

-----------------------------------------------------------------------------
(* What the two store operators return.                                    *)

(* The sweep keeps exactly the entries that expire after `now`, unchanged. *)
LEMMA SweepFacts ==
  ASSUME NEW s, NEW now
  PROVE  /\ DOMAIN Sweep(s, now) = {k \in DOMAIN s : s[k] > now}
         /\ \A k \in DOMAIN Sweep(s, now) : Sweep(s, now)[k] = s[k]
BY DEF Sweep

(* The insertion of a batch keeps every other key.                         *)
LEMMA InsertFacts ==
  ASSUME NEW s, NEW es
  PROVE  /\ DOMAIN Insert(s, es) = DOMAIN s \cup Keys(es)
         /\ \A k \in DOMAIN s : k \notin Keys(es) => Insert(s, es)[k] = s[k]
BY DEF Insert

(* Each key of the batch gets the expiry of an entry with that key.        *)
LEMMA InsertedExpiry ==
  ASSUME NEW s, NEW es, NEW k \in Keys(es)
  PROVE  \E i \in DOMAIN es : es[i].key = k /\ Insert(s, es)[k] = es[i].expires_at
<1>1. \E i \in DOMAIN es : es[i].key = k
  BY DEF Keys
<1>2. Insert(s, es)[k] = es[CHOOSE i \in DOMAIN es : es[i].key = k].expires_at
  BY DEF Insert
<1>3. QED
  BY <1>1, <1>2

-----------------------------------------------------------------------------
(* The inductive invariant. TombstoneRetained alone is not inductive: the  *)
(* map must also hold nothing but granted tombstones.                      *)

(* Every entry of the map was granted, with the expiry it has there.       *)
StoreGranted ==
  \A k \in DOMAIN store : [key |-> k, expires_at |-> store[k]] \in granted

CacheInv == TypeOK /\ TombstoneRetained /\ StoreGranted

(* An empty cache satisfies the invariant.                                 *)
LEMMA InitInv == Init => CacheInv
<1> SUFFICES ASSUME Init PROVE CacheInv
  OBVIOUS
<1>1. DOMAIN store = {}
  BY DEF Init, EmptyStore
<1>2. <<>> \in Seq(Entry)
  OBVIOUS
<1> QED
  BY <1>1, <1>2 DEF Init, CacheInv, TypeOK, TombstoneRetained, StoreGranted, Outcomes

(* One check_and_insert preserves the invariant, whatever its outcome and  *)
(* however stale its `now`.                                                *)
LEMMA CallInv ==
  ASSUME CacheInv, NEW entries \in Batches, NEW now \in 0..MaxTime,
         CheckAndInsert(entries, now)
  PROVE  CacheInv'
<1> DEFINE kept == Sweep(store, now)
<1> USE CacheAssumption
<1>a. now \in Nat /\ clock \in Nat /\ swept \in Nat /\ swept <= clock /\ now <= clock
  BY DEF CheckAndInsert, CacheInv, TypeOK
<1>b. entries \in Seq(Entry) /\ (\A i \in DOMAIN entries : entries[i] \in Entry)
  OBVIOUS
<1>c. /\ DOMAIN kept = {k \in DOMAIN store : store[k] > now}
      /\ \A k \in DOMAIN kept : kept[k] = store[k]
  BY SweepFacts
<1>d. /\ swept' \in Nat /\ swept' >= swept /\ swept' >= now /\ swept' <= clock'
      /\ clock' = clock
  BY <1>a DEF CheckAndInsert
<1>e. Outcome(store, entries, now, Capacity) \in Outcomes
  BY DEF Outcome, Outcomes
<1>f. last' \in [entries : Seq(Entry), now : Nat, outcome : Outcomes]
  BY <1>a, <1>b, <1>e DEF CheckAndInsert
<1>1. CASE Outcome(store, entries, now, Capacity) # "fresh"
  <2>1. store' = kept /\ granted' = granted
    BY <1>1 DEF CheckAndInsert, StoreAfter
  <2>2. TypeOK'
    BY <2>1, <1>a, <1>c, <1>d, <1>f DEF CacheInv, TypeOK
  <2>3. TombstoneRetained'
    <3> SUFFICES ASSUME NEW g \in granted, g.expires_at > swept'
                 PROVE  g.key \in DOMAIN kept /\ kept[g.key] >= g.expires_at
      BY <2>1 DEF TombstoneRetained
    <3>1. g.expires_at \in Nat /\ g.expires_at > swept /\ g.expires_at > now
      BY <1>a, <1>d DEF CacheInv, TypeOK, Entry
    <3>2. g.key \in DOMAIN store /\ store[g.key] >= g.expires_at /\ store[g.key] \in Nat
      BY <3>1 DEF CacheInv, TombstoneRetained, TypeOK
    <3>3. QED
      BY <3>1, <3>2, <1>a, <1>c
  <2>4. StoreGranted'
    BY <2>1, <1>c DEF CacheInv, StoreGranted
  <2>5. QED
    BY <2>2, <2>3, <2>4 DEF CacheInv
<1>2. CASE Outcome(store, entries, now, Capacity) = "fresh"
  <2>1. store' = Insert(kept, entries)
    BY <1>2 DEF CheckAndInsert, StoreAfter
  <2>2. granted' = granted \cup {entries[i] : i \in DOMAIN entries}
    BY <1>2 DEF CheckAndInsert
  <2>3. ~Conflict(kept, entries)
    BY <1>2 DEF Outcome
  <2>4. /\ DOMAIN store' = DOMAIN kept \cup Keys(entries)
        /\ \A k \in DOMAIN kept : store'[k] = store[k] /\ k \notin Keys(entries)
        /\ \A k \in Keys(entries) : \E i \in DOMAIN entries :
             entries[i].key = k /\ store'[k] = entries[i].expires_at
    <3>1. \A k \in DOMAIN kept : k \notin Keys(entries)
      BY <2>3 DEF Conflict
    <3>2. /\ DOMAIN store' = DOMAIN kept \cup Keys(entries)
          /\ \A k \in DOMAIN kept : k \notin Keys(entries) => store'[k] = kept[k]
      BY <2>1, InsertFacts
    <3>3. \A k \in Keys(entries) : \E i \in DOMAIN entries :
            entries[i].key = k /\ store'[k] = entries[i].expires_at
      BY <2>1, InsertedExpiry
    <3>4. QED
      BY <3>1, <3>2, <3>3, <1>c
  <2>5. \A k \in Keys(entries) : \E i \in DOMAIN entries : entries[i].key = k
    BY DEF Keys
  <2>6. TypeOK'
    <3>1. DOMAIN store' \subseteq Key
      BY <2>4, <1>b, <1>c DEF CacheInv, TypeOK, Keys, Entry
    <3>2. \A k \in DOMAIN store' : store'[k] \in Nat
      BY <2>4, <1>b, <1>c DEF CacheInv, TypeOK, Entry
    <3>3. granted' \subseteq Entry
      BY <2>2, <1>b DEF CacheInv, TypeOK
    <3>4. QED
      BY <3>1, <3>2, <3>3, <1>a, <1>d, <1>f DEF TypeOK
  <2>7. TombstoneRetained'
    <3> SUFFICES ASSUME NEW g \in granted', g.expires_at > swept'
                 PROVE  g.key \in DOMAIN store' /\ store'[g.key] >= g.expires_at
      BY DEF TombstoneRetained
    <3>1. CASE g \in granted
      <4>1. g.expires_at \in Nat /\ g.expires_at > swept /\ g.expires_at > now
        BY <3>1, <1>a, <1>d DEF CacheInv, TypeOK, Entry
      <4>2. g.key \in DOMAIN store /\ store[g.key] >= g.expires_at /\ store[g.key] \in Nat
        BY <3>1, <4>1 DEF CacheInv, TombstoneRetained, TypeOK
      <4>3. QED
        BY <4>1, <4>2, <2>4, <1>a, <1>c
    <3>2. CASE g \in {entries[i] : i \in DOMAIN entries}
      <4>1. PICK i \in DOMAIN entries : g = entries[i]
        BY <3>2
      <4>2. g.key \in Keys(entries)
        BY <4>1 DEF Keys
      <4>3. PICK j \in DOMAIN entries :
              entries[j].key = g.key /\ store'[g.key] = entries[j].expires_at
        BY <4>2, <2>4
      <4>4. i = j
        BY <4>1, <4>3, <2>3 DEF Conflict
      <4>5. g.expires_at \in Nat
        BY <4>1, <1>b DEF Entry
      <4>6. QED
        BY <4>1, <4>2, <4>3, <4>4, <4>5, <2>4
    <3>3. QED
      BY <3>1, <3>2, <2>2
  <2>8. StoreGranted'
    <3> SUFFICES ASSUME NEW k \in DOMAIN store'
                 PROVE  [key |-> k, expires_at |-> store'[k]] \in granted'
      BY DEF StoreGranted
    <3>1. CASE k \in DOMAIN kept
      BY <3>1, <2>2, <2>4, <1>c DEF CacheInv, StoreGranted
    <3>2. CASE k \in Keys(entries)
      <4>1. PICK i \in DOMAIN entries :
              entries[i].key = k /\ store'[k] = entries[i].expires_at
        BY <3>2, <2>4
      <4>2. entries[i] = [key |-> k, expires_at |-> store'[k]]
        BY <4>1, <1>b DEF Entry
      <4>3. QED
        BY <4>2, <2>2
    <3>3. QED
      BY <3>1, <3>2, <2>4
  <2>9. QED
    BY <2>6, <2>7, <2>8 DEF CacheInv
<1>3. QED
  BY <1>1, <1>2

(* Ticks and check_and_insert calls preserve the invariant.                *)
LEMMA NextInv == CacheInv /\ [Next]_vars => CacheInv'
<1> SUFFICES ASSUME CacheInv, [Next]_vars PROVE CacheInv'
  OBVIOUS
<1>1. CASE Tick
  BY <1>1 DEF Tick, CacheInv, TypeOK, TombstoneRetained, StoreGranted
<1>2. ASSUME NEW entries \in Batches, NEW now \in 0..MaxTime,
             CheckAndInsert(entries, now)
      PROVE  CacheInv'
  BY <1>2, CallInv
<1>3. CASE UNCHANGED vars
  BY <1>3 DEF vars, CacheInv, TypeOK, TombstoneRetained, StoreGranted
<1>4. QED
  BY <1>1, <1>2, <1>3 DEF Next

(* Every reachable state of the cache satisfies the inductive invariant.   *)
LEMMA CacheInvariant == Spec => []CacheInv
<1>1. QED
  BY InitInv, NextInv, PTL DEF Spec

(* The cache's map and its history are always well typed.                  *)
THEOREM TypeCorrect == Spec => []TypeOK
<1>1. CacheInv => TypeOK
  BY DEF CacheInv
<1>2. QED
  BY <1>1, CacheInvariant, PTL

(* A tombstone handed out by check_and_insert stays in the map until a     *)
(* call is made at or after its expiry, for every capacity and every lag   *)
(* of the callers' clocks.                                                 *)
THEOREM Retention == Spec => []TombstoneRetained
<1>1. CacheInv => TombstoneRetained
  BY DEF CacheInv
<1>2. QED
  BY <1>1, CacheInvariant, PTL

-----------------------------------------------------------------------------
(* Refinement of the trait contract, for callers whose clock values reach  *)
(* the cache in order (MaxLag = 0).                                        *)

(* One check_and_insert is a Fresh, Seen or Refused step of the contract.  *)
LEMMA CallRefines ==
  ASSUME MaxLag = 0, CacheInv,
         NEW entries \in Batches, NEW now \in 0..MaxTime,
         CheckAndInsert(entries, now)
  PROVE  Contract!Next
<1> DEFINE kept == Sweep(store, now)
<1> USE CacheAssumption
<1>a. now \in Nat /\ clock \in Nat /\ swept \in Nat /\ swept <= now
  BY DEF CheckAndInsert, CacheInv, TypeOK
<1>b. entries \in Seq(Entry) /\ (\A i \in DOMAIN entries : entries[i] \in Entry)
  OBVIOUS
<1>c. /\ DOMAIN kept = {k \in DOMAIN store : store[k] > now}
      /\ \A k \in DOMAIN kept : kept[k] = store[k]
  BY SweepFacts
<1>d. last' = [entries |-> entries, now |-> now,
               outcome |-> Outcome(store, entries, now, Capacity)]
  BY DEF CheckAndInsert
(* The keys the contract calls live are the keys the sweep keeps.          *)
<1>e. ASSUME NEW k \in Contract!LiveKeys(now) PROVE k \in DOMAIN kept
  <2>1. PICK g \in granted : g.key = k /\ g.expires_at > now
    BY <1>e DEF Contract!LiveKeys
  <2>2. g.expires_at \in Nat /\ g.expires_at > swept
    BY <2>1, <1>a DEF CacheInv, TypeOK, Entry
  <2>3. k \in DOMAIN store /\ store[k] >= g.expires_at /\ store[k] \in Nat
    BY <2>1, <2>2 DEF CacheInv, TypeOK, TombstoneRetained
  <2>4. QED
    BY <2>1, <2>2, <2>3, <1>a, <1>c
<1>f. ASSUME NEW k \in DOMAIN kept PROVE k \in Contract!LiveKeys(now)
  <2> DEFINE g == [key |-> k, expires_at |-> store[k]]
  <2>1. g \in granted /\ store[k] > now
    BY <1>f, <1>c DEF CacheInv, StoreGranted
  <2>2. g.key = k /\ g.expires_at = store[k]
    OBVIOUS
  <2>3. QED
    BY <2>1, <2>2 DEF Contract!LiveKeys
<1>g. Conflict(kept, entries) <=>
        \/ ~Contract!Distinct(entries)
        \/ \E e \in Contract!EntriesOf(entries) : e.key \in Contract!LiveKeys(now)
  <2>1. DOMAIN kept = Contract!LiveKeys(now)
    BY <1>e, <1>f, <1>c
  <2>2. Conflict(kept, entries) <=>
          \/ ~Contract!Distinct(entries)
          \/ \E i \in DOMAIN entries : entries[i].key \in DOMAIN kept
    BY DEF Conflict, Contract!Distinct, Keys
  <2>3. (\E i \in DOMAIN entries : entries[i].key \in DOMAIN kept) <=>
          \E e \in Contract!EntriesOf(entries) : e.key \in DOMAIN kept
    BY DEF Contract!EntriesOf
  <2>4. QED
    BY <2>1, <2>2, <2>3
<1>1. CASE Outcome(store, entries, now, Capacity) = "fresh"
  <2>1. ~Conflict(kept, entries)
    BY <1>1 DEF Outcome
  <2>2. granted' = granted \cup Contract!EntriesOf(entries)
    BY <1>1 DEF CheckAndInsert, Contract!EntriesOf
  <2>3. Contract!Fresh(entries, now)
    BY <2>1, <2>2, <1>1, <1>d, <1>g DEF Contract!Fresh
  <2>4. QED
    BY <2>3 DEF Contract!Next
<1>2. CASE Outcome(store, entries, now, Capacity) = "seen"
  <2>1. Conflict(kept, entries)
    BY <1>2 DEF Outcome
  <2>2. granted' = granted
    BY <1>2 DEF CheckAndInsert
  <2>3. Contract!Seen(entries, now)
    BY <2>1, <2>2, <1>2, <1>d, <1>g DEF Contract!Seen
  <2>4. QED
    BY <2>3 DEF Contract!Next
<1>3. CASE Outcome(store, entries, now, Capacity) = "full"
  <2>1. granted' = granted
    BY <1>3 DEF CheckAndInsert
  <2>2. Contract!Refused(entries, now)
    BY <2>1, <1>3, <1>d DEF Contract!Refused
  <2>3. QED
    BY <2>2 DEF Contract!Next
<1>4. QED
  BY <1>1, <1>2, <1>3 DEF Outcome

(* The in-memory cache implements the trait contract: with callers whose   *)
(* clock values reach it in order, sweeping expired tombstones can never   *)
(* be observed - a fresh answer is given only for keys with no live grant. *)
THEOREM Refinement == ASSUME MaxLag = 0 PROVE Spec => ImplementsContract
<1>1. Init => Contract!Init
  BY DEF Init, Contract!Init
<1>2. CacheInv /\ [Next]_vars => [Contract!Next]_(Contract!vars)
  <2> SUFFICES ASSUME CacheInv, [Next]_vars
               PROVE  [Contract!Next]_(Contract!vars)
    OBVIOUS
  <2>1. CASE Tick
    BY <2>1 DEF Tick, Contract!vars
  <2>2. ASSUME NEW entries \in Batches, NEW now \in 0..MaxTime,
               CheckAndInsert(entries, now)
        PROVE  Contract!Next
    BY <2>2, CallRefines
  <2>3. CASE UNCHANGED vars
    BY <2>3 DEF vars, Contract!vars
  <2>4. QED
    BY <2>1, <2>2, <2>3 DEF Next
<1>3. QED
  BY <1>1, <1>2, CacheInvariant, PTL DEF Spec, ImplementsContract, Contract!Spec

-----------------------------------------------------------------------------
(* The capacity bound.                                                     *)

FiniteStore == IsFiniteSet(DOMAIN store) /\ CapacityBound

(* A batch has at most as many keys as entries.                            *)
LEMMA KeysBound ==
  ASSUME NEW es \in Seq(Entry)
  PROVE  IsFiniteSet(Keys(es)) /\ Cardinality(Keys(es)) <= Len(es)
<1> DEFINE f == [i \in 1..Len(es) |-> es[i].key]
<1>1. Len(es) \in Nat /\ DOMAIN es = 1..Len(es)
  OBVIOUS
<1>2. f \in Surjection(1..Len(es), Keys(es))
  BY <1>1 DEF Surjection, Keys
<1>3. IsFiniteSet(1..Len(es)) /\ Cardinality(1..Len(es)) = Len(es)
  BY <1>1, FS_Interval
<1>4. QED
  BY <1>2, <1>3, FS_Surjection

(* Neither the sweep nor an insertion takes the map past its capacity.     *)
LEMMA CapacityStep == CacheInv /\ FiniteStore /\ [Next]_vars => FiniteStore'
<1> SUFFICES ASSUME CacheInv, FiniteStore, [Next]_vars PROVE FiniteStore'
  OBVIOUS
<1>1. ASSUME NEW entries \in Batches, NEW now \in 0..MaxTime,
             CheckAndInsert(entries, now)
      PROVE  FiniteStore'
  <2> DEFINE kept == Sweep(store, now)
  <2>1. DOMAIN kept \subseteq DOMAIN store
    BY SweepFacts
  <2>2. IsFiniteSet(DOMAIN kept) /\ Cardinality(DOMAIN kept) <= Cardinality(DOMAIN store)
    BY <2>1, FS_Subset DEF FiniteStore
  <2>3. /\ Cardinality(DOMAIN kept) \in Nat /\ Cardinality(DOMAIN store) \in Nat
        /\ Capacity \in Nat /\ Cardinality(DOMAIN store) <= Capacity
    BY <2>2, FS_CardinalityType, CacheAssumption DEF FiniteStore, CapacityBound
  <2>4. CASE Outcome(store, entries, now, Capacity) # "fresh"
    <3>1. store' = kept
      BY <1>1, <2>4 DEF CheckAndInsert, StoreAfter
    <3>2. Cardinality(DOMAIN kept) <= Capacity
      BY <2>2, <2>3
    <3>3. QED
      BY <3>1, <3>2, <2>2 DEF FiniteStore, CapacityBound
  <2>5. CASE Outcome(store, entries, now, Capacity) = "fresh"
    <3> DEFINE ks == Keys(entries)
    <3>1. entries \in Seq(Entry) /\ Len(entries) \in Nat
      BY CacheAssumption
    <3>2. IsFiniteSet(ks) /\ Cardinality(ks) <= Len(entries) /\ Cardinality(ks) \in Nat
      BY <3>1, KeysBound, FS_CardinalityType
    <3>3. DOMAIN store' = DOMAIN kept \cup ks
      BY <1>1, <2>5, InsertFacts DEF CheckAndInsert, StoreAfter
    <3>4. ~(Cardinality(DOMAIN kept) + Len(entries) > Capacity) /\ ~Conflict(kept, entries)
      BY <2>5 DEF Outcome
    <3> HIDE DEF kept, ks
    <3>5. /\ IsFiniteSet(DOMAIN kept \cup ks)
          /\ Cardinality(DOMAIN kept \cup ks) =
               Cardinality(DOMAIN kept) + Cardinality(ks) - Cardinality(DOMAIN kept \cap ks)
      BY <3>2, <2>2, FS_Union
    <3>6. DOMAIN kept \cap ks \subseteq ks
      OBVIOUS
    <3>7. IsFiniteSet(DOMAIN kept \cap ks) /\ Cardinality(DOMAIN kept \cap ks) \in Nat
      BY <3>2, <3>6, FS_Subset, FS_CardinalityType
    <3>8. Cardinality(DOMAIN kept \cup ks) <= Capacity
      BY <3>1, <3>2, <3>4, <3>5, <3>7, <2>3
    <3>9. QED
      BY <3>3, <3>5, <3>8 DEF FiniteStore, CapacityBound
  <2>6. QED
    BY <2>4, <2>5
<1>2. CASE Tick
  BY <1>2 DEF Tick, FiniteStore, CapacityBound
<1>3. CASE UNCHANGED vars
  BY <1>3 DEF vars, FiniteStore, CapacityBound
<1>4. QED
  BY <1>1, <1>2, <1>3 DEF Next

(* The map never outgrows the configured capacity, for any batch sizes.    *)
THEOREM Capacity_Bound == Spec => []CapacityBound
<1>1. Init => FiniteStore
  <2>1. Init => DOMAIN store = {}
    BY DEF Init, EmptyStore
  <2>2. QED
    BY <2>1, FS_EmptySet, CacheAssumption DEF FiniteStore, CapacityBound
<1>2. FiniteStore => CapacityBound
  BY DEF FiniteStore
<1>3. QED
  BY <1>1, <1>2, CapacityStep, CacheInvariant, PTL DEF Spec

(* ReplayCacheFull is returned only when live tombstones and the batch     *)
(* together exceed the capacity.                                           *)
THEOREM FullMeansLive == Spec => FullOnlyWhenLive
<1>1. [Next]_vars => [last'.outcome = "full" =>
         Cardinality({k \in DOMAIN store : store[k] > last'.now})
           + Len(last'.entries) > Capacity]_last
  <2> SUFFICES ASSUME [Next]_vars, last' # last, last'.outcome = "full"
               PROVE  Cardinality({k \in DOMAIN store : store[k] > last'.now})
                        + Len(last'.entries) > Capacity
    OBVIOUS
  <2>1. PICK entries \in Batches, now \in 0..MaxTime : CheckAndInsert(entries, now)
    BY DEF Next, Tick, vars
  <2>2. /\ last'.entries = entries /\ last'.now = now
        /\ last'.outcome = Outcome(store, entries, now, Capacity)
    BY <2>1 DEF CheckAndInsert
  <2>3. DOMAIN Sweep(store, now) = {k \in DOMAIN store : store[k] > now}
    BY SweepFacts
  <2>4. Cardinality(DOMAIN Sweep(store, now)) + Len(entries) > Capacity
    BY <2>2 DEF Outcome
  <2>5. QED
    BY <2>2, <2>3, <2>4
<1>2. QED
  BY <1>1, PTL DEF Spec, FullOnlyWhenLive
=============================================================================
