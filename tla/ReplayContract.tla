--------------------------- MODULE ReplayContract ---------------------------
(***************************************************************************)
(* What the ReplayCache trait promises its callers (the contract in its    *)
(* doc comment, src/src/replay.rs), independent of how tombstones are      *)
(* stored or swept: nothing granted is ever forgotten here. A grant of a   *)
(* key is live at `now` while its expires_at is later than `now`.          *)
(***************************************************************************)
EXTENDS Integers, Sequences

CONSTANTS Batches,    \* the entry sequences callers may present
          Instants    \* the values of `now` callers may pass

VARIABLES granted,    \* every tombstone ever reserved: [key, expires_at]
          last        \* the last call: [entries, now, outcome]

vars == <<granted, last>>

EntriesOf(entries) == {entries[i] : i \in DOMAIN entries}

LiveKeys(now) == {g.key : g \in {g \in granted : g.expires_at > now}}

Distinct(entries) ==
  \A i, j \in DOMAIN entries : entries[i].key = entries[j].key => i = j

Init ==
  /\ granted = {}
  /\ last = [entries |-> <<>>, now |-> 0, outcome |-> "none"]

(* Ok(true): every entry is new, and the whole batch is reserved at once.  *)
Fresh(entries, now) ==
  /\ Distinct(entries)
  /\ \A e \in EntriesOf(entries) : e.key \notin LiveKeys(now)
  /\ granted' = granted \cup EntriesOf(entries)
  /\ last' = [entries |-> entries, now |-> now, outcome |-> "fresh"]

(* Ok(false): some key is a duplicate or still live; nothing is reserved.  *)
Seen(entries, now) ==
  /\ \/ ~Distinct(entries)
     \/ \E e \in EntriesOf(entries) : e.key \in LiveKeys(now)
  /\ last' = [entries |-> entries, now |-> now, outcome |-> "seen"]
  /\ UNCHANGED granted

(* Err(_): the backend refuses; nothing is reserved.                       *)
Refused(entries, now) ==
  /\ last' = [entries |-> entries, now |-> now, outcome |-> "full"]
  /\ UNCHANGED granted

Next ==
  \E entries \in Batches, now \in Instants :
    Fresh(entries, now) \/ Seen(entries, now) \/ Refused(entries, now)

Spec == Init /\ [][Next]_vars
=============================================================================
