---------------------------- MODULE RecentConns ----------------------------
(***************************************************************************)
(* The ring of the connections made last (stats.go): every handler adds to *)
(* it and the TUI takes snapshots of it, both under one mutex.             *)
(***************************************************************************)
EXTENDS Integers, Sequences

CONSTANTS Capacity,   \* size
          Records,    \* what a ConnRecord may be
          NoRecord    \* the zero ConnRecord of a slot not used yet

ASSUME RecentAssumption == Capacity \in Nat \ {0}

VARIABLES recs,   \* buf: the slots of the ring
          head,   \* the slot of the oldest record
          count   \* slots in use

ring == <<recs, head, count>>

RingSlots == 0 .. Capacity - 1

NewRecentConns ==
  /\ recs = [s \in RingSlots |-> NoRecord]
  /\ head = 0 /\ count = 0

\* A slip of Place: the head left out.
PlaceFromZero(n) == n % Capacity

\* The slot of the record that comes n after the oldest.
Place(n) == (head + n) % Capacity

Add(rec) ==
  IF count < Capacity
    THEN /\ recs' = [recs EXCEPT ![Place(count)] = rec]
         /\ count' = count + 1
         /\ UNCHANGED head
    ELSE /\ recs' = [recs EXCEPT ![head] = rec]
         /\ head' = (head + 1) % Capacity
         /\ UNCHANGED count

Snapshot == [i \in 1 .. count |-> recs[Place(i - 1)]]

RingNext == \E rec \in Records : Add(rec)

RingSpec == NewRecentConns /\ [][RingNext]_ring

\* A snapshot is the last records added, oldest first and as many as fit,
\* wherever the ring has wrapped (stats.go lines 26 to 46).
Recent == INSTANCE LastRecords WITH window <- Snapshot

SnapshotIsRecent == Recent!Spec
=============================================================================
