---------------------------- MODULE LastRecords ----------------------------
(***************************************************************************)
(* A bounded history: a record added to a full one replaces the oldest.    *)
(***************************************************************************)
EXTENDS Integers, Sequences

CONSTANTS Capacity, Records

VARIABLE window

Init == window = <<>>

Record(rec) ==
  window' = Append(IF Len(window) < Capacity THEN window ELSE Tail(window), rec)

Next == \E rec \in Records : Record(rec)

Spec == Init /\ [][Next]_window
=============================================================================
