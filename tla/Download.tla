------------------------------ MODULE Download ------------------------------
(***************************************************************************)
(* What a range-split download promises its client: until it starts, the   *)
(* range may be shortened once, or refused; then the client receives the   *)
(* bytes of the range in order; and the download ends complete only when   *)
(* it has them all, or cut short at any point before.                      *)
(***************************************************************************)
EXTENDS Integers, Sequences

CONSTANT Ranges      \* the [first, last] ranges that may be asked for

VARIABLES range,     \* what is still promised
          phase,     \* "open", "flowing", "complete" or "cut"
          received   \* the offsets received, in order

vars == <<range, phase, received>>

Length == range.last - range.first + 1

Init ==
  /\ range \in Ranges
  /\ phase = "open"
  /\ received = <<>>

\* The range is settled: unchanged, or with an earlier end.
Settle ==
  /\ phase = "open" /\ phase' = "flowing"
  /\ \E e \in range.first .. range.last : range' = [range EXCEPT !.last = e]
  /\ UNCHANGED received

Deliver ==
  /\ phase = "flowing"
  /\ \E n \in 1 .. Length - Len(received) :
       received' = received \o [j \in 1 .. n |-> range.first + Len(received) + j - 1]
  /\ UNCHANGED <<range, phase>>

Complete ==
  /\ phase = "flowing" /\ Len(received) = Length
  /\ phase' = "complete"
  /\ UNCHANGED <<range, received>>

Cut ==
  /\ phase \in {"open", "flowing"} /\ phase' = "cut"
  /\ UNCHANGED <<range, received>>

Next == Settle \/ Deliver \/ Complete \/ Cut

Spec == Init /\ [][Next]_vars
=============================================================================
