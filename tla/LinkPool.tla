------------------------------ MODULE LinkPool ------------------------------
(***************************************************************************)
(* What the balancer promises its callers.  A caller asks for a link,      *)
(* anywhere or pinned to a host; it is lent a healthy one, or turned away, *)
(* which happens only when no link is healthy; it gives back the link it   *)
(* was lent before it asks again.  A pin decides while its link is         *)
(* healthy, and active counts the links that are lent.                     *)
(***************************************************************************)
EXTENDS Integers

CONSTANTS Links, Hosts, Callers,
          NoLink,            \* no link
          Nothing, Anywhere  \* what a caller asks for, if not for a host

VARIABLES healthy,  \* link -> whether it may be lent
          pins,     \* host -> the link it is pinned to, or NoLink
          asks,     \* caller -> Nothing, Anywhere, or the host it asks for
          lent,     \* caller -> the link it has, or NoLink
          active    \* link -> how often it is lent

vars == <<healthy, pins, asks, lent, active>>

Init ==
  /\ healthy = [l \in Links |-> FALSE]
  /\ pins = [h \in Hosts |-> NoLink]
  /\ asks = [u \in Callers |-> Nothing]
  /\ lent = [u \in Callers |-> NoLink]
  /\ active = [l \in Links |-> 0]

HealthChanges(l) ==
  /\ healthy' = [healthy EXCEPT ![l] = ~@]
  /\ UNCHANGED <<pins, asks, lent, active>>

Ask(u) ==
  /\ asks[u] = Nothing /\ lent[u] = NoLink
  /\ \E where \in Hosts \cup {Anywhere} : asks' = [asks EXCEPT ![u] = where]
  /\ UNCHANGED <<healthy, pins, lent, active>>

\* The pin of a host moves only from a link that is not healthy.
Pinned(h, l) ==
  /\ l = pins[h] \/ pins[h] = NoLink \/ ~healthy[pins[h]]
  /\ pins' = [pins EXCEPT ![h] = l]

Lend(u, l) ==
  /\ healthy[l] /\ lent[u] = NoLink
  /\ \/ asks[u] = Anywhere /\ UNCHANGED pins
     \/ asks[u] \in Hosts /\ Pinned(asks[u], l)
  /\ asks' = [asks EXCEPT ![u] = Nothing]
  /\ lent' = [lent EXCEPT ![u] = l]
  /\ active' = [active EXCEPT ![l] = @ + 1]
  /\ UNCHANGED healthy

TurnAway(u) ==
  /\ \A l \in Links : ~healthy[l]
  /\ \/ asks[u] = Anywhere /\ UNCHANGED pins
     \/ asks[u] \in Hosts /\ Pinned(asks[u], NoLink)
  /\ asks' = [asks EXCEPT ![u] = Nothing]
  /\ UNCHANGED <<healthy, lent, active>>

\* A caller that retries asks at once, for any link.
GiveBack(u) ==
  /\ lent[u] # NoLink
  /\ lent' = [lent EXCEPT ![u] = NoLink]
  /\ active' = [active EXCEPT ![lent[u]] = @ - 1]
  /\ \E where \in {Nothing, Anywhere} : asks' = [asks EXCEPT ![u] = where]
  /\ UNCHANGED <<healthy, pins>>

Next ==
  \/ \E l \in Links : HealthChanges(l)
  \/ \E u \in Callers : Ask(u) \/ TurnAway(u) \/ GiveBack(u) \/ \E l \in Links : Lend(u, l)

Spec == Init /\ [][Next]_vars
=============================================================================
