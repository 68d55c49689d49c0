-------------------------------- MODULE Dial --------------------------------
(***************************************************************************)
(* One proxied connection that is not intercepted (proxy.go): handleSOCKS5 *)
(* and handleHTTP up to their dialLink, the two attempts of dialLink, the  *)
(* LinkConn they get, and its Close.                                       *)
(*                                                                         *)
(* What the connection carries is abstracted to units written to the       *)
(* client; when the copying ends is the peers' choice.                     *)
(***************************************************************************)
EXTENDS Balancer

CONSTANTS Conns,        \* connections accepted by ServeSOCKS5
          MaxDials,     \* maxAttempts of dialLink
          Refusing      \* links over which the target may refuse a dial

ASSUME DialAssumption ==
  /\ IsFiniteSet(Conns)
  /\ MaxDials \in Nat \ {0}
  /\ Refusing \subseteq Links

VARIABLES
  cpc,      \* connection -> where its handler is
  clink,    \* connection -> the link of its latest dialChoice
  failed,   \* connection -> failed dials; firstErr is set when above 0
  reply,    \* connection -> what its client was told
  start,    \* connection -> bytesStart of its LinkConn
  moved     \* connection -> units copied to its client (history)

dialVars == <<cpc, clink, failed, reply, start, moved>>
dialFrame == <<linkVars, pins, scanVars, osVars>>

DialInit ==
  /\ cpc = [c \in Conns |-> "new"]
  /\ clink = [c \in Conns |-> NoLink]
  /\ failed = [c \in Conns |-> 0]
  /\ reply = [c \in Conns |-> "none"]
  /\ start = [c \in Conns |-> 0] /\ moved = [c \in Conns |-> 0]

\* A connection that dialed or is dialing over a link has it in use.
Using == {"dialing", "open"}

Goto(c, where) == cpc' = [cpc EXCEPT ![c] = where]
Tell(c, what)  == reply' = [reply EXCEPT ![c] = what]

\* The request is read: its target is routed over a link, or it is loopback
\* or private and bypasses them.
ReadTarget(c) ==
  /\ cpc[c] = "new" /\ serving
  /\ Goto(c, "choosing") \/ Goto(c, "bypass")
  /\ UNCHANGED <<clink, failed, reply, start, moved, pickVars, stats, bytesIn, dialFrame>>

\* An unbound dialer, no link and no accounting; one attempt.
Bypass(c) ==
  /\ cpc[c] = "bypass" /\ Goto(c, "done")
  /\ Tell(c, "success") \/ Tell(c, "dial failed")
  /\ UNCHANGED <<clink, failed, start, moved, pickVars, stats, bytesIn, dialFrame>>

\* chooseDialer.
Choose(c) ==
  /\ cpc[c] = "choosing" /\ Goto(c, "dialing")
  /\ \E l \in Links : Pick(l) /\ clink' = [clink EXCEPT ![c] = l]
  /\ UNCHANGED <<failed, reply, start, moved, stats, bytesIn, dialFrame>>

\* A slip of WhenNone: firstErr forgotten.
AlwaysNoLinks(c) == "no links"

\* chooseDialer returns nil: the first dial error is the answer, if there was
\* a dial.
WhenNone(c) == IF failed[c] > 0 THEN "dial failed" ELSE "no links"

ChooseNone(c) ==
  /\ cpc[c] = "choosing" /\ NothingToPick /\ Goto(c, "done")
  /\ Tell(c, WhenNone(c))
  /\ UNCHANGED <<clink, failed, start, moved, pickVars, stats, bytesIn, dialFrame>>

\* The dialer is bound to the link's address as the balancer knows it; the
\* machine must still own that address.
Reaches(l) == Works(l, localIP[l])

DialOK(c) ==
  /\ cpc[c] = "dialing" /\ Reaches(clink[c]) /\ Goto(c, "open")
  /\ start' = [start EXCEPT ![c] = bytesIn[clink[c]]]
  /\ Tell(c, "success")
  /\ UNCHANGED <<clink, failed, moved, pickVars, stats, bytesIn, dialFrame>>

\* A slip of Attempts: the loop counter not moved on.
SameAttempt(c) == failed[c]

Attempts(c) == failed[c] + 1
LastDial(c) == Attempts(c) >= MaxDials

DialFails(c) ==
  /\ cpc[c] = "dialing" /\ (clink[c] \in Refusing \/ ~Reaches(clink[c]))
  /\ Release(clink[c])
  /\ failed' = [failed EXCEPT ![c] = Attempts(c)]
  /\ IF LastDial(c) THEN Goto(c, "done") /\ Tell(c, "dial failed")
                    ELSE Goto(c, "choosing") /\ UNCHANGED reply
  /\ UNCHANGED <<clink, start, moved, turn, stats, bytesIn, dialFrame>>

Copy(c) ==
  /\ cpc[c] = "open" /\ Count(clink[c])
  /\ moved' = [moved EXCEPT ![c] = @ + 1]
  /\ UNCHANGED <<cpc, clink, failed, reply, start, pickVars, stats, dialFrame>>

\* The handler is done with the connection, also when it could not tell its
\* client of the success: LinkConn.Close gives the link back ...
Close(c) ==
  /\ cpc[c] = "open" /\ Goto(c, "closing")
  /\ Release(clink[c])
  /\ UNCHANGED <<clink, failed, reply, start, moved, turn, stats, bytesIn, dialFrame>>

\* ... and then samples what the link received meanwhile.
SampleOf(c) == bytesIn[clink[c]] - start[c]

Sample(c) ==
  /\ cpc[c] = "closing" /\ Goto(c, "done")
  /\ IF Scored THEN RecordSample(clink[c], SampleOf(c)) ELSE UNCHANGED stats
  /\ UNCHANGED <<clink, failed, reply, start, moved, pickVars, bytesIn, dialFrame>>

Answer(c) == ReadTarget(c) \/ Bypass(c) \/ Choose(c) \/ ChooseNone(c) \/ DialOK(c) \/ DialFails(c)

Connection(c) == Answer(c) \/ Copy(c) \/ Close(c) \/ Sample(c)
=============================================================================
