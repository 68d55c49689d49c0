---------------------------- MODULE SessionProofs ----------------------------
(***************************************************************************)
(* What a connection delivers, and when it may end (Session), for any      *)
(* number of units and any mix of requests.                                *)
(***************************************************************************)
EXTENDS Session, TLAPS

Before == {"request", "dial", "handshake", "reply", "forward"}

\* What a handler can be busy with, by the kind of its request.
Phase ==
  /\ kind \in {"tunnel", "plain", "intercept", "upgrade"}
  /\ hpc = "request"   => kind # "upgrade"
  /\ hpc = "dial"      => kind # "intercept"
  /\ hpc = "handshake" => kind = "upgrade"
  /\ hpc = "reply"     => kind \in {"tunnel", "intercept"}
  /\ hpc = "forward"   => kind \in {"plain", "upgrade"}
  /\ hpc = "accept"    => kind = "intercept"
  /\ hpc = "splice"    => kind # "intercept"
  /\ hpc = "done" => closed
  /\ closed => hpc = "done" \/ kind = "intercept"
  /\ hpc \in Before => told = "nothing"

\* A copier runs in a splice, with the deadline lifted.
Copies ==
  \A d \in Dirs : copier[d] # "off" =>
    /\ hpc \in {"splice", "done"} /\ deadline = "clear"
    /\ kind \in {"tunnel", "plain", "upgrade"}
    /\ kind = "plain" => d = "down"

\* How far a direction is, and what its copier has in its hands.
At(d) == Skipped(d) + Len(got[d])

Progress(d) ==
  /\ got[d] = [u \in 1 .. Len(got[d]) |-> Skipped(d) + u]
  /\ taken[d] <= sent[d]
  /\ copier[d] = "read"  => At(d) = taken[d]
  /\ copier[d] = "write" => At(d) + 1 = taken[d]
  /\ copier[d] = "done"  => At(d) <= taken[d]
  /\ copier[d] = "off"   =>
       IF d = "up" /\ kind = "plain"
         THEN At(d) = taken[d]
         ELSE /\ got[d] = <<>>
              /\ d = "down" \/ kind = "upgrade" \/ hpc \in Before => taken[d] = 0

InProgress == \A d \in Dirs : Progress(d)

Body ==
  /\ ahead <= sent["up"]
  /\ kind = "plain" => Len(got["up"]) <= body
  /\ kind = "plain" /\ hpc = "splice" => Len(got["up"]) = body

\* A copier that ended while both peers behaved has delivered everything.
DoneComplete ==
  ~Resets /\ ~closed => \A d \in Dirs : copier[d] = "done" => Complete(d)

SessionInv ==
  /\ TypeOK /\ Phase /\ Copies /\ InProgress /\ Body /\ DoneComplete
  /\ EndHasCause /\ CleanEnd

-----------------------------------------------------------------------------
(***************************************************************************)
(* What is delivered and what is left alone.                               *)
(***************************************************************************)

\* One unit more at the end of a run of units.
LEMMA Extend ==
  ASSUME NEW S, NEW s \in Seq(S), NEW b \in Int, NEW e \in S, e = b + Len(s) + 1,
         s = [u \in 1 .. Len(s) |-> b + u]
  PROVE  LET t == Append(s, e) IN
           t \in Seq(S) /\ Len(t) = Len(s) + 1 /\ t = [u \in 1 .. Len(t) |-> b + u]
OBVIOUS

\* Where a direction stands is a number.
LEMMA SkippedType == ASSUME TypeOK, NEW d \in Dirs PROVE Skipped(d) \in Nat /\ At(d) \in Nat
<1>1. got[d] \in Seq(1 .. MaxUnits) /\ ahead \in Nat
  BY SessionAssumption DEF TypeOK
<1>2. Skipped(d) \in Nat /\ Len(got[d]) \in Nat
  BY <1>1 DEF Skipped
<1> QED
  BY <1>2 DEF At

\* The next unit, where nothing else of the direction moves.
LEMMA Delivered ==
  ASSUME TypeOK, NEW d \in Dirs, Progress(d), UNCHANGED <<kind, ahead>>,
         NEW n \in 1 .. MaxUnits, n = At(d) + 1, Deliver(d, n)
  PROVE  /\ got' \in [Dirs -> Seq(1 .. MaxUnits)]
         /\ \A e \in Dirs \ {d} : got'[e] = got[e]
         /\ Len(got'[d]) = Len(got[d]) + 1 /\ At(d)' = n
         /\ got'[d] = [u \in 1 .. Len(got'[d]) |-> Skipped(d)' + u]
<1>1. /\ got[d] \in Seq(1 .. MaxUnits) /\ got \in [Dirs -> Seq(1 .. MaxUnits)]
      /\ Skipped(d) \in Int /\ n = Skipped(d) + Len(got[d]) + 1
      /\ got[d] = [u \in 1 .. Len(got[d]) |-> Skipped(d) + u]
  BY SkippedType DEF TypeOK, At, Progress
<1>2. got' = [got EXCEPT ![d] = Append(got[d], n)] /\ Skipped(d)' = Skipped(d)
  BY DEF Deliver, Skipped
<1>3. LET t == Append(got[d], n) IN
        /\ t \in Seq(1 .. MaxUnits) /\ Len(t) = Len(got[d]) + 1
        /\ t = [u \in 1 .. Len(t) |-> Skipped(d) + u]
  BY <1>1, Extend
<1>4. got'[d] = Append(got[d], n)
  BY <1>1, <1>2
<1>5. got' \in [Dirs -> Seq(1 .. MaxUnits)] /\ \A e \in Dirs \ {d} : got'[e] = got[e]
  BY <1>1, <1>2, <1>3
<1>6. At(d)' = n
  BY <1>1, <1>2, <1>3, <1>4 DEF At
<1> QED
  BY <1>2, <1>3, <1>4, <1>5, <1>6

\* A direction nobody touches, while its source may send more.
LEMMA Untouched ==
  ASSUME NEW d \in Dirs, Progress(d), TypeOK,
         UNCHANGED <<got[d], taken[d], copier[d], kind>>,
         ahead' = ahead \/ kind # "tunnel",
         sent'[d] \in Nat, sent[d] <= sent'[d], hpc' \in Before => hpc \in Before
  PROVE  Progress(d)'
<1>1. Skipped(d)' = Skipped(d)
  BY DEF Skipped
<1>2. At(d)' = At(d)
  BY <1>1 DEF At
<1>3. taken[d] \in Nat /\ sent[d] \in Nat
  BY SessionAssumption DEF TypeOK
<1> QED
  BY <1>1, <1>2, <1>3 DEF Progress

\* A step that copies nothing.
LEMMA AllUntouched ==
  ASSUME SessionInv, UNCHANGED <<got, taken, copier, kind, sent>>,
         ahead' = ahead \/ kind # "tunnel", hpc' \in Before => hpc \in Before
  PROVE  InProgress'
<1>1. ASSUME NEW d \in Dirs PROVE Progress(d)'
  <2>1. TypeOK /\ Progress(d) /\ sent[d] \in Nat
    BY SessionAssumption DEF SessionInv, TypeOK, InProgress
  <2> QED
    BY <2>1, Untouched
<1> QED
  BY <1>1 DEF InProgress

\* A step that neither delivers nor ends the handler.
LEMMA CleanUntouched ==
  ASSUME CleanEnd, UNCHANGED <<hpc, told, kind, body, peer, sent, ahead, got>>
  PROVE  CleanEnd'
BY DEF CleanEnd, Complete, Resets, Skipped

-----------------------------------------------------------------------------
(***************************************************************************)
(* Every step, one lemma per group of actions.                             *)
(***************************************************************************)

\* The peers send and leave, the 30 s of handleConn run out
\* (proxy.go line 81).
LEMMA PeersStep ==
  ASSUME SessionInv, (\E d \in Dirs : Send(d)) \/ (\E s \in Sides : Leave(s)) \/ Expire
  PROVE  SessionInv'
<1>1. ASSUME NEW d \in Dirs, Send(d) PROVE SessionInv'
  <2>1. TypeOK'
    BY <1>1, SessionAssumption DEF SessionInv, TypeOK, Dirs, Sides, Source, Sink, Send,
       listener
  <2>2. Phase'
    BY <1>1 DEF SessionInv, Phase, Before, Send, listener
  <2>3. Copies'
    BY <1>1 DEF SessionInv, Copies, Dirs, Send, listener
  <2>4. InProgress'
    <3>1. ASSUME NEW e \in Dirs PROVE Progress(e)'
      <4>1. /\ sent'[e] \in Nat /\ sent[e] <= sent'[e]
            /\ UNCHANGED <<got, taken, copier, kind, ahead, hpc>>
        BY <1>1, SessionAssumption DEF SessionInv, TypeOK, Send
      <4> QED
        BY <4>1, Untouched DEF SessionInv, InProgress
    <3> QED
      BY <3>1 DEF InProgress
  <2>5. Body'
    BY <1>1 DEF SessionInv, Body, Source, Dirs, TypeOK, Send, listener
  <2>6. DoneComplete'
    BY <1>1 DEF SessionInv, DoneComplete, Complete, Skipped, Resets, Dirs, Source,
       TypeOK, Send, listener
  <2>7. EndHasCause'
    BY <1>1 DEF SessionInv, EndHasCause, Dirs, Source, Sink, Send, listener
  <2>8. CleanEnd'
    BY <1>1 DEF SessionInv, CleanEnd, Complete, Skipped, Resets, Dirs, Source, Phase,
       TypeOK, Send, listener
  <2> QED
    BY <2>1, <2>2, <2>3, <2>4, <2>5, <2>6, <2>7, <2>8 DEF SessionInv
<1>2. ASSUME NEW s \in Sides, Leave(s) PROVE SessionInv'
  <2>1. TypeOK'
    BY <1>2, SessionAssumption DEF SessionInv, TypeOK, Sides, Leave, listener
  <2>2. Phase'
    BY <1>2 DEF SessionInv, Phase, Before, Leave, listener
  <2>3. Copies'
    BY <1>2 DEF SessionInv, Copies, Dirs, Leave, listener
  <2>4. InProgress'
    BY <1>2, AllUntouched DEF Before, Leave
  <2>5. Body'
    BY <1>2 DEF SessionInv, Body, Leave, listener
  <2>6. DoneComplete'
    BY <1>2 DEF SessionInv, DoneComplete, Complete, Skipped, Resets, Dirs, Source,
       TypeOK, Sides, Leave, listener
  <2>7. EndHasCause'
    BY <1>2 DEF SessionInv, EndHasCause, Dirs, Source, Sink, TypeOK, Sides, Leave, listener
  <2>8. CleanEnd'
    BY <1>2 DEF SessionInv, CleanEnd, Complete, Skipped, Resets, Dirs, Source, Phase,
       TypeOK, Sides, Leave, listener
  <2> QED
    BY <2>1, <2>2, <2>3, <2>4, <2>5, <2>6, <2>7, <2>8 DEF SessionInv
<1>3. CASE Expire
  <2>1. TypeOK'
    BY <1>3, SessionAssumption DEF SessionInv, TypeOK, Expire, peerVars, listener
  <2>2. Phase'
    BY <1>3 DEF SessionInv, Phase, Before, Expire, peerVars, listener
  <2>3. Copies'
    BY <1>3 DEF SessionInv, Copies, Dirs, Expire, peerVars, listener
  <2>4. InProgress'
    BY <1>3, AllUntouched DEF Before, Expire, peerVars
  <2>5. Body'
    BY <1>3 DEF SessionInv, Body, Expire, peerVars, listener
  <2>6. DoneComplete'
    BY <1>3 DEF SessionInv, DoneComplete, Complete, Skipped, Resets, Dirs, Source,
       Expire, peerVars, listener
  <2>7. EndHasCause'
    BY <1>3 DEF SessionInv, EndHasCause, Dirs, Source, Sink, Expire, peerVars, listener
  <2>8. CleanEnd'
    BY <1>3 DEF SessionInv, CleanEnd, Complete, Skipped, Resets, Dirs, Source, Expire,
       peerVars, listener
  <2> QED
    BY <2>1, <2>2, <2>3, <2>4, <2>5, <2>6, <2>7, <2>8 DEF SessionInv
<1> QED
  BY <1>1, <1>2, <1>3

\* The request is read, the upstream dialled, the client answered (proxy.go
\* lines 345 to 463, mitm.go lines 210 to 248).
LEMMA AnswerStep ==
  ASSUME SessionInv, ReadRequest \/ NoRequest \/ Dialed \/ DialFails
                     \/ Handshake \/ HandshakeFails \/ Reply \/ InterceptReply \/ ReplyFails
  PROVE  SessionInv'
<1>1. CASE ReadRequest
  <2>1. TypeOK'
    BY <1>1, SessionAssumption DEF SessionInv, TypeOK, Dirs, ReadRequest, peerVars, listener
  <2>2. Phase'
    BY <1>1 DEF SessionInv, Phase, Before, ReadRequest, peerVars, listener
  <2>3. Copies'
    BY <1>1 DEF SessionInv, Copies, Dirs, ReadRequest, peerVars, listener
  <2>4. InProgress'
    <3>1. ASSUME NEW e \in Dirs PROVE Progress(e)'
      <4>1. /\ UNCHANGED <<got, taken, copier, kind, sent>> /\ sent[e] \in Nat
            /\ hpc = "request" /\ copier[e] = "off"
        BY <1>1, SessionAssumption DEF SessionInv, Copies, TypeOK, ReadRequest, peerVars
      <4>2. CASE kind # "tunnel"
        BY <4>1, <4>2, Untouched DEF SessionInv, InProgress, Before
      <4>3. CASE kind = "tunnel"
        <5>1. got[e] = <<>> /\ taken[e] = 0
          BY <4>1, <4>3 DEF SessionInv, InProgress, Progress, Before
        <5> QED
          BY <4>1, <4>3, <5>1 DEF Progress
      <4> QED
        BY <4>2, <4>3
    <3> QED
      BY <3>1 DEF InProgress
  <2>5. Body'
    BY <1>1 DEF SessionInv, Body, Phase, Dirs, TypeOK, ReadRequest, peerVars, listener
  <2>6. DoneComplete'
    BY <1>1 DEF SessionInv, DoneComplete, Complete, Skipped, Resets, Dirs, Source,
       Copies, ReadRequest, peerVars, listener
  <2>7. EndHasCause'
    BY <1>1 DEF SessionInv, EndHasCause, Dirs, Source, Sink, ReadRequest, peerVars, listener
  <2>8. CleanEnd'
    BY <1>1 DEF SessionInv, CleanEnd, Complete, Skipped, Resets, Dirs, Source, TypeOK,
       ReadRequest, peerVars, listener
  <2> QED
    BY <2>1, <2>2, <2>3, <2>4, <2>5, <2>6, <2>7, <2>8 DEF SessionInv
<1>2. CASE NoRequest
  <2>1. TypeOK'
    BY <1>2, SessionAssumption DEF SessionInv, TypeOK, NoRequest, Leaves, peerVars, listener
  <2>2. Phase'
    BY <1>2 DEF SessionInv, Phase, Before, NoRequest, Leaves, peerVars, listener
  <2>3. Copies'
    BY <1>2 DEF SessionInv, Copies, Dirs, NoRequest, Leaves, peerVars, listener
  <2>4. InProgress'
    BY <1>2, AllUntouched DEF Before, NoRequest, Leaves, peerVars
  <2>5. Body'
    BY <1>2 DEF SessionInv, Body, NoRequest, Leaves, peerVars, listener
  <2>6. DoneComplete'
    BY <1>2 DEF SessionInv, DoneComplete, Complete, Skipped, Resets, Dirs, Source,
       NoRequest, Leaves, peerVars, listener
  <2>7. EndHasCause'
    BY <1>2 DEF SessionInv, EndHasCause, Dirs, Source, Sink, NoRequest, Leaves,
       peerVars, listener
  <2>8. CleanEnd'
    BY <1>2 DEF SessionInv, CleanEnd, Complete, Skipped, Resets, Dirs, Source,
       NoRequest, Leaves, peerVars, listener
  <2> QED
    BY <2>1, <2>2, <2>3, <2>4, <2>5, <2>6, <2>7, <2>8 DEF SessionInv
<1>3. CASE Dialed
  <2>1. TypeOK'
    BY <1>3, SessionAssumption DEF SessionInv, TypeOK, Phase, Dialed, peerVars, listener
  <2>2. Phase'
    BY <1>3 DEF SessionInv, Phase, Before, Dialed, peerVars, listener
  <2>3. Copies'
    BY <1>3 DEF SessionInv, Copies, Dirs, Dialed, peerVars, listener
  <2>4. InProgress'
    BY <1>3, AllUntouched DEF Before, Dialed, peerVars
  <2>5. Body'
    BY <1>3 DEF SessionInv, Body, Dialed, peerVars, listener
  <2>6. DoneComplete'
    BY <1>3 DEF SessionInv, DoneComplete, Complete, Skipped, Resets, Dirs, Source,
       Dialed, peerVars, listener
  <2>7. EndHasCause'
    BY <1>3 DEF SessionInv, EndHasCause, Dirs, Source, Sink, Dialed, peerVars, listener
  <2>8. CleanEnd'
    BY <1>3 DEF SessionInv, CleanEnd, Complete, Skipped, Resets, Dirs, Source, Phase,
       Dialed, peerVars, listener
  <2> QED
    BY <2>1, <2>2, <2>3, <2>4, <2>5, <2>6, <2>7, <2>8 DEF SessionInv
<1>4. CASE DialFails
  <2>1. TypeOK'
    BY <1>4, SessionAssumption DEF SessionInv, TypeOK, DialFails, Leaves, peerVars, listener
  <2>2. Phase'
    BY <1>4 DEF SessionInv, Phase, Before, DialFails, Leaves, peerVars, listener
  <2>3. Copies'
    BY <1>4 DEF SessionInv, Copies, Dirs, DialFails, Leaves, peerVars, listener
  <2>4. InProgress'
    BY <1>4, AllUntouched DEF Before, DialFails, Leaves, peerVars
  <2>5. Body'
    BY <1>4 DEF SessionInv, Body, DialFails, Leaves, peerVars, listener
  <2>6. DoneComplete'
    BY <1>4 DEF SessionInv, DoneComplete, Complete, Skipped, Resets, Dirs, Source,
       DialFails, Leaves, peerVars, listener
  <2>7. EndHasCause'
    BY <1>4 DEF SessionInv, EndHasCause, Dirs, Source, Sink, DialFails, Leaves,
       peerVars, listener
  <2>8. CleanEnd'
    BY <1>4 DEF SessionInv, CleanEnd, Complete, Skipped, Resets, Dirs, Source,
       DialFails, Leaves, peerVars, listener
  <2> QED
    BY <2>1, <2>2, <2>3, <2>4, <2>5, <2>6, <2>7, <2>8 DEF SessionInv
<1>5. CASE Handshake
  <2>1. TypeOK'
    BY <1>5, SessionAssumption DEF SessionInv, TypeOK, Dirs, Handshake, peerVars, listener
  <2>2. Phase'
    BY <1>5 DEF SessionInv, Phase, Before, Handshake, peerVars, listener
  <2>3. Copies'
    BY <1>5 DEF SessionInv, Copies, Dirs, Handshake, peerVars, listener
  <2>4. InProgress'
    BY <1>5, AllUntouched DEF SessionInv, Phase, Before, Handshake, peerVars
  <2>5. Body'
    BY <1>5 DEF SessionInv, Body, Phase, Dirs, TypeOK, Handshake, peerVars, listener
  <2>6. DoneComplete'
    BY <1>5 DEF SessionInv, DoneComplete, Complete, Skipped, Resets, Dirs, Source,
       Copies, Handshake, peerVars, listener
  <2>7. EndHasCause'
    BY <1>5 DEF SessionInv, EndHasCause, Dirs, Source, Sink, Handshake, peerVars, listener
  <2>8. CleanEnd'
    BY <1>5 DEF SessionInv, CleanEnd, Complete, Skipped, Resets, Dirs, Source,
       Handshake, peerVars, listener
  <2> QED
    BY <2>1, <2>2, <2>3, <2>4, <2>5, <2>6, <2>7, <2>8 DEF SessionInv
<1>6. CASE HandshakeFails
  <2>1. TypeOK'
    BY <1>6, SessionAssumption DEF SessionInv, TypeOK, HandshakeFails, Leaves,
       peerVars, listener
  <2>2. Phase'
    BY <1>6 DEF SessionInv, Phase, Before, HandshakeFails, Leaves, peerVars, listener
  <2>3. Copies'
    BY <1>6 DEF SessionInv, Copies, Dirs, HandshakeFails, Leaves, peerVars, listener
  <2>4. InProgress'
    BY <1>6, AllUntouched DEF Before, HandshakeFails, Leaves, peerVars
  <2>5. Body'
    BY <1>6 DEF SessionInv, Body, HandshakeFails, Leaves, peerVars, listener
  <2>6. DoneComplete'
    BY <1>6 DEF SessionInv, DoneComplete, Complete, Skipped, Resets, Dirs, Source,
       HandshakeFails, Leaves, peerVars, listener
  <2>7. EndHasCause'
    BY <1>6 DEF SessionInv, EndHasCause, Dirs, Source, Sink, HandshakeFails, Leaves,
       peerVars, listener
  <2>8. CleanEnd'
    BY <1>6 DEF SessionInv, CleanEnd, Complete, Skipped, Resets, Dirs, Source,
       HandshakeFails, Leaves, peerVars, listener
  <2> QED
    BY <2>1, <2>2, <2>3, <2>4, <2>5, <2>6, <2>7, <2>8 DEF SessionInv
<1>7. CASE Reply
  <2>1. TypeOK'
    BY <1>7, SessionAssumption DEF SessionInv, TypeOK, Body, Dirs, Reply, Established,
       peerVars, listener
  <2>2. Phase'
    BY <1>7 DEF SessionInv, Phase, Before, Reply, Established, peerVars, listener
  <2>3. Copies'
    BY <1>7 DEF SessionInv, Copies, Dirs, Phase, Reply, Established, peerVars, listener
  <2>4. InProgress'
    <3>1. /\ taken'["up"] = ahead /\ taken'["down"] = taken["down"]
          /\ UNCHANGED <<got, sent, kind, ahead>> /\ hpc = "reply" /\ hpc' \notin Before
          /\ kind = "tunnel" /\ copier' = [d \in Dirs |-> "read"]
      BY <1>7 DEF SessionInv, TypeOK, Phase, Before, Dirs, Reply, peerVars
    <3>2. ASSUME NEW d \in Dirs PROVE Progress(d)'
      <4>1. copier[d] = "off" /\ Progress(d) /\ sent[d] \in Nat /\ ahead \in Nat
        BY <3>1, SessionAssumption DEF SessionInv, TypeOK, Copies, InProgress
      <4>2. got[d] = <<>> /\ taken[d] = 0
        BY <3>1, <4>1 DEF Progress, Before
      <4>3. Skipped(d)' = IF d = "up" /\ kind = "tunnel" THEN ahead ELSE 0
        BY <3>1 DEF Skipped
      <4>4. At(d)' = Skipped(d)' /\ got'[d] = <<>>
        BY <3>1, <4>1, <4>2, <4>3 DEF At
      <4>5. ahead <= sent["up"]
        BY DEF SessionInv, Body
      <4> QED
        BY <3>1, <4>1, <4>2, <4>3, <4>4, <4>5 DEF Progress, Dirs
    <3> QED
      BY <3>2 DEF InProgress
  <2>5. Body'
    BY <1>7 DEF SessionInv, Body, Phase, Reply, Established, peerVars, listener
  <2>6. DoneComplete'
    BY <1>7 DEF SessionInv, DoneComplete, Complete, Skipped, Resets, Dirs, Source,
       Copies, Reply, Established, peerVars, listener
  <2>7. EndHasCause'
    BY <1>7 DEF SessionInv, EndHasCause, Dirs, Source, Sink, Reply, Established,
       peerVars, listener
  <2>8. CleanEnd'
    BY <1>7 DEF SessionInv, CleanEnd, Complete, Skipped, Resets, Dirs, Source, Reply,
       Established, peerVars, listener
  <2> QED
    BY <2>1, <2>2, <2>3, <2>4, <2>5, <2>6, <2>7, <2>8 DEF SessionInv
<1>8. CASE ReplyFails
  <2>1. TypeOK'
    BY <1>8, SessionAssumption DEF SessionInv, TypeOK, ReplyFails, Leaves, peerVars,
       listener
  <2>2. Phase'
    BY <1>8 DEF SessionInv, Phase, Before, ReplyFails, Leaves, peerVars, listener
  <2>3. Copies'
    BY <1>8 DEF SessionInv, Copies, Dirs, ReplyFails, Leaves, peerVars, listener
  <2>4. InProgress'
    BY <1>8, AllUntouched DEF Before, ReplyFails, Leaves, peerVars
  <2>5. Body'
    BY <1>8 DEF SessionInv, Body, ReplyFails, Leaves, peerVars, listener
  <2>6. DoneComplete'
    BY <1>8 DEF SessionInv, DoneComplete, Complete, Skipped, Resets, Dirs, Source,
       ReplyFails, Leaves, peerVars, listener
  <2>7. EndHasCause'
    BY <1>8 DEF SessionInv, EndHasCause, Dirs, Source, Sink, ReplyFails, Leaves,
       peerVars, listener
  <2>8. CleanEnd'
    BY <1>8 DEF SessionInv, CleanEnd, Complete, Skipped, Resets, Dirs, Source, Phase,
       Before, ReplyFails, Leaves, peerVars, listener
  <2> QED
    BY <2>1, <2>2, <2>3, <2>4, <2>5, <2>6, <2>7, <2>8 DEF SessionInv
<1>9. CASE InterceptReply
  <2>1. TypeOK'
    BY <1>9, SessionAssumption DEF SessionInv, TypeOK, Body, Dirs, InterceptReply, peerVars,
       listener
  <2>2. Phase'
    BY <1>9 DEF SessionInv, Phase, Before, InterceptReply, peerVars, listener
  <2>3. Copies'
    BY <1>9 DEF SessionInv, Copies, Dirs, InterceptReply, peerVars, listener
  <2>4. InProgress'
    <3>1. /\ taken'["up"] = ahead /\ taken'["down"] = taken["down"] /\ copier' = copier
          /\ UNCHANGED <<got, sent, kind, ahead>> /\ hpc = "reply" /\ hpc' \notin Before
          /\ kind = "intercept"
      BY <1>9 DEF SessionInv, TypeOK, Phase, Before, Dirs, InterceptReply, peerVars
    <3>2. ASSUME NEW d \in Dirs PROVE Progress(d)'
      <4>1. copier[d] = "off" /\ Progress(d) /\ sent[d] \in Nat /\ ahead \in Nat
        BY <3>1, SessionAssumption DEF SessionInv, TypeOK, Copies, InProgress
      <4>2. got[d] = <<>> /\ taken[d] = 0 /\ Skipped(d)' = 0
        BY <3>1, <4>1 DEF Progress, Before, Skipped
      <4>3. ahead <= sent["up"]
        BY DEF SessionInv, Body
      <4> QED
        BY <3>1, <4>1, <4>2, <4>3 DEF Progress, Dirs
    <3> QED
      BY <3>2 DEF InProgress
  <2>5. Body'
    BY <1>9 DEF SessionInv, Body, Phase, InterceptReply, peerVars, listener
  <2>6. DoneComplete'
    BY <1>9 DEF SessionInv, DoneComplete, Complete, Skipped, Resets, Dirs, Source,
       Copies, InterceptReply, peerVars, listener
  <2>7. EndHasCause'
    BY <1>9 DEF SessionInv, EndHasCause, Dirs, Source, Sink, InterceptReply, peerVars,
       listener
  <2>8. CleanEnd'
    BY <1>9 DEF SessionInv, CleanEnd, Complete, Skipped, Resets, Dirs, Source,
       InterceptReply, peerVars, listener
  <2> QED
    BY <2>1, <2>2, <2>3, <2>4, <2>5, <2>6, <2>7, <2>8 DEF SessionInv
<1> QED
  BY <1>1, <1>2, <1>3, <1>4, <1>5, <1>6, <1>7, <1>8, <1>9

\* The request is sent on (proxy.go lines 446 to 463, mitm.go lines 250 to 264).
LEMMA ForwardStep ==
  ASSUME SessionInv, ForwardBody \/ Forwarded \/ ForwardFails \/ UpgradeForwarded
  PROVE  SessionInv'
<1>1. CASE ForwardBody
  <2>a. /\ TypeOK /\ Progress("up") /\ kind = "plain" /\ copier["up"] = "off"
        /\ taken["up"] + 1 \in 1 .. MaxUnits /\ taken["up"] = At("up")
        /\ taken["up"] < sent["up"] /\ taken["up"] < body
    <3>1. copier["up"] = "off" /\ kind = "plain"
      BY <1>1 DEF SessionInv, TypeOK, Copies, Dirs, ForwardBody
    <3>2. TypeOK /\ Progress("up") /\ At("up") = taken["up"]
      BY <1>1, <3>1 DEF SessionInv, InProgress, Progress, Dirs
    <3> QED
      BY <1>1, <3>1, <3>2, SessionAssumption DEF TypeOK, Dirs, ForwardBody
  <2>b. /\ got' \in [Dirs -> Seq(1 .. MaxUnits)]
        /\ got'["down"] = got["down"]
        /\ Len(got'["up"]) = Len(got["up"]) + 1 /\ At("up")' = taken["up"] + 1
        /\ got'["up"] = [u \in 1 .. Len(got'["up"]) |-> Skipped("up")' + u]
    <3>1. PICK n \in 1 .. MaxUnits : n = taken["up"] + 1
      BY <2>a
    <3>2. n = At("up") + 1 /\ "up" \in Dirs /\ "down" \in Dirs \ {"up"}
      BY <2>a, <3>1 DEF Dirs
    <3>3. UNCHANGED <<kind, ahead>> /\ Deliver("up", n)
      BY <1>1, <3>1 DEF ForwardBody
    <3> QED
      BY <2>a, <3>1, <3>2, <3>3, Delivered
  <2>1. TypeOK'
    BY <1>1, <2>a, <2>b, SessionAssumption DEF TypeOK, Dirs, ForwardBody, peerVars, listener
  <2>2. Phase'
    BY <1>1 DEF SessionInv, Phase, Before, ForwardBody, peerVars, listener
  <2>3. Copies'
    BY <1>1 DEF SessionInv, Copies, Dirs, ForwardBody, peerVars, listener
  <2>4. InProgress'
    <3>1. Progress("up")'
      <4>1. taken'["up"] = taken["up"] + 1 /\ sent' = sent /\ copier' = copier /\ kind' = kind
        BY <1>1, <2>a DEF TypeOK, Dirs, ForwardBody, peerVars
      <4>2. sent["up"] \in Nat /\ taken["up"] \in Nat
        BY <2>a, SessionAssumption DEF TypeOK, Dirs
      <4> QED
        BY <4>1, <4>2, <2>a, <2>b DEF Progress
    <3>2. Progress("down")'
      <4>1. Progress("down") /\ TypeOK /\ "down" \in Dirs
        BY DEF SessionInv, InProgress, Dirs
      <4>2. UNCHANGED <<got["down"], taken["down"], copier["down"], kind, ahead, sent, hpc>>
        BY <1>1, <2>b, <4>1 DEF TypeOK, ForwardBody, peerVars
      <4>3. sent["down"] \in Nat
        BY <4>1, SessionAssumption DEF TypeOK
      <4> QED
        BY <4>1, <4>2, <4>3, Untouched
    <3> QED
      BY <3>1, <3>2 DEF InProgress, Dirs
  <2>5. Body'
    <3>1. Len(got'["up"]) <= body
      BY <2>a, <2>b, SessionAssumption DEF TypeOK, At, Skipped, Dirs
    <3> QED
      BY <1>1, <3>1 DEF SessionInv, Body, ForwardBody, peerVars
  <2>6. DoneComplete'
    <3>1. \A d \in Dirs : copier[d] = "off"
      BY <1>1 DEF SessionInv, TypeOK, Copies, ForwardBody
    <3> QED
      BY <1>1, <3>1 DEF DoneComplete, ForwardBody
  <2>7. EndHasCause'
    BY <1>1 DEF SessionInv, EndHasCause, Dirs, Source, Sink, ForwardBody, peerVars, listener
  <2>8. CleanEnd'
    BY <1>1 DEF SessionInv, CleanEnd, Complete, Skipped, Resets, Dirs, Source, Phase,
       ForwardBody, peerVars, listener
  <2> QED
    BY <2>1, <2>2, <2>3, <2>4, <2>5, <2>6, <2>7, <2>8 DEF SessionInv
<1>2. CASE Forwarded
  <2>1. TypeOK'
    BY <1>2, SessionAssumption DEF SessionInv, TypeOK, Forwarded, Established,
       peerVars, listener
  <2>2. Phase'
    BY <1>2 DEF SessionInv, Phase, Before, Forwarded, Established, peerVars, listener
  <2>3. Copies'
    BY <1>2 DEF SessionInv, Copies, Dirs, Phase, Forwarded, Established, peerVars, listener
  <2>4. InProgress'
    BY <1>2 DEF SessionInv, InProgress, Progress, At, Skipped, Dirs, Before, Phase,
       Copies, Forwarded, Established, peerVars, listener
  <2>5. Body'
    BY <1>2 DEF SessionInv, Body, InProgress, Progress, At, Skipped, Dirs, Copies,
       TypeOK, Forwarded, Established, peerVars, listener
  <2>6. DoneComplete'
    BY <1>2 DEF SessionInv, DoneComplete, Complete, Skipped, Resets, Dirs, Source,
       Copies, Forwarded, Established, peerVars, listener
  <2>7. EndHasCause'
    BY <1>2 DEF SessionInv, EndHasCause, Dirs, Source, Sink, Forwarded, Established,
       peerVars, listener
  <2>8. CleanEnd'
    BY <1>2 DEF SessionInv, CleanEnd, Complete, Skipped, Resets, Dirs, Source,
       Forwarded, Established, peerVars, listener
  <2> QED
    BY <2>1, <2>2, <2>3, <2>4, <2>5, <2>6, <2>7, <2>8 DEF SessionInv
<1>3. CASE ForwardFails
  <2>1. TypeOK'
    BY <1>3, SessionAssumption DEF SessionInv, TypeOK, ForwardFails, Leaves, peerVars,
       listener
  <2>2. Phase'
    BY <1>3 DEF SessionInv, Phase, Before, ForwardFails, Leaves, peerVars, listener
  <2>3. Copies'
    BY <1>3 DEF SessionInv, Copies, Dirs, ForwardFails, Leaves, peerVars, listener
  <2>4. InProgress'
    BY <1>3, AllUntouched DEF Before, ForwardFails, Leaves, peerVars
  <2>5. Body'
    BY <1>3 DEF SessionInv, Body, ForwardFails, Leaves, peerVars, listener
  <2>6. DoneComplete'
    BY <1>3 DEF SessionInv, DoneComplete, Complete, Skipped, Resets, Dirs, Source,
       ForwardFails, Leaves, peerVars, listener
  <2>7. EndHasCause'
    BY <1>3 DEF SessionInv, EndHasCause, Dirs, Source, Sink, ForwardFails, Leaves,
       peerVars, listener
  <2>8. CleanEnd'
    BY <1>3 DEF SessionInv, CleanEnd, Complete, Skipped, Resets, Dirs, Source, Phase,
       Before, ForwardFails, Leaves, peerVars, listener
  <2> QED
    BY <2>1, <2>2, <2>3, <2>4, <2>5, <2>6, <2>7, <2>8 DEF SessionInv
<1>4. CASE UpgradeForwarded
  <2>1. TypeOK'
    BY <1>4, SessionAssumption DEF SessionInv, TypeOK, Body, Dirs, UpgradeForwarded,
       Established, Drained, peerVars, listener
  <2>2. Phase'
    BY <1>4 DEF SessionInv, Phase, Before, UpgradeForwarded, Established, Drained,
       peerVars, listener
  <2>3. Copies'
    BY <1>4 DEF SessionInv, Copies, Dirs, Phase, UpgradeForwarded, Established,
       Drained, peerVars, listener
  <2>4. InProgress'
    BY <1>4 DEF SessionInv, InProgress, Progress, At, Skipped, Dirs, Before, Body,
       Copies, TypeOK, UpgradeForwarded, Established, Drained, peerVars, listener
  <2>5. Body'
    BY <1>4 DEF SessionInv, Body, UpgradeForwarded, Established, Drained, peerVars, listener
  <2>6. DoneComplete'
    BY <1>4 DEF SessionInv, DoneComplete, Complete, Skipped, Resets, Dirs, Source,
       Copies, UpgradeForwarded, Established, Drained, peerVars, listener
  <2>7. EndHasCause'
    BY <1>4 DEF SessionInv, EndHasCause, Dirs, Source, Sink, UpgradeForwarded,
       Established, Drained, peerVars, listener
  <2>8. CleanEnd'
    BY <1>4 DEF SessionInv, CleanEnd, Complete, Skipped, Resets, Dirs, Source,
       UpgradeForwarded, Established, Drained, peerVars, listener
  <2> QED
    BY <2>1, <2>2, <2>3, <2>4, <2>5, <2>6, <2>7, <2>8 DEF SessionInv
<1> QED
  BY <1>1, <1>2, <1>3, <1>4

\* copyWithCounter (proxy.go lines 506 to 533) reads, writes and ends.
LEMMA CopyStep ==
  ASSUME SessionInv, (\E d \in Dirs : Read(d)) \/ (\E d \in Dirs : Write(d))
                     \/ (\E d \in Dirs : CopyEnds(d))
  PROVE  SessionInv'
<1>1. ASSUME NEW d \in Dirs, Read(d) PROVE SessionInv'
  <2>1. TypeOK'
    BY <1>1, SessionAssumption DEF SessionInv, TypeOK, Dirs, Read, Gone, peerVars, listener
  <2>2. Phase'
    BY <1>1 DEF SessionInv, Phase, Before, Read, Gone, peerVars, listener
  <2>3. Copies'
    BY <1>1 DEF SessionInv, Copies, Dirs, TypeOK, Read, Gone, peerVars, listener
  <2>4. InProgress'
    <3>1. Progress(d)'
      <4>1. /\ copier[d] = "read" /\ copier'[d] = "write"
            /\ taken'[d] = taken[d] + 1 /\ taken[d] < sent[d]
            /\ UNCHANGED <<got, sent, kind, ahead>>
        BY <1>1 DEF SessionInv, TypeOK, Read, peerVars
      <4>2. Progress(d) /\ At(d) \in Nat /\ taken[d] \in Nat /\ sent[d] \in Nat
        BY SkippedType, SessionAssumption DEF SessionInv, InProgress, TypeOK
      <4>3. Skipped(d)' = Skipped(d) /\ At(d)' = At(d)
        BY <4>1 DEF Skipped, At
      <4> QED
        BY <4>1, <4>2, <4>3 DEF Progress
    <3>2. ASSUME NEW e \in Dirs \ {d} PROVE Progress(e)'
      <4>1. Progress(e) /\ TypeOK /\ sent[e] \in Nat
        BY SessionAssumption DEF SessionInv, InProgress, TypeOK
      <4>2. UNCHANGED <<got[e], taken[e], copier[e], kind, ahead, sent, hpc>>
        BY <1>1, <4>1 DEF TypeOK, Read, peerVars
      <4> QED
        BY <4>1, <4>2, Untouched
    <3> QED
      BY <3>1, <3>2 DEF InProgress
  <2>5. Body'
    BY <1>1 DEF SessionInv, Body, Read, Gone, peerVars, listener
  <2>6. DoneComplete'
    BY <1>1 DEF SessionInv, DoneComplete, Complete, Skipped, Resets, Dirs, Source,
       TypeOK, Read, Gone, peerVars, listener
  <2>7. EndHasCause'
    BY <1>1 DEF SessionInv, EndHasCause, Dirs, Source, Sink, Read, Gone, peerVars, listener
  <2>8. CleanEnd'
    BY <1>1, CleanUntouched DEF SessionInv, Read, peerVars
  <2> QED
    BY <2>1, <2>2, <2>3, <2>4, <2>5, <2>6, <2>7, <2>8 DEF SessionInv
<1>2. ASSUME NEW d \in Dirs, Write(d) PROVE SessionInv'
  <2>a. /\ TypeOK /\ Progress(d) /\ copier[d] = "write" /\ taken[d] \in 1 .. MaxUnits
        /\ taken[d] = At(d) + 1 /\ hpc = "splice" /\ (kind = "plain" => d = "down")
    <3>1. TypeOK /\ Progress(d) /\ copier[d] = "write" /\ taken[d] = At(d) + 1
      BY <1>2 DEF SessionInv, InProgress, Progress, Write
    <3>2. taken[d] \in 1 .. MaxUnits
      BY <3>1, SkippedType, SessionAssumption DEF TypeOK
    <3>3. hpc = "splice" /\ (kind = "plain" => d = "down")
      BY <1>2 DEF SessionInv, Copies, Phase, Write, Gone
    <3> QED
      BY <3>1, <3>2, <3>3
  <2>b. /\ got' \in [Dirs -> Seq(1 .. MaxUnits)]
        /\ \A e \in Dirs \ {d} : got'[e] = got[e]
        /\ Len(got'[d]) = Len(got[d]) + 1 /\ At(d)' = taken[d]
        /\ got'[d] = [u \in 1 .. Len(got'[d]) |-> Skipped(d)' + u]
    <3>1. UNCHANGED <<kind, ahead>> /\ Deliver(d, taken[d])
      BY <1>2 DEF Write
    <3> QED
      BY <2>a, <3>1, Delivered
  <2>1. TypeOK'
    BY <1>2, <2>a, <2>b DEF TypeOK, Write, peerVars, listener
  <2>2. Phase'
    BY <1>2 DEF SessionInv, Phase, Before, Write, Gone, peerVars, listener
  <2>3. Copies'
    BY <1>2 DEF SessionInv, Copies, Dirs, TypeOK, Write, Gone, peerVars, listener
  <2>4. InProgress'
    <3>1. Progress(d)'
      <4>1. copier'[d] = "read" /\ UNCHANGED <<taken, sent, kind>> /\ Progress(d)
        BY <1>2, <2>a DEF TypeOK, Write, peerVars
      <4> QED
        BY <4>1, <2>b DEF Progress
    <3>2. ASSUME NEW e \in Dirs \ {d} PROVE Progress(e)'
      <4>1. Progress(e) /\ TypeOK /\ sent[e] \in Nat
        BY SessionAssumption DEF SessionInv, InProgress, TypeOK
      <4>2. UNCHANGED <<got[e], taken[e], copier[e], kind, ahead, sent, hpc>>
        BY <1>2, <2>b, <4>1 DEF TypeOK, Write, peerVars
      <4> QED
        BY <4>1, <4>2, Untouched
    <3> QED
      BY <3>1, <3>2 DEF InProgress
  <2>5. Body'
    <3>1. CASE kind = "plain"
      <4>1. "up" \in Dirs \ {d}
        BY <2>a, <3>1 DEF Dirs
      <4>2. got'["up"] = got["up"]
        BY <2>b, <4>1
      <4> QED
        BY <1>2, <4>2 DEF SessionInv, Body, Write, peerVars
    <3>2. CASE kind # "plain"
      BY <1>2, <3>2 DEF SessionInv, Body, Write, peerVars
    <3> QED
      BY <3>1, <3>2
  <2>6. DoneComplete'
    <3>1. ASSUME NEW e \in Dirs, copier'[e] = "done"
          PROVE  /\ copier[e] = "done" /\ got'[e] = got[e]
      BY <1>2, <2>a, <2>b, <3>1 DEF TypeOK, Write
    <3>2. UNCHANGED <<kind, ahead, peer, sent, closed>>
      BY <1>2 DEF Write, peerVars
    <3> QED
      BY <3>1, <3>2 DEF SessionInv, DoneComplete, Complete, Resets, Skipped
  <2>7. EndHasCause'
    BY <1>2 DEF SessionInv, EndHasCause, Dirs, Source, Sink, Write, Gone, peerVars, listener
  <2>8. CleanEnd'
    <3>1. hpc' = "splice"
      BY <1>2, <2>a DEF Write
    <3> QED
      BY <3>1 DEF CleanEnd
  <2> QED
    BY <2>1, <2>2, <2>3, <2>4, <2>5, <2>6, <2>7, <2>8 DEF SessionInv
<1>3. ASSUME NEW d \in Dirs, CopyEnds(d) PROVE SessionInv'
  <2>a. /\ copier[d] \in {"read", "write"} /\ copier'[d] = "done"
        /\ UNCHANGED <<got, taken, sent, peer, kind, ahead, closed, hpc>>
        /\ \A e \in Dirs \ {d} : copier'[e] = copier[e]
    BY <1>3 DEF SessionInv, TypeOK, CopyEnds, CopyOver, peerVars
  <2>1. TypeOK'
    BY <1>3, SessionAssumption DEF SessionInv, TypeOK, Dirs, CopyEnds, CopyOver, Gone,
       peerVars, listener
  <2>2. Phase'
    BY <1>3 DEF SessionInv, Phase, Before, CopyEnds, CopyOver, Gone, peerVars, listener
  <2>3. Copies'
    BY <1>3 DEF SessionInv, Copies, Dirs, TypeOK, CopyEnds, CopyOver, Gone, peerVars,
       listener
  <2>4. InProgress'
    <3>1. Progress(d)'
      <4>1. Progress(d) /\ At(d) \in Nat /\ taken[d] \in Nat
        BY SkippedType, SessionAssumption DEF SessionInv, InProgress, TypeOK
      <4>2. Skipped(d)' = Skipped(d) /\ At(d)' = At(d)
        BY <2>a DEF Skipped, At
      <4> QED
        BY <2>a, <4>1, <4>2 DEF Progress
    <3>2. ASSUME NEW e \in Dirs \ {d} PROVE Progress(e)'
      <4>1. Progress(e) /\ TypeOK /\ sent[e] \in Nat
        BY SessionAssumption DEF SessionInv, InProgress, TypeOK
      <4>2. UNCHANGED <<got[e], taken[e], copier[e], kind, ahead, sent, hpc>>
        BY <2>a
      <4> QED
        BY <4>1, <4>2, Untouched
    <3> QED
      BY <3>1, <3>2 DEF InProgress
  <2>5. Body'
    BY <1>3 DEF SessionInv, Body, CopyEnds, CopyOver, Gone, peerVars, listener
  <2>6. DoneComplete'
    <3> SUFFICES ASSUME ~Resets, ~closed, NEW e \in Dirs, copier'[e] = "done"
                 PROVE  Complete(e)
      BY <2>a DEF DoneComplete, Complete, Resets, Skipped
    <3>1. CASE e # d
      BY <2>a, <3>1 DEF SessionInv, DoneComplete
    <3>2. CASE e = d
      <4>1. peer[Source(d)] # "reset" /\ peer[Sink(d)] # "reset" /\ deadline = "clear"
        BY <2>a DEF SessionInv, Copies, Resets, Source, Sink, Sides
      <4>2. copier[d] = "read" /\ peer[Source(d)] = "fin" /\ taken[d] = sent[d]
        BY <1>3, <4>1 DEF CopyEnds, CopyOver, Gone
      <4>3. Skipped(d) + Len(got[d]) = taken[d]
        BY <4>2 DEF SessionInv, InProgress, Progress, At
      <4> QED
        BY <3>2, <4>2, <4>3 DEF Complete
    <3> QED
      BY <3>1, <3>2
  <2>7. EndHasCause'
    BY <1>3 DEF SessionInv, EndHasCause, Dirs, Source, Sink, Copies, TypeOK, Sides,
       CopyEnds, CopyOver, Gone, peerVars, listener
  <2>8. CleanEnd'
    BY <1>3, CleanUntouched DEF SessionInv, CopyEnds, peerVars
  <2> QED
    BY <2>1, <2>2, <2>3, <2>4, <2>5, <2>6, <2>7, <2>8 DEF SessionInv
<1> QED
  BY <1>1, <1>2, <1>3

\* The handler returns, or the server is done with the connection (proxy.go
\* line 479, mitm.go lines 270 to 280 and 390 to 401).
LEMMA EndStep ==
  ASSUME SessionInv, Return \/ Accept \/ ServerCloses
  PROVE  SessionInv'
<1>1. CASE Return
  <2>1. TypeOK'
    BY <1>1, SessionAssumption DEF SessionInv, TypeOK, Return, Awaited, Leaves,
       peerVars, listener
  <2>2. Phase'
    BY <1>1 DEF SessionInv, Phase, Before, Return, Awaited, Leaves, peerVars, listener
  <2>3. Copies'
    BY <1>1 DEF SessionInv, Copies, Dirs, Return, Awaited, Leaves, peerVars, listener
  <2>4. InProgress'
    BY <1>1, AllUntouched DEF Before, Return, Leaves, peerVars
  <2>5. Body'
    BY <1>1 DEF SessionInv, Body, Return, Awaited, Leaves, peerVars, listener
  <2>6. DoneComplete'
    BY <1>1 DEF SessionInv, DoneComplete, Complete, Skipped, Resets, Dirs, Source,
       Return, Awaited, Leaves, peerVars, listener
  <2>7. EndHasCause'
    BY <1>1 DEF SessionInv, EndHasCause, Dirs, Source, Sink, Return, Awaited, Leaves,
       peerVars, listener
  <2>8. CleanEnd'
    BY <1>1 DEF SessionInv, CleanEnd, Complete, Skipped, Resets, Dirs, Source, Body,
       DoneComplete, Copies, Phase, TypeOK, Return, Awaited, Leaves, peerVars, listener
  <2> QED
    BY <2>1, <2>2, <2>3, <2>4, <2>5, <2>6, <2>7, <2>8 DEF SessionInv
<1>2. CASE Accept
  <2>1. TypeOK'
    BY <1>2, SessionAssumption DEF SessionInv, TypeOK, Accept, Leaves, peerVars
  <2>2. Phase'
    BY <1>2 DEF SessionInv, Phase, Before, Accept, Leaves, peerVars
  <2>3. Copies'
    BY <1>2 DEF SessionInv, Copies, Dirs, Phase, Accept, Leaves, peerVars
  <2>4. InProgress'
    BY <1>2, AllUntouched DEF Before, Accept, Leaves, peerVars
  <2>5. Body'
    BY <1>2 DEF SessionInv, Body, Accept, Leaves, peerVars
  <2>6. DoneComplete'
    BY <1>2 DEF SessionInv, DoneComplete, Complete, Skipped, Resets, Dirs, Source,
       Accept, Leaves, peerVars
  <2>7. EndHasCause'
    BY <1>2 DEF SessionInv, EndHasCause, Dirs, Source, Sink, Accept, Leaves, peerVars
  <2>8. CleanEnd'
    BY <1>2 DEF SessionInv, CleanEnd, Complete, Skipped, Resets, Dirs, Source, Phase,
       Accept, Leaves, peerVars
  <2> QED
    BY <2>1, <2>2, <2>3, <2>4, <2>5, <2>6, <2>7, <2>8 DEF SessionInv
<1>3. CASE ServerCloses
  <2>1. TypeOK'
    BY <1>3, SessionAssumption DEF SessionInv, TypeOK, ServerCloses, peerVars, listener
  <2>2. Phase'
    BY <1>3 DEF SessionInv, Phase, Before, ServerCloses, peerVars, listener
  <2>3. Copies'
    BY <1>3 DEF SessionInv, Copies, Dirs, ServerCloses, peerVars, listener
  <2>4. InProgress'
    BY <1>3, AllUntouched DEF Before, ServerCloses, peerVars
  <2>5. Body'
    BY <1>3 DEF SessionInv, Body, ServerCloses, peerVars, listener
  <2>6. DoneComplete'
    BY <1>3 DEF SessionInv, DoneComplete, Complete, Skipped, Resets, Dirs, Source,
       ServerCloses, peerVars, listener
  <2>7. EndHasCause'
    BY <1>3 DEF SessionInv, EndHasCause, Dirs, Source, Sink, ServerCloses, peerVars,
       listener
  <2>8. CleanEnd'
    BY <1>3 DEF SessionInv, CleanEnd, Complete, Skipped, Resets, Dirs, Source,
       ServerCloses, peerVars, listener
  <2> QED
    BY <2>1, <2>2, <2>3, <2>4, <2>5, <2>6, <2>7, <2>8 DEF SessionInv
<1> QED
  BY <1>1, <1>2, <1>3

-----------------------------------------------------------------------------
(***************************************************************************)
(* All together.                                                           *)
(***************************************************************************)

\* A connection that has just been accepted, or an upgrade that begins.
LEMMA SessionInvInit == Init => SessionInv
<1> SUFFICES ASSUME Init PROVE SessionInv
  OBVIOUS
<1>1. \A d \in Dirs : got[d] = <<>> /\ copier[d] = "off" /\ taken[d] = 0 /\ sent[d] = 0
  BY DEF Init
<1>2. kind \in {"tunnel", "plain", "intercept", "upgrade"} /\ ahead = 0 /\ MaxUnits \in Nat
  BY SessionAssumption DEF Init
<1>3. TypeOK
  <2>1. kind \in Requests /\ body \in 0 .. MaxUnits
    BY <1>2 DEF Init
  <2>2. /\ hpc \in {"request", "dial"} /\ told = "nothing" /\ deadline \in {"armed", "clear"}
        /\ {closed, served, ldone} \subseteq BOOLEAN
    BY DEF Init
  <2>3. /\ peer \in [Sides -> {"open", "fin", "reset"}]
        /\ sent \in [Dirs -> 0 .. MaxUnits] /\ taken \in [Dirs -> 0 .. MaxUnits]
        /\ copier \in [Dirs -> {"off", "read", "write", "done"}]
        /\ finSent \in [Dirs -> BOOLEAN]
    BY <1>2 DEF Init
  <2>4. got \in [Dirs -> Seq(1 .. MaxUnits)]
    <3>1. got = [d \in Dirs |-> <<>>] /\ <<>> \in Seq(1 .. MaxUnits)
      BY DEF Init
    <3> QED
      BY <3>1
  <2> QED
    BY <1>2, <2>1, <2>2, <2>3, <2>4 DEF TypeOK
<1>4. Phase
  BY <1>2 DEF Init, Phase, Before
<1>5. InProgress
  <2>1. ASSUME NEW d \in Dirs PROVE Progress(d)
    <3>1. Skipped(d) = 0 /\ Len(got[d]) = 0 /\ At(d) = 0
      BY <1>1, <1>2 DEF Skipped, At
    <3> QED
      BY <1>1, <3>1 DEF Progress
  <2> QED
    BY <2>1 DEF InProgress
<1>6. Body
  BY <1>1, <1>2, SessionAssumption DEF Init, Body, Dirs
<1>7. Copies /\ DoneComplete
  BY <1>1 DEF Copies, DoneComplete
<1>8. EndHasCause /\ CleanEnd
  BY DEF Init, EndHasCause, CleanEnd
<1> QED
  BY <1>3, <1>4, <1>5, <1>6, <1>7, <1>8 DEF SessionInv

\* Every step of the handler, its copiers, the peers and the clock.
LEMMA SessionInvNext == SessionInv /\ [Next]_vars => SessionInv'
<1> SUFFICES ASSUME SessionInv, [Next]_vars PROVE SessionInv'
  OBVIOUS
<1>1. CASE UNCHANGED vars
  <2>1. /\ InProgress'
        /\ UNCHANGED <<kind, body, hpc, told, deadline, peer, sent, ahead, taken, got,
                       copier, finSent, closed, served, ldone>>
    BY <1>1, AllUntouched DEF vars, peerVars, listener, Before
  <2>2. TypeOK' /\ Phase' /\ Copies' /\ Body'
    BY <2>1 DEF SessionInv, TypeOK, Phase, Copies, Body, Before
  <2>3. DoneComplete' /\ EndHasCause' /\ CleanEnd'
    BY <2>1 DEF SessionInv, DoneComplete, EndHasCause, CleanEnd, Complete, Resets, Skipped
  <2> QED
    BY <2>1, <2>2, <2>3 DEF SessionInv
<1>2. CASE Next
  <2>1. CASE Environment
    BY <2>1, PeersStep DEF Environment
  <2>2. CASE Handler \/ Dialed \/ Handshake \/ ServerCloses
    BY <2>2, AnswerStep, ForwardStep, EndStep DEF Handler
  <2>3. CASE \E d \in Dirs : Copying(d)
    BY <2>3, CopyStep DEF Copying
  <2> QED
    BY <1>2, <2>1, <2>2, <2>3 DEF Next
<1> QED
  BY <1>1, <1>2

\* The inductive invariant holds in every reachable state.
THEOREM SessionInvariant == Spec => []SessionInv
BY SessionInvInit, SessionInvNext, PTL DEF Spec

\* Whatever a connection carries and however its peers behave, its state is
\* well typed.
THEOREM SessionTypes == Spec => []TypeOK
<1>1. SessionInv => TypeOK
  BY DEF SessionInv
<1> QED
  BY <1>1, SessionInvariant, PTL

\* What a peer receives is what the other sent, in order and without a gap
\* (copyWithCounter, and the drain of handleUpgrade, mitm.go lines 255 to 264).
THEOREM DeliveredInOrder == Spec => []InOrder
<1>1. ASSUME SessionInv, NEW d \in Dirs, got[d] # <<>>
      PROVE  At(d) <= taken[d]
  <2>1. Progress(d) /\ At(d) \in Nat /\ taken[d] \in Nat
    BY <1>1, SkippedType, SessionAssumption DEF SessionInv, InProgress, TypeOK
  <2>2. copier[d] \in {"off", "read", "write", "done"}
    BY <1>1 DEF SessionInv, TypeOK
  <2> QED
    BY <1>1, <2>1, <2>2 DEF Progress
<1>2. SessionInv => InOrder
  BY <1>1 DEF SessionInv, InProgress, Progress, InOrder, At
<1> QED
  BY <1>2, SessionInvariant, PTL

\* No timeout and no ending of the other direction tells a peer that no more
\* comes (spliceCountedConns, proxy.go lines 479 to 502).
THEOREM EndsHaveCauses == Spec => []EndHasCause
<1>1. SessionInv => EndHasCause
  BY DEF SessionInv
<1> QED
  BY <1>1, SessionInvariant, PTL

\* A connection that ends by itself has delivered what it had to (proxy.go
\* line 478, mitm.go line 279).
THEOREM EndsAreClean == Spec => []CleanEnd
<1>1. SessionInv => CleanEnd
  BY DEF SessionInv
<1> QED
  BY <1>1, SessionInvariant, PTL
=============================================================================
