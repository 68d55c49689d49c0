------------------------------ MODULE Session ------------------------------
(***************************************************************************)
(* One connection of a client from its accept to the end of its handler    *)
(* (handleConn in proxy.go): the request, the answer, and the copying in   *)
(* both directions until it is closed.  Four kinds of request:             *)
(*   "tunnel"     SOCKS5 or HTTP CONNECT: two copiers, both awaited        *)
(*   "plain"      an absolute-form HTTP request: its body, then one copier *)
(*   "intercept"  CONNECT with interception on: http.Server over a         *)
(*                oneConnListener                                          *)
(*   "upgrade"    a WebSocket request inside an intercepted connection     *)
(*                (handleUpgrade): two copiers, the first one awaited      *)
(*                                                                         *)
(* Which link carries it is the business of Dial and Forward.  Data is     *)
(* units, numbered per direction.                                          *)
(***************************************************************************)
EXTENDS Integers, Sequences

CONSTANTS Requests,   \* kinds of request that arrive
          MaxUnits,   \* units each peer sends at most
          Eager       \* whether a client may send before it has its answer

ASSUME SessionAssumption ==
  /\ Requests \subseteq {"tunnel", "plain", "intercept", "upgrade"}
  /\ MaxUnits \in Nat
  /\ Eager \in BOOLEAN

VARIABLES
  kind,      \* the request
  body,      \* units of its body ("plain")
  hpc,       \* where the handler is
  told,      \* what the client was told
  deadline,  \* the 30 s of handleConn: "armed", "expired", "clear"
  peer,      \* side -> "open", "fin" (it sends no more), "reset" (it is gone)
  sent,      \* direction -> units its source has sent
  ahead,     \* units of "up" that br holds when the request has been read
  taken,     \* direction -> units read off its source's socket
  got,       \* direction -> the units its sink was sent
  copier,    \* direction -> its copyWithCounter
  finSent,   \* direction -> its sink was told that no more comes
  closed,    \* both connections closed
  served,    \* oneConnListener.served
  ldone      \* oneConnListener.done is closed

peerVars == <<peer, sent>>
listener == <<served, ldone>>
vars == <<kind, body, hpc, told, deadline, peerVars, ahead, taken, got, copier,
          finSent, closed, listener>>

Dirs  == {"up", "down"}
Sides == {"client", "upstream"}
Source(d) == IF d = "up" THEN "client" ELSE "upstream"
Sink(d)   == IF d = "up" THEN "upstream" ELSE "client"

\* An upgrade starts inside http.Server, which has cleared the deadline.
Init ==
  /\ kind \in Requests
  /\ body \in IF kind = "plain" THEN 0 .. MaxUnits ELSE {0}
  /\ hpc = IF kind = "upgrade" THEN "dial" ELSE "request"
  /\ told = "nothing"
  /\ deadline = IF kind = "upgrade" THEN "clear" ELSE "armed"
  /\ peer = [s \in Sides |-> "open"]
  /\ sent = [d \in Dirs |-> 0] /\ ahead = 0
  /\ taken = [d \in Dirs |-> 0] /\ got = [d \in Dirs |-> <<>>]
  /\ copier = [d \in Dirs |-> "off"] /\ finSent = [d \in Dirs |-> FALSE]
  /\ closed = FALSE /\ served = FALSE /\ ldone = FALSE

-----------------------------------------------------------------------------
(***************************************************************************)
(* The peers and the clock.                                                *)
(***************************************************************************)

Connected == hpc \in {"handshake", "reply", "forward", "splice"} /\ kind # "intercept"

\* What a client may send before it is told anything: a body, and what it is
\* too eager to hold back.
Early == Eager \/ kind = "plain"

Send(d) ==
  /\ ~closed /\ peer[Source(d)] = "open" /\ sent[d] < MaxUnits
  /\ IF d = "up" THEN told # "nothing" \/ Early ELSE Connected
  /\ sent' = [sent EXCEPT ![d] = @ + 1]
  /\ UNCHANGED <<kind, body, hpc, told, deadline, peer, ahead, taken, got, copier,
                 finSent, closed, listener>>

\* A peer sends no more, or it is gone with what it has not been read of.
Leave(s) ==
  /\ ~closed /\ peer[s] # "reset" /\ (s = "upstream" => Connected)
  /\ \E how \in {"fin", "reset"} \ {peer[s]} : peer' = [peer EXCEPT ![s] = how]
  /\ UNCHANGED <<kind, body, hpc, told, deadline, sent, ahead, taken, got, copier,
                 finSent, closed, listener>>

Expire ==
  /\ deadline = "armed" /\ ~closed /\ deadline' = "expired"
  /\ UNCHANGED <<kind, body, hpc, told, peerVars, ahead, taken, got, copier,
                 finSent, closed, listener>>

-----------------------------------------------------------------------------
(***************************************************************************)
(* Up to the answer.                                                       *)
(***************************************************************************)

\* A read of the client, or a write to it, fails.
ClientFails == deadline = "expired" \/ peer["client"] = "reset"

\* Every exit of the handler closes the client, and the upstream if there is
\* one (the deferred calls).  The client of an upgrade that was refused before
\* the Hijack goes back to http.Server, where this module does not follow it.
Leaves == hpc' = "done" /\ closed' = TRUE

\* handleConn's peek, then the SOCKS5 conversation or http.ReadRequest: what
\* the client sent behind the request may be read into br with it.
ReadRequest ==
  /\ hpc = "request" /\ ~ClientFails
  /\ ahead' \in 0 .. sent["up"]
  /\ hpc' = IF kind = "intercept" THEN "reply" ELSE "dial"
  /\ UNCHANGED <<kind, body, told, deadline, peerVars, taken, got, copier, finSent,
                 closed, listener>>

\* The read fails or the request is not one the proxy serves: it is refused
\* (a SOCKS5 reply code, a 400) or dropped.
NoRequest ==
  /\ hpc = "request" /\ Leaves
  /\ told' \in IF ClientFails THEN {"nothing"} ELSE {"nothing", "refused"}
  /\ UNCHANGED <<kind, body, deadline, peerVars, ahead, taken, got, copier, finSent,
                 listener>>

Dialed ==
  /\ hpc = "dial"
  /\ hpc' = CASE kind = "tunnel" -> "reply" [] kind = "plain" -> "forward"
              [] kind = "upgrade" -> "handshake"
  /\ UNCHANGED <<kind, body, told, deadline, peerVars, ahead, taken, got, copier,
                 finSent, closed, listener>>

\* No link, refused, or 10 s over.
DialFails ==
  /\ hpc = "dial" /\ Leaves
  /\ told' = IF ClientFails THEN "nothing" ELSE "refused"
  /\ UNCHANGED <<kind, body, deadline, peerVars, ahead, taken, got, copier, finSent,
                 listener>>

\* handleUpgrade's TLS handshake, which has no deadline; then the Hijack,
\* which hands over what the server has read behind the request.
Handshake ==
  /\ hpc = "handshake" /\ peer["upstream"] = "open"
  /\ hpc' = "forward" /\ ahead' \in 0 .. sent["up"]
  /\ UNCHANGED <<kind, body, told, deadline, peerVars, taken, got, copier, finSent,
                 closed, listener>>

HandshakeFails ==
  /\ hpc = "handshake" /\ Leaves
  /\ told' = IF ClientFails THEN "nothing" ELSE "refused"
  /\ UNCHANGED <<kind, body, deadline, peerVars, ahead, taken, got, copier, finSent,
                 listener>>

\* A slip of Established: the deadline left armed.
EstablishedArmed == told' = "established" /\ UNCHANGED deadline

\* The client has its answer; the deadline is lifted.
Established == told' = "established" /\ deadline' = "clear"

\* The success reply of a tunnel (SOCKS5, and CONNECT in lines 437 to 442).
\* What follows is copied from the client's socket, not from br.
Reply ==
  /\ hpc = "reply" /\ kind = "tunnel" /\ ~ClientFails /\ Established
  /\ taken' = [taken EXCEPT !["up"] = ahead]
  /\ hpc' = "splice" /\ copier' = [d \in Dirs |-> "read"]
  /\ UNCHANGED <<kind, body, peerVars, ahead, got, finSent, closed, listener>>

\* The success reply before an interception: the 30 s go on.
InterceptReply ==
  /\ hpc = "reply" /\ kind = "intercept" /\ ~ClientFails
  /\ told' = "established" /\ hpc' = "accept"
  /\ taken' = [taken EXCEPT !["up"] = ahead]
  /\ UNCHANGED <<kind, body, deadline, peerVars, ahead, got, copier, finSent, closed,
                 listener>>

ReplyFails ==
  /\ hpc = "reply" /\ ClientFails /\ Leaves
  /\ UNCHANGED <<kind, body, told, deadline, peerVars, ahead, taken, got, copier,
                 finSent, listener>>

-----------------------------------------------------------------------------
(***************************************************************************)
(* Sending the request on.                                                 *)
(***************************************************************************)

Deliver(d, u) == got' = [got EXCEPT ![d] = Append(@, u)]

\* req.Write of a plain request, one unit of its body; br is read first.
ForwardBody ==
  /\ hpc = "forward" /\ kind = "plain" /\ taken["up"] < body
  /\ taken["up"] < ahead \/ ~ClientFails
  /\ taken["up"] < sent["up"] /\ peer["upstream"] # "reset"
  /\ taken' = [taken EXCEPT !["up"] = @ + 1] /\ Deliver("up", taken["up"] + 1)
  /\ UNCHANGED <<kind, body, hpc, told, deadline, peerVars, ahead, copier, finSent,
                 closed, listener>>

\* The whole request is written.  What the client sends later is not read.
Forwarded ==
  /\ hpc = "forward" /\ kind = "plain" /\ taken["up"] = body
  /\ peer["upstream"] # "reset"
  /\ hpc' = "splice" /\ Established
  /\ copier' = [copier EXCEPT !["down"] = "read"]
  /\ UNCHANGED <<kind, body, peerVars, ahead, taken, got, finSent, closed, listener>>

\* The body ends short, the deadline passes, or the upstream is gone: the
\* client is dropped without an answer.
ForwardFails ==
  /\ hpc = "forward" /\ Leaves
  /\ \/ peer["upstream"] = "reset"
     \/ /\ kind = "plain" /\ taken["up"] < body /\ taken["up"] >= ahead
        /\ ClientFails \/ (peer["client"] = "fin" /\ taken["up"] = sent["up"])
  /\ UNCHANGED <<kind, body, told, deadline, peerVars, ahead, taken, got, copier,
                 finSent, listener>>

\* Slips of Drained: the buffered bytes left in br; one byte before them sent.
NotDrained == <<>>
DrainedOffByOne == [u \in 1 .. ahead |-> u - 1]

\* The units of br, which handleUpgrade writes before it starts to copy.
Drained == [u \in 1 .. ahead |-> u]

UpgradeForwarded ==
  /\ hpc = "forward" /\ kind = "upgrade" /\ peer["upstream"] # "reset"
  /\ hpc' = "splice" /\ Established
  /\ got' = [got EXCEPT !["up"] = Drained]
  /\ taken' = [taken EXCEPT !["up"] = ahead]
  /\ copier' = [d \in Dirs |-> "read"]
  /\ UNCHANGED <<kind, body, peerVars, ahead, finSent, closed, listener>>

-----------------------------------------------------------------------------
(***************************************************************************)
(* copyWithCounter, and who waits for it.                                  *)
(***************************************************************************)

Gone(s) == closed \/ peer[s] = "reset" \/ (s = "client" /\ deadline = "expired")

Read(d) ==
  /\ copier[d] = "read" /\ ~Gone(Source(d)) /\ taken[d] < sent[d]
  /\ taken' = [taken EXCEPT ![d] = @ + 1]
  /\ copier' = [copier EXCEPT ![d] = "write"]
  /\ UNCHANGED <<kind, body, hpc, told, deadline, peerVars, ahead, got, finSent,
                 closed, listener>>

Write(d) ==
  /\ copier[d] = "write" /\ ~Gone(Sink(d))
  /\ Deliver(d, taken[d])
  /\ copier' = [copier EXCEPT ![d] = "read"]
  /\ UNCHANGED <<kind, body, hpc, told, deadline, peerVars, ahead, taken, finSent,
                 closed, listener>>

\* The source ended, or either side failed.
CopyOver(d) ==
  \/ copier[d] = "read" /\ (Gone(Source(d)) \/ (peer[Source(d)] = "fin" /\ taken[d] = sent[d]))
  \/ copier[d] = "write" /\ Gone(Sink(d))

\* A tunnel then half-closes the sink, whatever ended the copy.
CopyEnds(d) ==
  /\ CopyOver(d)
  /\ copier' = [copier EXCEPT ![d] = "done"]
  /\ finSent' = [finSent EXCEPT ![d] = kind = "tunnel" /\ ~closed]
  /\ UNCHANGED <<kind, body, hpc, told, deadline, peerVars, ahead, taken, got,
                 closed, listener>>

\* Slips of Awaited: one of the two receives from done dropped; both waited for
\* where one copier runs.
AwaitedFirst == \E d \in Dirs : copier[d] = "done"
AwaitedBoth  == \A d \in Dirs : copier[d] = "done"

\* What the handler waits for before it closes both connections: both receives
\* of spliceCountedConns, the one of handleUpgrade (mitm.go line 279), the
\* response of handleHTTP (line 463).
Awaited ==
  CASE kind = "tunnel"  -> \A d \in Dirs : copier[d] = "done"
    [] kind = "upgrade" -> \E d \in Dirs : copier[d] = "done"
    [] OTHER            -> copier["down"] = "done"

Return ==
  /\ hpc = "splice" /\ Awaited /\ Leaves
  /\ UNCHANGED <<kind, body, told, deadline, peerVars, ahead, taken, got, copier,
                 finSent, listener>>

-----------------------------------------------------------------------------
(***************************************************************************)
(* An intercepted connection: Serve accepts from the oneConnListener until *)
(* an Accept fails; the connection has a goroutine of its own.             *)
(***************************************************************************)

\* Accept returns the connection once; the second call waits for done, and
\* its error ends Serve and InterceptHTTPS, whose deferred call closes the
\* listener.  http.Server sets deadlines of its own on what it accepts, which
\* replace handleConn's.
Accept ==
  /\ hpc = "accept" /\ (served => ldone)
  /\ served' = TRUE
  /\ IF served
       THEN Leaves /\ ldone' = TRUE /\ UNCHANGED deadline
       ELSE deadline' = "clear" /\ UNCHANGED <<hpc, closed, ldone>>
  /\ UNCHANGED <<kind, body, told, peerVars, ahead, taken, got, copier, finSent>>

\* http.Server is done with the connection, or it was idle for 120 s, and
\* closes it.
ServerCloses ==
  /\ hpc = "accept" /\ served /\ ~closed /\ closed' = TRUE
  /\ UNCHANGED <<kind, body, hpc, told, deadline, peerVars, ahead, taken, got, copier,
                 finSent, listener>>

-----------------------------------------------------------------------------
Environment ==
  \/ \E d \in Dirs : Send(d)
  \/ \E s \in Sides : Leave(s)
  \/ Expire

Handler ==
  \/ ReadRequest \/ NoRequest \/ DialFails \/ HandshakeFails
  \/ Reply \/ InterceptReply \/ ReplyFails \/ ForwardBody \/ Forwarded \/ ForwardFails
  \/ UpgradeForwarded \/ Return \/ Accept

Copying(d) == Read(d) \/ Write(d) \/ CopyEnds(d)

Next ==
  \/ Environment \/ Handler \/ Dialed \/ Handshake \/ ServerCloses
  \/ \E d \in Dirs : Copying(d)

Spec == Init /\ [][Next]_vars

Over == \A s \in Sides : peer[s] # "open"

\* The goroutines go on when they can: a dial ends after 10 s at the latest,
\* a peer takes what is written to it or is gone.  A TLS handshake has no
\* limit: it fails for sure only once its upstream has ended, and http.Server
\* notices that its client has.
SessionFairness ==
  /\ WF_vars(Handler /\ hpc # "handshake")
  /\ WF_vars(HandshakeFails /\ peer["upstream"] # "open")
  /\ WF_vars(ServerCloses /\ peer["client"] # "open")
  /\ \A d \in Dirs : WF_vars(Copying(d))

FairSpec == Spec /\ SessionFairness

-----------------------------------------------------------------------------
(***************************************************************************)
(* Properties.                                                             *)
(***************************************************************************)

\* Every variable has the values the code gives it.
TypeOK ==
  /\ kind \in Requests /\ body \in 0 .. MaxUnits
  /\ hpc \in {"request", "dial", "handshake", "reply", "forward", "splice", "accept", "done"}
  /\ told \in {"nothing", "refused", "established"}
  /\ deadline \in {"armed", "expired", "clear"}
  /\ peer \in [Sides -> {"open", "fin", "reset"}]
  /\ sent \in [Dirs -> 0 .. MaxUnits] /\ ahead \in 0 .. MaxUnits
  /\ taken \in [Dirs -> 0 .. MaxUnits]
  /\ got \in [Dirs -> Seq(1 .. MaxUnits)]
  /\ copier \in [Dirs -> {"off", "read", "write", "done"}]
  /\ finSent \in [Dirs -> BOOLEAN]
  /\ {closed, served, ldone} \subseteq BOOLEAN

\* Units that are never looked at: what br holds when a tunnel copies from
\* the socket.
Skipped(d) == IF d = "up" /\ kind = "tunnel" THEN ahead ELSE 0

\* What a peer receives is what the other sent: in order, nothing twice and
\* nothing missing in between; in an upgrade from the first byte on ("Drain
\* any bytes the client pipelined", mitm.go line 255).
InOrder ==
  \A d \in Dirs :
    /\ got[d] = [u \in 1 .. Len(got[d]) |-> Skipped(d) + u]
    /\ got[d] # <<>> => Skipped(d) + Len(got[d]) <= taken[d]

Complete(d) == peer[Source(d)] = "fin" /\ Skipped(d) + Len(got[d]) = sent[d]
Resets == \E s \in Sides : peer[s] = "reset"

\* A connection whose peers did not abort it is closed when all there is to
\* deliver is delivered: both directions of a tunnel, the response of a plain
\* request, one direction at least of an upgrade ("Returns when both
\* directions have finished", proxy.go line 478).
CleanEnd ==
  hpc = "done" /\ told = "established" /\ kind # "intercept" /\ ~Resets =>
    CASE kind = "tunnel"  -> \A d \in Dirs : Complete(d)
      [] kind = "upgrade" -> \E d \in Dirs : Complete(d)
      [] kind = "plain"   -> Complete("down") /\ Len(got["up"]) = body

\* Neither the 30 s of the request nor the other direction ends a tunnel: a
\* peer is told that no more comes only when the other has ended, or when
\* that peer itself is gone.
EndHasCause ==
  \A d \in Dirs :
    finSent[d] => peer[Source(d)] # "open" \/ peer[Sink(d)] = "reset"

\* When both peers have ended, the handler returns and both its copiers have
\* stopped, also the one that handleUpgrade does not wait for.
ConnectionEnds ==
  (kind # "intercept" /\ Over) ~>
    (hpc = "done" /\ \A d \in Dirs : copier[d] \in {"off", "done"})

\* The handler of an intercepted connection returns once the server is done
\* with it ("then blocks until Close() is called so http.Server stops its
\* accept loop", mitm.go line 378).
InterceptReturns == (kind = "intercept" /\ closed) ~> hpc = "done"

\* Not so: an upgrade delivers both directions before it closes (mitm.go
\* line 279 waits for one).
UpgradeComplete ==
  hpc = "done" /\ told = "established" /\ kind = "upgrade" /\ ~Resets =>
    \A d \in Dirs : Complete(d)

\* Not so: a tunnel loses nothing of what its client sends ahead of the reply
\* (proxy.go line 491 copies from the socket, past what br holds).
NothingSkipped == hpc = "splice" => Skipped("up") = 0

\* Not so: a peer that is told the end has received everything (proxy.go
\* line 493 half-closes after an error too).
TruthfulEnd ==
  \A d \in Dirs : finSent[d] /\ peer[Sink(d)] # "reset" => Complete(d)

\* Not so: an upload both of whose peers stay is forwarded to its end; after
\* 30 s it is dropped (proxy.go line 452).
UploadServed ==
  hpc = "done" /\ kind = "plain" /\ told = "nothing" /\ got["up"] # <<>> =>
    Resets \/ peer["client"] = "fin"

\* Not so: a client that leaves during an upgrade's handshake is noticed
\* (mitm.go line 234).
HandshakeEnds == (kind = "upgrade" /\ peer["client"] = "reset") ~> hpc = "done"
=============================================================================
