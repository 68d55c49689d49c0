-------------------------------- MODULE Proxy --------------------------------
(***************************************************************************)
(* The proxy as a whole: tunnelled connections (Dial) and intercepted      *)
(* requests (Forward) share the links of one Balancer, whose health a      *)
(* background scan keeps up to date while the adapters change.             *)
(***************************************************************************)
EXTENDS Dial, Forward

vars == <<balVars, dialVars, fwdVars>>

Init == BalancerInit /\ DialInit /\ ForwardInit

Next ==
  \/ BalancerNext /\ UNCHANGED <<dialVars, fwdVars>>
  \/ \E c \in Conns : Connection(c) /\ UNCHANGED fwdVars
  \/ \E r \in Reqs : Request(r) /\ UNCHANGED dialVars

Spec == Init /\ [][Next]_vars

\* Waits without a timeout: the TLS handshake of an upgrade (mitm.go, line 234),
\* and a round trip whose body is still being sent.
Unbounded(r) == rpc[r] = "upgrading" \/ (kind[r] = "upload" /\ rpc[r] \in Sending)

\* What the scheduler and the timeouts of dials, round trips and probes
\* guarantee: every step but the unbounded waits, the time that makes samples
\* stale, the changes of the adapters, and the peers' ending of a stream.
Fairness ==
  /\ WF_vars(Scanner /\ UNCHANGED <<dialVars, fwdVars>>)
  /\ \A c \in Conns :
       /\ WF_vars(Answer(c) /\ UNCHANGED fwdVars)
       /\ WF_vars(Sample(c) /\ UNCHANGED fwdVars)
  /\ \A r \in Reqs : WF_vars(~Unbounded(r) /\ Respond(r) /\ UNCHANGED dialVars)

FairSpec == Spec /\ Fairness

-----------------------------------------------------------------------------
(***************************************************************************)
(* Safety.                                                                 *)
(***************************************************************************)
TypeOK ==
  /\ links \in Seq(Links)
  /\ \A i, j \in DOMAIN links : links[i] = links[j] => i = j
  /\ healthy \in [Links -> BOOLEAN]
  /\ \A l \in Links : healthy[l] => \E i \in DOMAIN links : links[i] = l
  /\ localIP \in [Links -> Addresses] /\ latency \in [Links -> Latencies]
  /\ turn \in Nat /\ active \in [Links -> Nat] /\ bytesIn \in [Links -> 0 .. MaxUnits]
  /\ pins \in [Hosts -> Links \cup {NoLink}]
  /\ \A l \in Links : /\ stats[l].samples \in 0 .. ColdStart
                      /\ stats[l].fresh \in BOOLEAN /\ stats[l].rate \in Nat
  /\ scan \in {"idle", "probing"} /\ serving \in BOOLEAN
  /\ found \subseteq Links \X Addresses /\ seen \subseteq Links
  /\ osUp \in [Links -> BOOLEAN] /\ osIP \in [Links -> Addresses] /\ flaps \in 0 .. MaxFlaps
  /\ cpc \in [Conns -> Using \cup {"new", "bypass", "choosing", "closing", "done"}]
  /\ clink \in [Conns -> Links \cup {NoLink}]
  /\ failed \in [Conns -> 0 .. MaxDials]
  /\ reply \in [Conns -> {"none", "success", "no links", "dial failed"}]
  /\ start \in [Conns -> Nat] /\ moved \in [Conns -> Nat]
  /\ rpc \in [Reqs -> Holding \cup {"new", "picking", "repicking", "splitting", "done"}]
  /\ kind \in [Reqs -> {"get", "post", "upload", "upgrade"}] /\ host \in [Reqs -> Hosts]
  /\ rlink \in [Reqs -> Links \cup {NoLink}] /\ freed \in [Reqs -> BOOLEAN]
  /\ reached \in [Reqs -> Nat]
  /\ outcome \in [Reqs -> {"none", "no links", "bad gateway", "panic", "split", "streamed"}]

\* Who has a link in use.
ConnsOn(l) == {c \in Conns : cpc[c] \in Using /\ clink[c] = l}
ReqsOn(l)  == {r \in Reqs : rpc[r] \in Holding /\ rlink[r] = l}

\* ActiveConns of a link is the number of connections and requests that have
\* it in use: "Caller MUST decrement ActiveConns when the connection ends"
\* (balancer.go, line 150), on every error path, retry and hand-over.
ActiveIsInUse ==
  \A l \in Links : active[l] = Cardinality(ConnsOn(l)) + Cardinality(ReqsOn(l))

\* An upstream receives a request at most once (before the range split fetches
\* a GET again): retries happen "before any request bytes are written" (mitm.go,
\* lines 137-138).
SentOnce == \A r \in Reqs : reached[r] <= 1

\* The client is told that no link was healthy only if no dial was made for
\* it: after a failed dial the answer is its error (dialLink's firstErr).
AnswerNamesCause == \A c \in Conns : reply[c] = "no links" => failed[c] = 0

-----------------------------------------------------------------------------
(***************************************************************************)
(* Action properties.                                                      *)
(***************************************************************************)

\* "Pin survives until the pinned link goes unhealthy" (balancer.go, lines
\* 52-53): it is neither dropped nor changed while its link is healthy, and a
\* request for the host is then sent over it.
PinHolds ==
  [][/\ \A h \in Hosts : Pinned(h) => pins'[h] = pins[h]
     /\ \A r \in Reqs : Pinned(host[r]) /\ rpc[r] = "picking" /\ rpc'[r] # "picking"
                          => rlink'[r] = pins[host[r]]]_vars

-----------------------------------------------------------------------------
(***************************************************************************)
(* The promise to the callers.  A connection asks while chooseDialer is    *)
(* due, a request while PickForHost is, or Pick for its retry.             *)
(***************************************************************************)
Callers == ({"connection"} \X Conns) \cup ({"request"} \X Reqs)

ConnAsks(c) == IF cpc[c] = "choosing" THEN "anywhere" ELSE "nothing"
ConnLent(c) == IF cpc[c] \in Using THEN clink[c] ELSE NoLink

ReqAsks(r) ==
  IF rpc[r] = "picking" THEN host[r]
  ELSE IF rpc[r] = "repicking" THEN "anywhere" ELSE "nothing"
ReqLent(r) == IF rpc[r] \in Holding THEN rlink[r] ELSE NoLink

Asks == [u \in Callers |-> IF u[1] = "request" THEN ReqAsks(u[2]) ELSE ConnAsks(u[2])]
Lent == [u \in Callers |-> IF u[1] = "request" THEN ReqLent(u[2]) ELSE ConnLent(u[2])]

Pool == INSTANCE LinkPool WITH
  Nothing <- "nothing", Anywhere <- "anywhere", asks <- Asks, lent <- Lent

\* Whatever connections and requests share the links while their health
\* changes, each is lent a link that is healthy at that moment, its pin's if
\* that one is, and is turned away only when none is ("Pick returns a healthy
\* link, or nil if none exist", balancer.go, line 147).
LendsLinks == Pool!Spec

-----------------------------------------------------------------------------
(***************************************************************************)
(* Liveness.                                                               *)
(***************************************************************************)

\* Whatever the adapters do, every client is answered, unless its upstream is
\* silent in a wait that no timeout covers.
EveryClientAnswered ==
  /\ \A c \in Conns : <>(reply[c] # "none")
  /\ \A r \in Reqs : <>(outcome[r] # "none" \/ rpc[r] \in {"streaming", "spliced"} \/ Unbounded(r))

\* Once the adapters stay as they are, the balancer's view of them becomes
\* right and stays right: exactly the working links are healthy, under the
\* addresses they have.
ViewSettles ==
  <>[](\A l \in Links : /\ healthy[l] <=> osUp[l]
                        /\ healthy[l] => localIP[l] = osIP[l])

-----------------------------------------------------------------------------
(***************************************************************************)
(* What the comments say and the code does not do.                         *)
(***************************************************************************)

\* "attempt #2 naturally rotates to a different healthy link when one exists"
\* (proxy.go, lines 221-222).
RetryRotates ==
  [][\A c \in Conns :
       cpc[c] = "choosing" /\ failed[c] > 0 /\ cpc'[c] = "dialing"
         => clink'[c] # clink[c] \/ HealthySet \subseteq {clink[c]}]_vars

\* "Retry once on a different link if the dial failed with a bind error"
\* (mitm.go, lines 136-137).
BindRetryRotates ==
  [][\A r \in Reqs :
       rpc[r] = "repicking" /\ rpc'[r] = "second"
         => rlink'[r] # rlink[r] \/ HealthySet \subseteq {rlink[r]}]_vars

\* RecordSample is fed "a completed request's throughput" (scorer.go, line 33):
\* the bytes of that connection.
SampleIsOwn == \A c \in Conns : cpc[c] = "closing" => SampleOf(c) = moved[c]

\* The split runs when "the Balancer has >= 2 healthy links" (rangesplit.go,
\* line 60).
SplitHasLinks == \A r \in Reqs : outcome[r] # "panic"

\* Picking "falls back to weighted round-robin when all links lack data"
\* (ARCHITECTURE.md, line 116): it then advances the turn.
ColdPicksRotate ==
  [][\A c \in Conns :
       /\ cpc[c] = "choosing" /\ cpc'[c] = "dialing"
       /\ \A l \in HealthySet : IsCold(l)
         => turn' = turn + 1]_vars
=============================================================================
