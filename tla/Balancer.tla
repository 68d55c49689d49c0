------------------------------ MODULE Balancer ------------------------------
(***************************************************************************)
(* The links and who chooses among them: Balancer (balancer.go),           *)
(* LinkScorer (scorer.go), and the goroutine that keeps their health,      *)
(* scanOnce (main.go, lines 321-353), against the adapters of the machine. *)
(*                                                                         *)
(* The methods of Balancer run under its mutex and are one step each, as   *)
(* action operators for the modules of the callers (Dial, Forward).        *)
(* scanOnce takes the mutex once per adapter and once per stale link, so   *)
(* it is a process of many steps, interleaved with everything else.        *)
(*                                                                         *)
(* A link is identified by its name.  A link that is not in b.links has    *)
(* healthy FALSE, which is also what SetHealthy leaves of it.              *)
(***************************************************************************)
EXTENDS RoundRobin, FiniteSets

CONSTANTS Links,       \* the adapters' names
          Hosts,       \* destination hosts of pinned requests
          Scored,      \* whether b.scorer is set (main.go sets it)
          ColdStart,   \* coldStartThreshold
          Latencies,   \* probe latencies
          LatencyUnit, \* what a latency is divided into for a score
          Rates,       \* throughputs of one connection
          Addresses,   \* IPv4 addresses of an adapter
          Flaky,       \* adapters whose probe may fail though they work
          MaxFlaps,    \* bound: changes of the adapters
          MaxUnits     \* bound: units a link receives

NoLink == "none"

ASSUME BalancerAssumption ==
  /\ NoLink \notin Links /\ IsFiniteSet(Links)
  /\ Scored \in BOOLEAN
  /\ ColdStart \in Nat \ {0} /\ LatencyUnit \in Nat
  /\ MaxFlaps \in Nat /\ MaxUnits \in Nat
  /\ Latencies \subseteq Nat /\ Latencies # {} /\ Addresses # {}
  /\ Rates \subseteq Nat
  /\ Flaky \subseteq Links

VARIABLES
  links,    \* b.links: the names, in the order the scan first met them
  healthy,  \* link -> Healthy
  localIP,  \* link -> LocalIP
  latency,  \* link -> ProbeLatency
  turn,     \* b.next
  pins,     \* host -> the link it is pinned to (b.hostPins)
  stats,    \* link -> its EWMA: samples (up to ColdStart), rate, fresh
  active,   \* link -> ActiveConns
  bytesIn,  \* link -> BytesIn
  scan,     \* where scanOnce is
  found,    \* adapters still to be probed, with the address listed
  seen,     \* seenUsable
  serving,  \* main is past its first scanOnce
  osUp,     \* adapter -> it is up and reaches the network
  osIP,     \* adapter -> its address now
  flaps     \* changes of osUp and osIP so far

pickVars == <<turn, active>>
linkVars == <<links, healthy, localIP, latency>>
scanVars == <<scan, found, seen, serving>>
osVars   == <<osUp, osIP, flaps>>
balVars  == <<linkVars, pickVars, pins, stats, bytesIn, scanVars, osVars>>

AnyOf(S)  == CHOOSE x \in S : TRUE
Unsampled == [samples |-> 0, rate |-> 0, fresh |-> FALSE]

BalancerInit ==
  /\ links = <<>>
  /\ healthy = [l \in Links |-> FALSE]
  /\ localIP = [l \in Links |-> AnyOf(Addresses)] /\ osIP = localIP
  /\ latency = [l \in Links |-> AnyOf(Latencies)]
  /\ turn = 0
  /\ pins = [h \in Hosts |-> NoLink]
  /\ stats = [l \in Links |-> Unsampled]
  /\ active = [l \in Links |-> 0] /\ bytesIn = [l \in Links |-> 0]
  /\ scan = "idle" /\ found = {} /\ seen = {}
  /\ serving = FALSE
  /\ osUp \in [Links -> BOOLEAN] /\ flaps = 0

-----------------------------------------------------------------------------
(***************************************************************************)
(* Choosing a link.                                                        *)
(***************************************************************************)
HealthySet == {l \in Links : healthy[l]}

\* A slip of Up: the health not looked at.
AnyUp == DOMAIN links

\* The healthy links, by their positions in b.links.
Up == {i \in DOMAIN links : healthy[links[i]]}

IsCold(l)  == stats[l].samples < ColdStart
IsStale(l) == stats[l].samples = 0 \/ ~stats[l].fresh

\* A score is a fraction <<numerator, denominator>>.  While a link is cold its
\* probe latency stands in, if it has one.
Score(l) ==
  IF IsCold(l) /\ latency[l] > 0 THEN <<LatencyUnit, latency[l]>>
  ELSE IF IsCold(l) /\ stats[l].samples = 0 THEN <<0, 1>>
  ELSE <<stats[l].rate, 1 + active[l]>>

Above(s, t) == s[1] * t[2] > t[1] * s[2]

\* The first link that no other scores above.
Leads(i) ==
  /\ \A j \in Up : ~Above(Score(links[j]), Score(links[i]))
  /\ \A j \in Up : j < i => Above(Score(links[i]), Score(links[j]))

\* Any stale link may be explored; otherwise the best score wins.
ByScore == {i \in Up : Leads(i) \/ IsStale(links[i])}

\* The loop passes over the links that are not healthy.  scanOnce gives every
\* link weight 1.
ByTurn ==
  LET Rank(i) == Cardinality({j \in Up : j <= i}) IN
  {i \in Up : Rank(i) = Slot([j \in 1 .. Cardinality(Up) |-> 1], turn)}

Choices == {links[i] : i \in IF Scored THEN ByScore ELSE ByTurn}

Use(l) == active' = [active EXCEPT ![l] = @ + 1]

\* A slip of NextTurn: `b.next++` left out.
SameTurn == turn

NextTurn == IF Scored THEN turn ELSE turn + 1

\* Pick returns l; no link may be chosen when none is healthy.
Pick(l) ==
  /\ l \in Choices
  /\ Use(l)
  /\ turn' = NextTurn

NothingToPick == Up = {}

Pinned(h) == pins[h] # NoLink /\ healthy[pins[h]]

\* A slip of PickForHost: the pin not looked at.
PickForHostAnew(h, l) == Pick(l) /\ pins' = [pins EXCEPT ![h] = l]

\* PickForHost returns l: the pin while its link is healthy, else a new pick
\* that becomes the pin.
PickForHost(h, l) ==
  IF Pinned(h)
  THEN l = pins[h] /\ Use(l) /\ UNCHANGED <<turn, pins>>
  ELSE Pick(l) /\ pins' = [pins EXCEPT ![h] = l]

\* PickForHost returns nil; the stale pin is gone.
PickForHostFails(h) ==
  /\ ~Pinned(h) /\ NothingToPick
  /\ pins' = [pins EXCEPT ![h] = NoLink]

\* copyWithCounter: a unit is written to a client and counted on its link.
Count(l) ==
  /\ bytesIn[l] < MaxUnits
  /\ bytesIn' = [bytesIn EXCEPT ![l] = @ + 1]

\* A caller gives the link back.
Release(l) == active' = [active EXCEPT ![l] = @ - 1]

Between(a, b) == IF a <= b THEN a .. b ELSE b .. a

\* RecordSample: the first sample is taken as it is, a later one moves the
\* average towards it.  Samples without bytes or longer than a minute are
\* dropped.
Sampled(st, bytes) ==
  {st} \cup
  IF bytes <= 0 THEN {} ELSE
    {[samples |-> IF st.samples < ColdStart THEN st.samples + 1 ELSE st.samples,
      rate |-> r, fresh |-> TRUE] :
       r \in UNION {IF st.samples = 0 THEN {bps} ELSE Between(st.rate, bps) : bps \in Rates}}

RecordSample(l, bytes) ==
  \E st \in Sampled(stats[l], bytes) : stats' = [stats EXCEPT ![l] = st]

\* staleThreshold passes without a sample.
TurnStale(l) ==
  /\ stats[l].fresh
  /\ stats' = [stats EXCEPT ![l].fresh = FALSE]
  /\ UNCHANGED <<linkVars, pickVars, pins, bytesIn, scanVars, osVars>>

-----------------------------------------------------------------------------
(***************************************************************************)
(* scanOnce, and the machine under it.                                     *)
(***************************************************************************)
scanFrame == <<pickVars, pins, stats, bytesIn, osVars>>

\* EnumerateAdapters lists the adapters that are up, with their address.
Enumerate ==
  /\ scan = "idle" /\ scan' = "probing"
  /\ found' = {<<a, osIP[a]>> : a \in {b \in Links : osUp[b]}}
  /\ UNCHANGED <<linkVars, seen, serving, scanFrame>>

\* EnumerateAdapters fails: scanOnce returns at once.  After the first scan,
\* which runs before the proxy listens, this changes nothing.
EnumerateFails ==
  /\ scan = "idle" /\ ~serving
  /\ serving' = TRUE
  /\ UNCHANGED <<linkVars, scan, found, seen, scanFrame>>

\* The adapter answers from the address listed.
Works(a, addr) == osUp[a] /\ osIP[a] = addr

\* A slip of WithLink: no look for the name.
AppendedLink(a) == Append(links, a)

WithLink(a) == IF \E i \in DOMAIN links : links[i] = a THEN links ELSE Append(links, a)

\* Upsert.
ProbeOK(p) ==
  /\ p \in found /\ Works(p[1], p[2])
  /\ found' = found \ {p} /\ seen' = seen \cup {p[1]}
  /\ links' = WithLink(p[1])
  /\ healthy' = [healthy EXCEPT ![p[1]] = TRUE]
  /\ localIP' = [localIP EXCEPT ![p[1]] = p[2]]
  /\ \E t \in Latencies : latency' = [latency EXCEPT ![p[1]] = t]
  /\ UNCHANGED <<scan, serving, scanFrame>>

ProbeFails(p) ==
  /\ p \in found /\ (p[1] \in Flaky \/ ~Works(p[1], p[2]))
  /\ found' = found \ {p}
  /\ healthy' = [healthy EXCEPT ![p[1]] = FALSE]
  /\ UNCHANGED <<links, localIP, latency, scan, seen, serving, scanFrame>>

\* A slip of Unseen: the loop over SnapshotView left out.
NoneUnseen == {}

\* Links still marked healthy that this scan did not find usable.
Unseen == {l \in Links : healthy[l] /\ l \notin seen}

MarkGone(l) ==
  /\ scan = "probing" /\ found = {} /\ l \in Unseen
  /\ healthy' = [healthy EXCEPT ![l] = FALSE]
  /\ UNCHANGED <<links, localIP, latency, scanVars, scanFrame>>

ScanEnds ==
  /\ scan = "probing" /\ found = {} /\ Unseen = {}
  /\ scan' = "idle" /\ serving' = TRUE
  /\ seen' = {}
  /\ UNCHANGED <<linkVars, found, scanFrame>>

\* An adapter goes down or comes back, or gets another address.
Flap(a) ==
  /\ flaps < MaxFlaps /\ flaps' = flaps + 1
  /\ \/ osUp' = [osUp EXCEPT ![a] = ~@] /\ UNCHANGED osIP
     \/ \E addr \in Addresses \ {osIP[a]} :
          osIP' = [osIP EXCEPT ![a] = addr] /\ UNCHANGED osUp
  /\ UNCHANGED <<linkVars, pickVars, pins, stats, bytesIn, scanVars>>

Probe == \E p \in found : ProbeOK(p) \/ ProbeFails(p)

Scanner == Enumerate \/ EnumerateFails \/ Probe \/ ScanEnds
           \/ \E l \in Links : MarkGone(l)

BalancerNext == Scanner \/ \E l \in Links : TurnStale(l) \/ Flap(l)
=============================================================================
