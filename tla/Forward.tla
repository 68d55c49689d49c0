------------------------------- MODULE Forward -------------------------------
(***************************************************************************)
(* One request of an intercepted connection (mitm.go): forwardOrSplit with *)
(* its host pin, its one retry after a bind error, its fallback for        *)
(* upstream TLS errors and the hand-over to the range split; and           *)
(* handleUpgrade.                                                          *)
(*                                                                         *)
(* Kinds of request: a "get" (no body after dropBodyForBodylessMethods), a *)
(* "post" without a body, an "upload" (ContentLength is not 0, or unknown) *)
(* and an "upgrade".                                                       *)
(***************************************************************************)
EXTENDS Balancer

CONSTANTS Reqs,         \* requests
          Kinds,        \* kinds of request that arrive
          Failing,      \* links over which a round trip may fail
          BadCerts      \* whether an upstream may fail TLS verification

ASSUME ForwardAssumption ==
  /\ IsFiniteSet(Reqs)
  /\ Kinds \subseteq {"get", "post", "upload", "upgrade"}
  /\ Failing \subseteq Links
  /\ BadCerts \in BOOLEAN

VARIABLES
  rpc,      \* request -> where its handler is
  kind,     \* request -> its kind
  host,     \* request -> its destination host
  rlink,    \* request -> link
  freed,    \* request -> linkReleased
  reached,  \* request -> times the upstream received it (history)
  outcome   \* request -> how it ended

fwdVars == <<rpc, kind, host, rlink, freed, reached, outcome>>
fwdFrame == <<linkVars, stats, bytesIn, scanVars, osVars>>

ForwardInit ==
  /\ rpc = [r \in Reqs |-> "new"]
  /\ kind = [r \in Reqs |-> "get"]
  /\ host \in [Reqs -> Hosts]
  /\ rlink = [r \in Reqs |-> NoLink]
  /\ freed = [r \in Reqs |-> FALSE]
  /\ reached = [r \in Reqs |-> 0]
  /\ outcome = [r \in Reqs |-> "none"]

\* Round trips, in the order they are tried: over the picked link, again
\* after a bind error, again without verifying the certificate.
Sending == {"first", "second", "insecure"}

\* Where a request has its link in use.
Holding == Sending \cup {"inspecting", "unwanted", "streaming", "upgrading", "spliced"}

At(r, where)  == rpc' = [rpc EXCEPT ![r] = where]
Ends(r, how)  == At(r, "done") /\ outcome' = [outcome EXCEPT ![r] = how]
Reach(l)      == Works(l, localIP[l])
Bodyless(r)   == kind[r] # "upload"

\* How a round trip can fail: the dial finds the source address gone, the
\* handshake fails verification, or anything else.  Only in the last case may
\* the upstream have received the request.
Errors == {"bind", "cert", "other"}

\* A slip of BindRetry: the error not looked at.
BindRetryOnAny(r, e) == rpc[r] = "first" /\ Bodyless(r)

\* Which error sends the request again, over another pick or unverified.
BindRetry(r, e)     == rpc[r] = "first" /\ e = "bind" /\ Bodyless(r)
InsecureRetry(r, e) == rpc[r] \in {"first", "second"} /\ e = "cert" /\ Bodyless(r)

\* releaseLink, which every exit of the handler calls.
ReleaseLink(r) ==
  /\ active' = IF freed[r] THEN active ELSE [active EXCEPT ![rlink[r]] = @ - 1]
  /\ freed' = [freed EXCEPT ![r] = TRUE]

Received(r) == reached' = [reached EXCEPT ![r] = @ + 1]

Arrive(r) ==
  /\ rpc[r] = "new" /\ serving
  /\ \E k \in Kinds : kind' = [kind EXCEPT ![r] = k]
  /\ At(r, "picking")
  /\ UNCHANGED <<host, rlink, freed, reached, outcome, pickVars, pins, fwdFrame>>

PickLink(r) ==
  /\ rpc[r] = "picking"
  /\ At(r, IF kind[r] = "upgrade" THEN "upgrading" ELSE "first")
  /\ \E l \in Links : PickForHost(host[r], l) /\ rlink' = [rlink EXCEPT ![r] = l]
  /\ UNCHANGED <<kind, host, freed, reached, outcome, fwdFrame>>

NoLinkToPick(r) ==
  /\ rpc[r] = "picking" /\ PickForHostFails(host[r])
  /\ Ends(r, "no links")
  /\ UNCHANGED <<kind, host, rlink, freed, reached, pickVars, fwdFrame>>

\* The upstream answers.
RoundTripOK(r) ==
  /\ rpc[r] \in Sending /\ Reach(rlink[r])
  /\ At(r, "inspecting") /\ Received(r)
  /\ UNCHANGED <<kind, host, rlink, freed, outcome, pickVars, pins, fwdFrame>>

Fails(r, e) ==
  /\ rpc[r] \in Sending
  /\ CASE e = "bind"  -> ~Reach(rlink[r]) /\ UNCHANGED reached
       [] e = "cert"  -> BadCerts /\ rpc[r] # "insecure" /\ Reach(rlink[r]) /\ UNCHANGED reached
       [] e = "other" -> /\ rlink[r] \in Failing \/ ~Reach(rlink[r])
                         /\ Received(r) \/ UNCHANGED reached

\* The link is given back for another pick.
BindFails(r) ==
  /\ \E e \in Errors : Fails(r, e) /\ BindRetry(r, e)
  /\ At(r, "repicking") /\ ReleaseLink(r)
  /\ UNCHANGED <<kind, host, rlink, outcome, turn, pins, fwdFrame>>

\* A slip of Taken: linkReleased left set.
TakenUnflagged(r, l) == rlink' = [rlink EXCEPT ![r] = l] /\ UNCHANGED freed

\* link = next; linkReleased = false.
Taken(r, l) == rlink' = [rlink EXCEPT ![r] = l] /\ freed' = [freed EXCEPT ![r] = FALSE]

Repick(r) ==
  /\ rpc[r] = "repicking" /\ At(r, "second")
  /\ \E l \in Links : Pick(l) /\ Taken(r, l)
  /\ UNCHANGED <<kind, host, reached, outcome, pins, fwdFrame>>

\* No link for the retry: the bind error is reported, the link is free.
RepickFails(r) ==
  /\ rpc[r] = "repicking" /\ NothingToPick
  /\ Ends(r, "bad gateway") /\ ReleaseLink(r)
  /\ UNCHANGED <<kind, host, rlink, reached, turn, pins, fwdFrame>>

\* The same link, without verification.
BadCertificate(r) ==
  /\ \E e \in Errors : Fails(r, e) /\ InsecureRetry(r, e)
  /\ At(r, "insecure")
  /\ UNCHANGED <<kind, host, rlink, freed, outcome, pickVars, pins, fwdFrame>>

\* The error is the answer.
RoundTripFails(r) ==
  /\ \E e \in Errors : Fails(r, e) /\ ~BindRetry(r, e) /\ ~InsecureRetry(r, e)
  /\ Ends(r, "bad gateway") /\ ReleaseLink(r)
  /\ UNCHANGED <<kind, host, rlink, turn, pins, fwdFrame>>

-----------------------------------------------------------------------------
(***************************************************************************)
(* What is done with the answer.                                           *)
(***************************************************************************)

\* shouldSplit: the headers decide, and so does a look at the balancer.
EnoughLinks == Cardinality(HealthySet) >= 2

InspectSplit(r) ==
  /\ rpc[r] = "inspecting" /\ kind[r] = "get" /\ EnoughLinks
  /\ At(r, "unwanted")
  /\ UNCHANGED <<kind, host, rlink, freed, reached, outcome, pickVars, pins, fwdFrame>>

InspectStream(r) ==
  /\ rpc[r] = "inspecting" /\ At(r, "streaming")
  /\ UNCHANGED <<kind, host, rlink, freed, reached, outcome, pickVars, pins, fwdFrame>>

\* The body is closed and the link released before the split.
LetGo(r) ==
  /\ rpc[r] = "unwanted" /\ At(r, "splitting") /\ ReleaseLink(r)
  /\ UNCHANGED <<kind, host, rlink, reached, outcome, turn, pins, fwdFrame>>

\* splitAcrossLinks takes a snapshot of its own (RangeSplit models the rest).
\* An empty one panics at healthy[0]; net/http recovers and drops the client.
EnterSplit(r) ==
  /\ rpc[r] = "splitting"
  /\ Ends(r, IF HealthySet = {} THEN "panic" ELSE "split") /\ ReleaseLink(r)
  /\ UNCHANGED <<kind, host, rlink, reached, turn, pins, fwdFrame>>

StreamCopy(r) ==
  /\ rpc[r] \in {"streaming", "spliced"} /\ Count(rlink[r])
  /\ UNCHANGED <<fwdVars, linkVars, pickVars, pins, stats, scanVars, osVars>>

\* The body ends, or either side of it fails.
StreamEnds(r) ==
  /\ rpc[r] = "streaming" /\ Ends(r, "streamed") /\ ReleaseLink(r)
  /\ UNCHANGED <<kind, host, rlink, reached, turn, pins, fwdFrame>>

\* handleUpgrade: one dial over the pinned link, then TLS.
UpgradeOK(r) ==
  /\ rpc[r] = "upgrading" /\ Reach(rlink[r])
  /\ At(r, "spliced") /\ Received(r)
  /\ UNCHANGED <<kind, host, rlink, freed, outcome, pickVars, pins, fwdFrame>>

UpgradeFails(r) ==
  /\ rpc[r] = "upgrading" /\ (~Reach(rlink[r]) \/ rlink[r] \in Failing \/ BadCerts)
  /\ Ends(r, "bad gateway") /\ ReleaseLink(r)
  /\ UNCHANGED <<kind, host, rlink, reached, turn, pins, fwdFrame>>

\* Either direction of the splice ends.
SpliceEnds(r) ==
  /\ rpc[r] = "spliced" /\ Ends(r, "streamed") /\ ReleaseLink(r)
  /\ UNCHANGED <<kind, host, rlink, reached, turn, pins, fwdFrame>>

\* What happens to a request until its client has an answer.
Respond(r) ==
  \/ Arrive(r) \/ PickLink(r) \/ NoLinkToPick(r)
  \/ RoundTripOK(r) \/ BindFails(r) \/ Repick(r) \/ RepickFails(r)
  \/ BadCertificate(r) \/ RoundTripFails(r)
  \/ InspectSplit(r) \/ InspectStream(r) \/ LetGo(r) \/ EnterSplit(r)
  \/ UpgradeOK(r) \/ UpgradeFails(r)

Request(r) == Respond(r) \/ StreamCopy(r) \/ StreamEnds(r) \/ SpliceEnds(r)
=============================================================================
