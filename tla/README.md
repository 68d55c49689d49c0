# Mergenet: a verification project

Mergenet is a local SOCKS5/HTTP proxy that spreads connections over all healthy
network interfaces ("links") of a machine. HTTPS connections can be intercepted;
large downloads inside them are then fetched over all links at once, in chunks,
with HTTP range requests. This directory holds TLA+ models of its core, TLC
configurations that check them on small instances, and proofs that TLAPS checks
for every instance.

1. [The system](#1-the-system) — inventory
2. [Modules](#2-modules-and-the-code) — which module models what
3. [Range split](#3-range-split), 4. [Balancer, scan, Dial, Forward](#4-balancer-scan-dial-forward),
   5. [Session](#5-session), 6. [Program, log, certificates, caches](#6-program-log-certificates-caches) — state, actions, abstractions
7. [Runs](#7-runs) — what each shows, bounds, fairness
8. [Disagreements](#8-where-the-code-and-its-comments-disagree) between code and comments
9. [Proofs](#9-proofs)
10. [What is not modelled](#10-what-is-not-modelled), 11. [Plan](#11-plan)

`PROJECT.json` lists the components, the runs, the source lines of every
definition (`map`), the hazards of the code with the properties that cover them,
and a mutated definition for every property that the property must reject.

## 1. The system

| Component (source) | State | Operations | Interacts with | Hard behaviour | Correct means |
|---|---|---|---|---|---|
| Range split (`rangesplit.go`) | chunk spools (temp files), work queue, request context | `shouldSplit`, `probeTotalSize`, `splitAcrossLinks`, workers, `fetchChunk`/`fetchChunkOnce`, `chunkBuf.push/finish/drainTo/close` | called by Forward; reads the healthy links; raises `ActiveConns` per attempt | up to 4 workers per link and one drain on shared spools; failed, short and overlong answers; retries that resume; a client that leaves; disk errors | the client gets the bytes of its range in order, once; a download that ends without an error is complete; every spool, worker and count is given back |
| Balancer (`balancer.go`) | links, `b.next`, host pins, `ActiveConns` | `Upsert`, `SetHealthy`, `HealthyLinks`, `Pick`, `PickForHost` | every path that opens a connection | concurrent picks while health changes | counts match use; pins hold while healthy; weighted turns are fair |
| Scorer (`scorer.go`) | EWMA per link | `RecordSample`, `Score`, `IsStale` | samples from `LinkConn.Close`; read by `Pick` | samples from shared counters; cold and stale links | a sample is the connection's own throughput |
| Adapter scan (`interfaces.go`, `scanOnce` in `main.go`) | the set of usable adapters of one scan | enumerate, probe each, mark the unseen down | updates the balancer adapter by adapter | adapters change between listing, probing and marking | the balancer's view becomes right once the adapters rest |
| Dial layer (`proxy.go`) | a `LinkConn` per connection | `chooseDialer`, `dialLink`, `LinkConn.Close` | Balancer, Scorer | a dial that fails after the pick; a second attempt | the link is given back on every path; the answer names the cause |
| Proxy front end (`proxy.go`) | one goroutine per client, two per splice | `ServeSOCKS5`, `handleSOCKS5`, `handleHTTP`, `handleMITM`, `spliceCountedConns` | Dial layer; interception | half-close, pipelined bytes, transient Accept errors | both directions are carried to their end |
| MITM forward and upgrade (`mitm.go`, `errors_net.go`) | a link and its release flag per request | `forwardOrSplit`, `handleUpgrade` | `PickForHost`, transports, range split | bind retry, TLS fallback, hand-over to the split | the link is given back exactly once; no request is sent twice |
| Interception server (`mitm.go`) | `oneConnListener`: `served`, `done` | `InterceptHTTPS`, `Accept`, `Close` | net/http server | shutdown: who ends the server | the goroutine ends with its connection |
| Leaf certificates (`mint.go`), link transports (`link_net.go`) | two caches under an RWMutex each | `Minter.Get`, `Link.Transport`, `Link.NewDialer` | interception, forward, split | double-checked creation; `LocalIP` read without the mutex | one value per key |
| CA store (`ca.go`, `ca_*.go`, start-up in `main.go`) | two files per account, the system's trust store | `LoadOrCreateCA`, `InstallCA`, `isCAInstalled`, `DoSetupOnly`, `ElevateForSetup` | start-up; the minter | a write that is cut off; two starts at once; a child under another account | the CA in use is whole, and the system trusts it |
| Log sink (`log_sink.go`) | `enabled`, `buf`, the file | `Write`, `Toggle`, `Flush`, `RunFlusher` | log package, key loop, `main` | two goroutines flush; toggling against writing; a failed open; the end of the program | no line lost or stored twice |
| Recent connections (`stats.go`) | ring buffer | `Add`, `Snapshot` | handlers; display | wrap-around | the last ones, oldest first |
| Control (`mitm_control.go`), start and end of `main` | a flag; `done` | toggles, `runKeypressLoop`, signal, `RunTUI` returning | log sink, listener | the order in which `main` stops things that still run | the program ends on a signal, and its log is flushed |
| UI (`tui.go`), platform (`console_*.go`, the rest of `ca_*.go`) | — | printing, console modes, system tools | all | little | — |

Interactions run through two shared structures: the `Balancer` (mutex for the
list and the pins, atomics for the counters of a link) and, inside one download,
the spools (a mutex and a condition variable each), the queue (a closed channel)
and the request's context. Between starts of the program they run through the
file system and the trust store.

## 2. Modules and the code

| Module | Models | Role |
|---|---|---|
| `SplitPlan` | `computeChunks` and the loop over `starts`/`ends` | pure operators |
| `SplitDecision` | `shouldSplit`, `parseContentRange` | pure operators, EXTENDS SplitPlan |
| `RangeSplit` | `splitAcrossLinks`, the workers, `fetchChunk`, `fetchChunkOnce`, `chunkBuf` | one download, EXTENDS SplitPlan |
| `Download` | — | what a download promises; `RangeSplit` implements it |
| `RangeSplitInv` | — | the inductive invariant of the proofs |
| `RoundRobin` | `pickRoundRobin` | pure operators |
| `Balancer` | `Balancer`, `LinkScorer`, `scanOnce`, the adapters | EXTENDS RoundRobin |
| `Dial` | `handleSOCKS5`/`handleHTTP` around `dialLink`, `LinkConn` | EXTENDS Balancer |
| `Forward` | `forwardOrSplit`, `handleUpgrade` | EXTENDS Balancer |
| `Proxy` | Dial, Forward and the scan on one Balancer | composition and properties |
| `LinkPool` | — | what the balancer promises its callers; `Proxy` implements it |
| `Session` | `handleConn` and all below it for one connection: `handleSOCKS5`, `handleHTTP`, `spliceCountedConns`, `copyWithCounter`, `InterceptHTTPS`, `oneConnListener`, `handleUpgrade` | one connection's bytes and end |
| `LogSink` | `LogSink` | the sink and its flushers |
| `Program` | `main` from the listener on, `runKeypressLoop`, `ServeSOCKS5`, `RunTUI` | EXTENDS LogSink |
| `CAStore` | `LoadOrCreateCA`, `InstallCA`, `isCAInstalled`, `DoSetupOnly`, the CA part of `main` | the CA from start to start |
| `LazyCache` | `Minter.Get`, `Link.Transport` | one cache |
| `RecentConns` | `RecentConns` | the ring |
| `LastRecords` | — | a bounded history; `RecentConns` implements it |
| `MCAlgorithms`, `MCRangeSplit`, `MCProxy`, `MCServe`, `MCStart` | — | constants for TLC; the first also drives the pure operators and the ring, the last two put two independent modules side by side |
| `SplitPlanProofs`, `RangeSplitProofs`, `DownloadProofs`, `ProxyProofs`, `SessionProofs`, `ProgramProofs`, `StartProofs`, `AlgorithmsProofs` | — | theorems |

`MCServe` is a connection (`Session`) or a program (`Program`), `MCStart` the CA
(`CAStore`) or a cache (`LazyCache`): a behaviour is of one of the two and the
other is over from its first state, so the state spaces add up and do not
multiply. They share no state in the code either.

Operators introduced by a comment that calls them a slip are wrong variants of
the definition that follows. Nothing uses them in the specification; `PROJECT.json`
names them as the mutants the properties are tested with.

## 3. Range split

A unit of data stands for a run of bytes; its value is its offset in the file.
The handler's position is `hpc`, a worker's is `wpc[w]`. The source's variables
keep their names (`next` is the queue: the chunks are put into it before any
worker runs, so its content is `next .. n-1`).

| Code | Actions |
|---|---|
| snapshot of the healthy links, `healthy[0]` | `Snapshot` |
| `probeTotalSize` and lines 262-273 | `ProbeAgrees`, `ProbeDiffers` |
| `newChunkBuf`, start of the workers | `CreateSpool`, `CreateSpoolFails`, `StartWorkers` |
| `drainTo` and the loop around it | `DrainWake`, `DrainWrite`, `DrainWriteFails`, `DrainReadFails`, `DrainMore`, `DrainNext`, `DrainFails` |
| deferred `close()` and `cancel()` | `CloseSpool`, `Return` |
| a worker's loop | `Claim`, `QueueEmpty`, `Abandon`, `EnterFetch` |
| `fetchChunk` | `BeginAttempt`, `GiveUp`, and `AttemptFails` inside every failure |
| `fetchChunkOnce` | `Refused`, `Accepted`, `ReadSlice`, `ReadAll`, `ReadFails` |
| `push` | `Push`, `PushToClosed`, `PushFails` |
| net/http cancels the request's context | `ClientLeaves` |

Each stretch of code between two points where another goroutine can change what
it reads is one step. In particular the three fields `drainTo` reads under the
mutex are one step (`snap`), and the writes it then makes without the mutex are
others, so a push, a finish or a close may come between.

Abstractions. Headers and the two 206 checks are the choice between `Accepted`
and `Refused`. `BytesIn` and the log lines are left out. A `Write` past the
declared Content-Length is refused as net/http does (`Fits`). How much of a write
a client that has left still took is not observed by anyone and left out. The
total an answer names is compared with the chunk's end if it is named at all
(lines 713-717); that, too, is part of the choice, so an answer from past the end
of the file may be `Accepted`, as the code accepts it. The branch of
`drainTo` for a spool that was closed under it cannot be reached: only the
draining goroutine closes spools, after its last drain. What `shouldSplit` may
return is a constant of `RangeSplit` (`IsDecision`): a start not after the end,
and a total which the end may exceed, since nothing compares them; one of the
checked decisions does. The locals of `fetchChunk` are kept per chunk,
which is sound because `OneFetcherPerChunk` holds.

`SplitDecision` is the function that decides. An answer is a record of what it
looks at: numbers, and headers as its tests class them. Numbers are int64, with
the wrap-around of line 93, over a range that TLC takes small and the proof takes
as it is. `DecisionIsSound` and `SplitsAreDecisions` say that what it lets pass is
an `IsDecision`. `clientSentRange`, which only chooses between 200 and 206 for
the reply, is left out.

## 4. Balancer, scan, Dial, Forward

Methods of `Balancer` hold its mutex from start to end, so each is one step; as
they are called in the middle of a caller's handler they are action operators
(`Pick`, `PickForHost`, `Release`) that the actions of `Dial` and `Forward` use.
The scorer is read inside `Pick` under locks of its own; the model reads all
scores at one instant. `scanOnce` takes the mutex once per adapter, so it is a
process: `Enumerate`, then `ProbeOK` or `ProbeFails` per adapter in any order,
then `MarkGone` per link it did not see, then `ScanEnds`. The machine under it
changes at any moment (`Flap`): an adapter goes down, comes back, or gets
another address. A dial works only if the address the balancer remembers is
still the adapter's.

| Code | Actions |
|---|---|
| `handleSOCKS5`/`handleHTTP` up to the dial; the private-target bypass | `ReadTarget`, `Bypass` |
| `dialLink`: pick, dial, release, second attempt | `Choose`, `ChooseNone`, `DialOK`, `DialFails` |
| the copying, `LinkConn.Close` in its two steps | `Copy`, `Close`, `Sample` |
| `forwardOrSplit` up to the answer | `Arrive`, `PickLink`, `NoLinkToPick`, `RoundTripOK`, `BindFails`, `Repick`, `RepickFails`, `BadCertificate`, `RoundTripFails` |
| `shouldSplit`, the hand-over, the streamed body | `InspectSplit`, `InspectStream`, `LetGo`, `EnterSplit`, `StreamCopy`, `StreamEnds` |
| `handleUpgrade` | `UpgradeOK`, `UpgradeFails`, `SpliceEnds` |

Abstractions. The EWMA after a sample is any value between the old one and the
sample; staleness is a flag that time clears (`TurnStale`). A probe and the
`Upsert` or `SetHealthy` after it are one step, with the probe's outcome that of
the instant; an adapter that changes between the two is one that changes right
after. A `ResponseWriter` that cannot be hijacked (`mitm.go:211-215`) does not
occur: an upgrade comes over HTTP/1, whose writer can be, and net/http refuses the
header over HTTP/2. `TotalConns`, `BytesOut` and the recent-connections list feed the
display and nothing else. `shouldSplit` is split into its look at the balancer
(modelled here) and its header tests (a free choice here, `SplitDecision` by
themselves). Inside `EnterSplit` the split is
one step here; `RangeSplit` models it on its own, with a snapshot of links that
may be any set for that reason. Retries that net/http itself makes on a reused
connection are below the model. `b.scorer` is set by `main` in every run; the
turn-based pick it replaces is checked as a function (`FairShare`).

## 5. Session

`Session` follows one client from accept to the end of its handler; which link
carries it is the business of `Dial` and `Forward`, whose coarse copying it
refines. Data is numbered units in two directions; `sent`, `taken` and `got` are
what a source has sent, what was read off its socket and what the sink was
given. A peer may end its side (`fin`) or be gone (`reset`) at any step, and the
30 s deadline of `handleConn` may pass at any step while it is armed: until the
reply of a tunnel, until a plain request is forwarded, and in an interception until
net/http, which sets deadlines of its own, takes the connection over (`Accept`).

| Code | Actions |
|---|---|
| `handleConn`, the SOCKS5 conversation, `http.ReadRequest` | `ReadRequest`, `NoRequest` |
| `dialLink`, the dial of `handleUpgrade` | `Dialed`, `DialFails` |
| `handleUpgrade`: TLS handshake, `Hijack` | `Handshake`, `HandshakeFails` |
| the success reply of a tunnel, `SetDeadline(time.Time{})`; the one before an interception | `Reply`, `InterceptReply`, `ReplyFails` |
| `req.Write` of a plain request | `ForwardBody`, `Forwarded`, `ForwardFails` |
| `req.Write` and the drain of `handleUpgrade` | `UpgradeForwarded`, `ForwardFails` |
| `copyWithCounter`, `CloseWrite` | `Read`, `Write`, `CopyEnds` |
| `<-done`, the deferred `Close` calls | `Return` |
| `oneConnListener.Accept`, the end of `InterceptHTTPS` | `Accept` |
| net/http: the end of an intercepted connection | `ServerCloses` |

The bytes behind a request that the `bufio.Reader` took with it are `ahead`: an
upgrade writes them first, a tunnel copies from the socket past them, a plain
request reads its body from them. `copyWithCounter`'s chunk is one unit; a
short write is a unit that is not delivered before the copier ends. The syntax
of requests is a choice: one is read, refused, or dropped. Delivery through the
sockets is immediate; what a peer has sent before it ends can still be read,
what it has sent before it resets cannot.

## 6. Program, log, certificates, caches

`Program` (with `LogSink`): `Write` looks at `enabled` first and takes the mutex
after, so a line may enter the buffer of a sink that is off by then (`BeginWrite`,
`EndWrite`); package `log` lets in one writer at a time, and `SetOutput` waits
for it (the guard of `Restore`). `Flush` is two steps for each of its two
callers, `RunFlusher` (`Tick`) and `main` (`Flush`, `Flushed`): the copy under
the mutex, the file after it. An append may store any front part of its batch
and fail. `Exit` may find a ticker's flush half way.

`CAStore`: one step per file operation of `LoadOrCreateCA`. `os.WriteFile` is
two, since it truncates before it writes; a start may end, by a crash or by its
user, between any two. A start runs as administrator, as a user (who may have an
elevated child do the set-up, under the same or another account), or with
`--install-cert`, which looks for the file itself (`StatFirst`) before
`LoadOrCreateCA` does (`Stat`). Certificates and keys are numbered as they are made: a pair
belongs together if the numbers are equal, and the trust store is a set of them
that `isCAInstalled` only asks by name. Three history variables (`failed`,
`crossed`, `disturbed`) record the causes the properties name.

`LazyCache`: the look under `RLock`, the wait for `Lock`, the second look, and
the making, of any number of callers for any names; making may fail (`mint`).
`Transport` is the case without failures.

`RecentConns` is `Add` and `Snapshot`, atomic under one mutex. Its property is a
refinement: the snapshot is a history that drops its oldest record when full.

## 7. Runs

`tlc -config <cfg> <module>` in this directory; all finish within four minutes.

| Run | Module, cfg | Properties | Shows |
|---|---|---|---|
| `algorithms` | MCAlgorithms, Algorithms | `Tiling`, `DecisionIsSound`, `FairShare`, `SnapshotIsRecent` | what `shouldSplit` accepts is a large enough range even where its size wraps around, and it misses none; chunks tile every small range within the bounds; a cycle of turns gives each link its weight; the ring implements a bounded history |
| `split_safety` | MCRangeSplit, RangeSplit_safety | `TypeOK`, `PromisedIsThere`, `DeliveredPrefix`, `TruncationHasCause`, `OneFetcherPerChunk`, `ActiveIsAttempts`, `NoSpoolLeak`, `NoOrphanChunk` | two workers per link, both links failing, short, refused and overlong answers, every correction of the total |
| `split_leave` | MCRangeSplit, RangeSplit_leave | `DeliveryInv`, `KeepsPromise`, `SpoolAppendOnly`, `FetchersStop` | with a client that may leave at any step, the split implements `Download`, spools only grow, the invariant of the proofs holds, and all workers stop although the network never answers |
| `split_live` | MCRangeSplit, RangeSplit_live | `DoneIsExact`, `HandlerReturns` | with failing links and a failing disk every download ends, and DONE means exact |
| `proxy_mitm` | MCProxy, Proxy_mitm | `TypeOK`, `ActiveIsInUse`, `SentOnce`, `PinHolds` | two requests of any kind for one host, every failure, an adapter that changes |
| `proxy_live` | MCProxy, Proxy_live | `AnswerNamesCause`, `LendsLinks`, `EveryClientAnswered`, `ViewSettles` | a tunnel and a request share two links: both are lent healthy ones and answered, the balancer's view becomes right |
| `serve` | MCServe, Serve | `TypeOK`, `InOrder`, `CleanEnd`, `EndHasCause`, `ConnectionEnds`; `EachLineOnce`, `FileInOrder`, `ExitKeeps`, `LinesReachFile` | a connection of every kind, with peers that end or abort at any step: what is delivered is in order and complete, an end has a cause, and the handler and its copiers end. A program from its first line of log to its end: no line is lost without a failed or cut-off flush, none is stored twice |
| `start` | MCStart, Start | `KeyBelongs`, `InUseIsTrusted`, `FailureHasCause`, `CAIsKept`; `OneValuePerName` | overlapping starts of every kind that end at any step: a CA in use is a whole pair and trusted, but for the causes the properties name, and a whole CA is not written over. Callers of a cache agree on its values |
| `split_disconnect` | MCRangeSplit, RangeSplit_disconnect | `SpoolsRemoved` | violated, see below |
| `split_diskfull` | MCRangeSplit, RangeSplit_diskfull | `DeliveredPrefix` | violated |
| `proxy_rotate` | MCProxy, Proxy_rotate | `RetryRotates` | violated |
| `serve_intercept` | MCServe, Serve_intercept | `InterceptReturns` | violated |

### Bounds and why they are enough

- Two links everywhere: the smallest number at which a choice, a retry elsewhere
  and a race between links exist. One or two workers per link (source: 4), so
  that workers of one link and of different links both meet.
- Two or three chunks of one to three units, the last one longer
  (`Uneven`): a head chunk that is drained while a later one is fetched, a queue
  that runs empty, a border inside the range. `MaxAttempts = 2` gives a first, a
  repeated and a last attempt (source: 5). `MaxSlice = 2` and `DrainBuf = 2`
  against chunks of three let reads, pushes and writes be partial. `split_live`
  has chunks of one; its overlong answers make a write of two units that can
  fail half way.
  `Overrun = 1` is a server that sends one unit too many.
- `ProbeTotals` has a total before the start, inside the range, at its last
  unit, and beyond.
- One flap of an adapter (`MaxFlaps`) per behaviour, in either of its forms and
  at any point, starting from any set of working adapters: it can invalidate the
  listing, a probe, a pick, a dial or a decision. `MaxUnits = 1` unit
  per link is enough to make one connection's bytes another's.
  `ColdStart = 1` reaches both cold and warm links.
- `algorithms` takes every length up to 20 against a target of 3 and a cap of 5
  (so below, at and above the cap), three links with weights from 0 to 3, and
  turns that start anywhere in a cycle. The ring has four slots and two records.
  Integers of 4 bits and a threshold of 3 let sizes wrap around past it; an
  answer differs from a plain GET in its numbers and in one test at most. The
  tiling, the soundness of decisions, the fair cycle and the ring are also proved
  for all values.
- `serve`: three units in each direction, so that there is one behind the
  request, one in a copier's hands and one on its way; three lines of log, so
  that the file, the ticker's batch and the buffer can hold one each. The safety
  properties are also proved without these bounds.
- `start`: two programs and three starts, so that a third one finds what two that
  overlapped have left; two accounts. Three callers of a cache, one each at the
  mutex, before it and behind it, and two names. Programs and callers are
  symmetric: no definition names one, and the run checks no liveness.

`CHECK_DEADLOCK FALSE` stands where the system may stop: a client that leaves can
leave the handler waiting for ever (`split_disconnect`); the pure algorithms, a
connection, a program and a bounded number of starts end.

### Fairness

- `RangeSplit!SchedulerFairness`: Go runs every goroutine that can run, and a
  request built with the context returns when the context ends
  (`NewRequestWithContext`, line 691). `StallSpec` assumes no more: no timeout
  covers a response body, so a silent network is allowed to stall for ever.
- `RangeSplit!FairSpec` adds that the network answers each request and read in
  the end, well or badly. Only `HandlerReturns` and `SpoolsRemoved` use it, and
  without it they would not hold: the code has no bound of its own.
- `Proxy!Fairness`: dials, handshakes, round trips and probes end by their
  timeouts or the transport's, and the scan repeats for ever. There is no
  fairness on the end of a stream, on staleness or on flaps. For `ViewSettles`
  the flaps are bounded, which is its premise ("once the adapters stay as they
  are"), and enumeration and the probe of a working adapter do not fail for
  ever (`Flaky = {}`). Two waits have no timeout in the code, the TLS handshake
  of an upgrade and the sending of a request body; they get no fairness either
  (`Unbounded`), and `EveryClientAnswered` does not promise their answer.

- `Session!SessionFairness`: the handler and the copiers go on when they can. A
  dial ends by its 10 s; a TLS handshake of an upgrade ends for sure only when
  its upstream does, and net/http closes an intercepted connection for sure only
  when its client has ended (its idle timeout needs an idle client). The peers
  need not do anything: `ConnectionEnds` has as its premise that both have ended.
- `Program!ProgramFairness`: the ticker fires, a flush under way and a write
  under way are finished, and `main` goes on. Nobody has to type, log or send a
  signal.

## 8. Where the code and its comments disagree

Listed as findings, each with a run that shows it:

- `split_disconnect`: a worker that claims a chunk and then sees the context
  ended returns without `finish()` (`rangesplit.go:380`). The drain of that chunk
  waits for ever, its spools stay on disk. Lines 334-335 promise removal "no
  matter how we exit (success, client disconnect, fetcher error)".
- `split_diskfull`: a write to a spool that fails half way is counted in
  `written` but not in `*pushed`; the retry appends that part again and the
  client gets it twice. Line 634: "bytes arrive in order".
- `proxy_rotate`: with the scorer set, a failed dial changes no score, so the
  second attempt picks the same link. `proxy.go:221-222` counts on rotation.
- `serve_intercept`: the second `Accept` waits for `Close`, which `InterceptHTTPS`
  defers until `ServeTLS`, which waits for that `Accept`, returns. Every
  intercepted connection leaves a goroutine behind. `mitm.go:376-378` describes
  the opposite: "blocks until Close() is called so http.Server stops its accept
  loop".

Further counterexamples, to be run by hand (`tlc -config <cfg> <module>`):

| cfg | Property | Against |
|---|---|---|
| `RangeSplit_spoolleak` | `NoSpoolLeak` fails when a spool cannot be created after others were: the panic passes the cleanup, which is deferred later | `rangesplit.go:334-335` |
| `RangeSplit_linkloss` | `SurvivesLinkLoss` fails: retries stay on the link that claimed the chunk | `ARCHITECTURE.md:5` "a dropped link mid-transfer doesn't kill the download" |
| `Proxy_bindrotate` | `BindRetryRotates` fails: the retry after a bind error may return to the same link | `mitm.go:136-137` |
| `Proxy_splitlinks` | `SplitHasLinks` fails: links counted in `shouldSplit` are gone at `healthy[0]`, and the handler panics | `rangesplit.go:60` |
| `RangeSplit_resumepast` | `CompleteChunkNeverFails` fails: a stream that errs after the last byte was pushed makes the retry ask for an empty range, which no server answers with 206; the complete chunk is reported as failed | `rangesplit.go:632` "Resilient to mid-transfer failures" |
| `Proxy_sample` | `SampleIsOwn` fails: a sample is the change of the link's shared counter, other connections' bytes included | `scorer.go:33` "a completed request's throughput" |
| `Proxy_cold` | `ColdPicksRotate` fails: cold links are compared by probe latency, there is no fallback to turns | `ARCHITECTURE.md:116` |

`Serve_notso` (module `MCServe`) and `Start_notso` (module `MCStart`) are for the
properties whose comment in `Session`, `Program` and `CAStore` begins with "Not
so". Put the name of one in the last line but one (`INVARIANT`, or `PROPERTY` for
the three with `~>`):

| Property | What happens instead |
|---|---|
| `UpgradeComplete` | `handleUpgrade` closes both sides when the first direction ends, and cuts the other (`mitm.go:279`) |
| `NothingSkipped` | bytes a client sends ahead of the reply stay in the `bufio.Reader` of a tunnel (`proxy.go:491`) |
| `TruthfulEnd` | a copy that failed half-closes too, so an aborted stream looks complete (`proxy.go:493`) |
| `UploadServed` | the 30 s of `handleConn` end a plain upload under way, without an answer (`proxy.go:452`) |
| `HandshakeEnds` (`~>`) | a client that leaves during an upgrade's handshake is not noticed (`mitm.go:234`) |
| `FileOrdered` | `main`'s flush may append before the ticker's older batch |
| `ExitFlushes` | the ticker's batch is lost when the process ends; `log_sink.go:19` says "or on Close" |
| `QuitQuits` (`~>`) | the key loop ignores `q`; `mitm_control.go:53` says "quit (same as Ctrl+C)" |
| `KeepsAccepting` | any error of `Accept`, a transient one too, ends the accept loop while the program runs (`proxy.go:69-71`) |
| `CreateRecovers` | a CA that a start did not finish writing is never replaced; `ca.go:50` says "loads the existing CA or generates a new one" |
| `InUseAlwaysTrusted` | the CA found by name may be another account's (`main.go:171`); `ca_other.go:68` says "if our CA is present" |

## 9. Proofs

`tlapm <module>` in this directory. The theorems hold for all values of the
constants that satisfy the named assumptions (`PlanAssumption`,
`DecisionAssumption`, `SplitAssumption`, `BalancerAssumption`, `DialAssumption`,
`ForwardAssumption`, `SessionAssumption`, `LogAssumption`, `StoreAssumption`,
`CacheAssumption`, `RecentAssumption`, `AlgorithmsAssumption`), which TLC evaluates in the runs.

| Theorem | Says | Also checked as |
|---|---|---|
| `SplitPlanProofs!ChunksTile` | the first chunk starts the range, each next one starts where the last ended, the last one ends it; 2 to `MaxChunks` chunks | `Tiling` |
| `SplitPlanProofs!ChunksNonempty` | a range of two bytes or more has no empty chunk | `Tiling` |
| `SplitPlanProofs!SplitsAreDecisions` | what `shouldSplit` accepts is a range in order, of the threshold's size or more, at any width of integers | `DecisionIsSound` |
| `RangeSplitProofs!TypeCorrect` | `TypeOK`, with every fault allowed | `split_safety` |
| `RangeSplitProofs!DeliveryInvariant` | the inductive invariant, if the disk does not fail | `split_leave` |
| `RangeSplitProofs!ClientGetsPrefix` | `DeliveredPrefix`, if the disk does not fail | `split_safety` |
| `RangeSplitProofs!MismatchIsUnreachable` | `NoMismatch`, if the disk does not fail | `split_leave`, in `DeliveryInv` |
| `RangeSplitProofs!OneWriterPerSpool` | `OneFetcherPerChunk`, with every fault allowed | `split_safety` |
| `RangeSplitProofs!NoChunkIsForgotten` | `NoOrphanChunk`, with every fault allowed | `split_safety` |
| `RangeSplitProofs!SpoolsOnlyGrow` | `SpoolAppendOnly` (an action property), with every fault allowed | `split_leave` |
| `RangeSplitProofs!LinkCountsAttempts` | `ActiveIsAttempts`, with every fault allowed | `split_safety` |
| `RangeSplitProofs!OnlyWhatIsThere` | `PromisedIsThere`, with every fault allowed | `split_safety` |
| `DownloadProofs!DoneMeansExact` | `DoneIsExact`, with every fault allowed, the disk's included | `split_live` |
| `DownloadProofs!TruncationsAreExplained` | `TruncationHasCause`, if the disk does not fail | `split_safety` |
| `DownloadProofs!ReturnsWithoutSpools` | `NoSpoolLeak`, if the disk does not fail | `split_safety` |
| `DownloadProofs!SplitKeepsPromise` | `KeepsPromise`: `RangeSplit` implements `Download`, if the disk does not fail | `split_leave` |
| `ProxyProofs!ActiveConnsAreInUse` | `ActiveIsInUse` for any links, connections, requests | `proxy_mitm` |
| `ProxyProofs!EachRequestIsSentOnce` | `SentOnce` | `proxy_mitm` |
| `ProxyProofs!PinsHold` | `PinHolds` (an action property) | `proxy_mitm` |
| `ProxyProofs!LinksAreLent` | `LendsLinks`: `Proxy` implements `LinkPool` | `proxy_live` |
| `ProxyProofs!NoLinksMeansNoDial` | `AnswerNamesCause` | `proxy_live` |
| `ProxyProofs!ProxyTypes` | `Proxy!TypeOK` | `proxy_mitm` |
| `SessionProofs!DeliveredInOrder` | `InOrder`, for any number of units | `serve` |
| `SessionProofs!EndsAreClean` | `CleanEnd` | `serve` |
| `SessionProofs!EndsHaveCauses` | `EndHasCause` | `serve` |
| `SessionProofs!SessionTypes` | `Session!TypeOK` | `serve` |
| `ProgramProofs!EveryLineOnce` | `EachLineOnce`, for any number of lines | `serve` |
| `ProgramProofs!TickerKeepsOrder` | `FileInOrder` | `serve` |
| `ProgramProofs!NothingStaysBehind` | `ExitKeeps` | `serve` |
| `StartProofs!OneValueForAll` | `OneValuePerName`, for any callers and names | `start` |
| `StartProofs!CAIsAPair` | `KeyBelongs`, for any accounts, programs and starts | `start` |
| `StartProofs!CAInUseIsTrusted` | `InUseIsTrusted` | `start` |
| `StartProofs!CAStays` | `CAIsKept` (an action property) | `start` |
| `StartProofs!FailuresAreExplained` | `FailureHasCause` | `start` |
| `AlgorithmsProofs!RingKeepsLast` | `SnapshotIsRecent`: the ring implements `LastRecords`, for any size | `algorithms` |
| `AlgorithmsProofs!CyclesAreFair` | `FairShare`, for any links, weights and `b.next` | `algorithms` |
| `AlgorithmsProofs!ChunksCover` | `Tiling`, for any range, target and cap | `algorithms` |
| `AlgorithmsProofs!DecisionsAreSound` | `DecisionIsSound`, at any width of integers | `algorithms` |

**The delivery argument.** `DeliveredPrefix` says nothing of the spools, so it is
not inductive. `DeliveryInv` adds what it rests on: a spool holds a prefix of its
chunk and `*pushed` is its length (`SpoolContents`); the next unit of an attempt
is the next of its spool (`AttemptAligned`, which is where resuming at
`start+pushed` matters); one worker per chunk (`OneFetcherPerChunk`, from
`QueueOrder`); a chunk that finished without error is complete
(`FinishedComplete`); what `drainTo` read under the mutex stays true
(`SnapTruth`); and what was delivered ends where the drain stands
(`DrainPosition`, where `ChunksTile` joins the chunks). The proof has one
lemma per action group: what the handler and the workers do to the typing part,
what an append does to a spool, then each conjunct under each step. The
assumption `SpoolFaults = FALSE` is needed: with a disk that fails half way,
`SpoolContents` and `ClientGetsPrefix` are false (`split_diskfull`).
The theorems marked "with every fault allowed" do not rest on `DeliveryInv`.

**The ownership argument.** A step of a worker takes the next chunk of the queue,
keeps the one it holds, finishes it, or stops; `WorkerStep` says which for every
action, and what it leaves alone. With `QueueOrder` (a chunk that is held or
finished has left the queue) this makes `OneFetcherPerChunk`, `NoOrphanChunk` and
the growth of the spools inductive (`Ownership`), whatever the disk does, since
none of it looks at what a spool holds.

**The exactness argument.** With a failing disk a spool may hold a part twice, and
still a download logged as DONE is exact. The reason is arithmetic: a spool is
never shorter than its `*pushed`, and one that took a partial write is longer
for ever (`SpoolSound`); the drain delivers all of a spool (`DrainAhead`); so if
every chunk finished and the total is right, as the code checks before it logs
DONE, no spool was longer, and every spool that was not is a prefix of its chunk
(`OutSound`, `DoneTruth`). The invariant is `ExactInv`.

**The cause argument.** An error a spool was finished with is `"exhausted"` after
the last attempt, or `"ctx"` and then the context had ended; before the handler
has met an error of its own, the context ends only because the client left. So the
error that ends a download is never one that its own `cancel()` made.

**The refinement argument.** The mapping takes the range, what the client has and
how the download stands. The probe settles the range (`Settle`), every write of the
drain delivers its next units (`Deliver`, from `DrainPosition` and `SnapTruth`),
leaving with an error or a refusal cuts it (`Cut`), and leaving the last chunk
without one completes it, since the drain stands at the end of the range then
(`Complete`). All other steps are stutters.

**The accounting argument.** `ActiveIsInUse` is made inductive by
`HoldersHaveLinks`: who has a link in use knows which, the release flag is
down while it does and up between the two picks of the bind retry. Each
action then takes a link, gives it back, or leaves use as it is (`ConnTakes`,
`ConnGives`, `ConnKeeps` and the same for requests), and the cardinalities follow
the counter. `SentOnce` is inductive with "where a request may still be sent, it
has not been received". `ProxyTypes` takes from these invariants what it needs:
that a count is not negative follows from its being a cardinality, and that no
dial exceeds its budget from "a connection that may still dial has some left".

**The pool argument.** `LinkPool` has callers that ask, are lent a link, and give it
back. A connection asks while `chooseDialer` is due and a request while a pick is;
what they have is the link of `ConnsOn` and `ReqsOn`. A step of one caller changes
the view of that caller only (`ConnView`, `ReqView`), and is then one step of the
pool or none. That a link lent is healthy needs only that a choice is among `Up`
(`ChoicesAreHealthy`); that no caller is turned away while a link is healthy needs
that a healthy link is in `b.links` (`LinkTypes`); that a release is of the link
lent needs `HoldersHaveLinks`, and so does the stutter of a release made twice.

**The connection argument.** `InOrder` does not say what a copier has in its
hands, and `CleanEnd` not what a finished copier has done. `SessionInv` adds the
phase a handler can be in by its kind of request (`Phase`), that copiers run only
with the deadline lifted (`Copies`, which is where `SetDeadline(time.Time{})`
matters), where each direction stands against its copier (`Progress`), and that a
copier which ended while both peers behaved has delivered everything
(`DoneComplete`).

**The log argument.** A line has one place: `Once` says that no two of buffer,
batches, file and the lost share one, `Placed` that together they are all lines.
`Ordered` keeps file, ticker's batch and buffer apart by number until `main`
flushes too; `Closing` is the order of `main`'s last steps, from which it follows
that no `Write` comes after the last flush.

**The cache argument.** One caller owns the mutex, and one that makes a value
still has none in the cache (`CacheInv`): this is what the second look is for.

**The ring argument.** Until the ring is full its oldest record is in slot 0
(`RingInv`); `Add` then appends to the snapshot, or shifts it by one around the
wrap. The remainder is reduced to one subtraction (`Turn`).

**The certificate argument.** None of the three invariants speaks of the files,
and all of them rest on what is in them between two starts. `StoreInv` says it,
for an account in which no two starts made a CA at once (`crossed`): its maker is
alone and finds the files as its own last step left them (`MakerAlone`); a new CA
is one pair of the maker's account (`NewPair`); a key that is there has its
certificate beside it (`Pairs`); a certificate once read stays the one in the
file, and so the key read after it belongs to it (`Keeps`, which is where it
matters that an existing file is loaded and never written again); and a trusted
CA of such an account is still in its file (`TrustedIsKept`). For
`FailureHasCause` the same is said of accounts whose makers were neither cut off
nor watched (`disturbed`): a loader finds both files whole (`FindsAll`). One
process moves in a step (`OneMoves`), so each action has to be looked at for the
process that takes it, and for the others only where it writes a file. `CAIsKept`
follows: who is about to write is alone, and has still to write the key.

**The round-robin argument.** `UpTo`, the sums of the weights, is a recursive
function; that its equation has a solution, and that the sums grow, is shown by
induction over the links, in the form of `SetInduction` (a set of naturals that
has 0 and is closed under successor is all of them, from the well-foundedness of
`<`). So the slots of the links tile a cycle and `Slot` has one value
(`SlotHolds`). How often a link has been picked is then a closed form: the overlap
of its slots with the stretch of calls made, in two turns laid end to end
(`Given`, `TurnInv`); the remainder of `b.next` wraps at most once in a cycle
(`RemainderMoves`).

**The tiling argument.** The stretch laid down ends at the `Edge` of the next chunk
and holds each offset once (`LaidInv`); the edges are those of `ChunksTile`. The
two cardinalities are equal by the bijection from a laid pair to its offset.

**The decision argument.** `AskInv` says that the verdict is `shouldSplit`'s of the
answer beside it. An answer that is split is an `IsDecision` whose end is an int64
(`SplitsAreDecisions`), so its borders are (`BordersFit`); an answer with enough
bytes in order has a size that does not wrap around (`StreamHasCause`).

**Only model-checked:** all liveness (`FetchersStop`, `HandlerReturns`,
`EveryClientAnswered`, `ViewSettles`, `ConnectionEnds`, `LinesReachFile`), which
rests on fairness and so on ENABLED. Every invariant and every action property
without fairness that a run checks is a theorem.

## 10. What is not modelled

- Drawing in the terminal UI, flags, the classic log mode and console modes:
  sequential code over the operating system, without shared state.
- The registry policy for Windows adapters, and `UninstallCA`, which removes all
  that has the name from the trust store and nothing else.
- Syntax: SOCKS5 and HTTP parsing, the host tests of `isLoopbackTarget`, the text
  of the headers `shouldSplit` reads. Their outcomes are choices (a request is
  read, refused or dropped; a header is of one class or another).
- The memory model of the unlocked read of `LocalIP` (`link_net.go:61`), read in
  one step. The addresses are slices of one length over arrays nobody writes, so
  a torn header still names one of two real addresses.
- An elevated child that outlives the parent that waits for it.
- What net/http does: connection pools, its own retries, HTTP/2 streams.

Beyond the provers stay liveness and ENABLED.

## 11. Plan

Done, in this order: `SplitPlan`, `RangeSplit`, `Download` and their proofs;
`RoundRobin`; `Balancer`; `Dial`; `Forward`; `Proxy` and its proofs; `Session`,
`LogSink` and `Program`, `CAStore`, `LazyCache`, `RecentConns`, and their proofs;
the proofs of `Download` and of the split under disk faults; `SplitDecision`; the
proofs of the certificates, of the round-robin cycle, of the tiling and of the
decisions; `LinkPool` and its refinement.

To be done next: an abstract specification of what a connection promises, and the
refinement.
