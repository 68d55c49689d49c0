----------------------------- MODULE RangeSplit -----------------------------
(***************************************************************************)
(* One parallel download: splitAcrossLinks, fetchChunk, fetchChunkOnce and *)
(* the chunkBuf spool between them (rangesplit.go, lines 254-748).         *)
(*                                                                         *)
(* Two kinds of goroutine share the spools:                                *)
(*   - the handler cuts the range, creates one spool per chunk, starts     *)
(*     workersPerLink workers on every healthy link, and then drains the   *)
(*     spools to the client in order, blocking on each;                    *)
(*   - a worker claims chunks from a queue filled beforehand, fetches each *)
(*     over its own link with bounded retries, and appends what it reads   *)
(*     to the chunk's spool.                                               *)
(* They meet in the spool (written, done, err: under its mutex), in the    *)
(* queue, and in the request's context.                                    *)
(*                                                                         *)
(* A unit of data stands for a run of bytes; the value of a unit is its    *)
(* offset in the file.  The locals of a fetchChunk call (tries, pushed)    *)
(* and of a fetchChunkOnce call (from, fetched) are kept per chunk: no     *)
(* chunk is fetched by two calls at a time (OneFetcherPerChunk).           *)
(***************************************************************************)
EXTENDS SplitPlan, Sequences, FiniteSets

CONSTANTS Links,           \* the links of the balancer
          WorkersPerLink,  \* workersPerLink
          MaxAttempts,     \* maxChunkAttempts
          MaxSlice,        \* units one Body.Read may return
          Overrun,         \* units a bad server may send past the range
          DrainBuf,        \* units the drain's read buffer holds
          Decisions,       \* the splitDecisions shouldSplit may return
          Totals,          \* totals the verification probe may report
          Faulty,          \* links whose requests and reads may fail
          ClientMayLeave,  \* whether the client may disconnect
          SpoolFaults      \* whether creating, writing or reading a spool may fail

ASSUME SplitAssumption ==
  /\ IsFiniteSet(Links)
  /\ WorkersPerLink \in Nat
  /\ MaxAttempts \in Nat /\ MaxAttempts >= 1
  /\ MaxSlice \in Nat /\ Overrun \in Nat
  /\ DrainBuf \in Nat /\ DrainBuf >= 1
  /\ \A r \in Decisions : IsDecision(r)
  /\ Totals \subseteq Nat
  /\ Faulty \subseteq Links
  /\ ClientMayLeave \in BOOLEAN /\ SpoolFaults \in BOOLEAN

Workers == Links \X (1 .. WorkersPerLink)
Slots   == 0 .. MaxChunks - 1
NoChunk == -1

VARIABLES
  hpc,        \* where the handler is
  result,     \* how the handler ended, "none" before it did
  d,          \* the splitDecision; the probe may adjust it
  links,      \* the healthy links of the snapshot taken on entry
  files,      \* chunks whose temp file exists
  gone,       \* the client has disconnected
  cancelled,  \* cancel() was called
  next,       \* first chunk still in the queue
  cur,        \* the chunk being drained
  dlv,        \* units of it delivered so far
  snap,       \* what the drain read under the spool's mutex
  out,        \* units written to the client, in order
  data,       \* chunk -> what its spool holds; Len(data[c]) is c.written
  fin,        \* chunk -> finish() was called
  err,        \* chunk -> the fetcher's terminal error
  tries,      \* chunk -> failed attempts (attempt in fetchChunk)
  pushed,     \* chunk -> *pushed
  from,       \* chunk -> curStart of the current attempt
  fetched,    \* chunk -> fetched of the current attempt
  wpc,        \* worker -> where it is
  job,        \* worker -> the chunk it holds
  slice,      \* worker -> units read and not yet pushed
  active      \* link -> its ActiveConns

hVars == <<hpc, result, d, links, cancelled, cur, dlv, snap, out>>
cVars == <<data, fin, err, tries, pushed, from, fetched>>
wVars == <<wpc, job, slice, active>>
vars  == <<hVars, files, gone, next, cVars, wVars>>

Chunks  == 0 .. NumChunks(d) - 1
CtxDone == gone \/ cancelled
Min2(a, b) == IF a < b THEN a ELSE b

InAttempt == {"request", "reading", "push"}
Working   == {"claimed", "try"} \cup InAttempt

Init ==
  /\ hpc = "snapshot" /\ result = "none"
  /\ d \in Decisions /\ links = {}
  /\ files = {} /\ gone = FALSE /\ cancelled = FALSE
  /\ next = 0 /\ cur = 0 /\ dlv = 0
  /\ snap = [avail |-> 0, done |-> FALSE, err |-> "none"]
  /\ out = <<>>
  /\ data = [c \in Slots |-> <<>>]
  /\ fin = [c \in Slots |-> FALSE]
  /\ err = [c \in Slots |-> "none"]
  /\ tries = [c \in Slots |-> 0]
  /\ pushed = [c \in Slots |-> 0]
  /\ from = [c \in Slots |-> 0]
  /\ fetched = [c \in Slots |-> 0]
  /\ wpc = [w \in Workers |-> "absent"]
  /\ job = [w \in Workers |-> NoChunk]
  /\ slice = [w \in Workers |-> 0]
  /\ active = [l \in Links |-> 0]

-----------------------------------------------------------------------------
(***************************************************************************)
(* The handler up to the drain.                                            *)
(***************************************************************************)

\* HealthyLinks may answer any set: scanOnce runs between shouldSplit's check
\* and this call.  healthy[0] of an empty snapshot panics.
Snapshot ==
  /\ hpc = "snapshot"
  /\ \E hs \in SUBSET Links :
       /\ links' = hs
       /\ IF hs = {} THEN hpc' = "returned" /\ result' = "panic"
                     ELSE hpc' = "probe" /\ UNCHANGED result
  /\ UNCHANGED <<d, cancelled, cur, dlv, snap, out, files, gone, next, cVars, wVars>>

\* The probe failed, or confirmed the advertised total.
ProbeAgrees ==
  /\ hpc = "probe" /\ hpc' = "spool"
  /\ UNCHANGED <<result, d, links, cancelled, cur, dlv, snap, out,
                 files, gone, next, cVars, wVars>>

\* Slip: the whole range is kept although the file is shorter.
KeptRange(t) == [d EXCEPT !.total = t]

Adjusted(t) == [d EXCEPT !.effEnd = Min2(d.effEnd, t - 1), !.total = t]

\* The probe reported another total: shrink the range to it, or refuse it.
ProbeDiffers ==
  /\ hpc = "probe"
  /\ \E t \in Totals \ {0, d.total} :
       IF d.effStart >= t
       THEN hpc' = "returned" /\ result' = "unsatisfiable" /\ UNCHANGED d
       ELSE hpc' = "spool" /\ d' = Adjusted(t) /\ UNCHANGED result
  /\ UNCHANGED <<links, cancelled, cur, dlv, snap, out, files, gone, next, cVars, wVars>>

\* newChunkBuf, for the chunks in order.
CreateSpool ==
  /\ hpc = "spool"
  /\ \E c \in Chunks : files = 0 .. c - 1 /\ files' = 0 .. c
  /\ UNCHANGED <<hVars, gone, next, cVars, wVars>>

\* newChunkBuf panics.  Of the deferred calls only cancel() is registered.
CreateSpoolFails ==
  /\ hpc = "spool" /\ files # Chunks /\ SpoolFaults
  /\ hpc' = "returned" /\ result' = "panic" /\ cancelled' = TRUE
  /\ UNCHANGED <<d, links, cur, dlv, snap, out, files, gone, next, cVars, wVars>>

\* All spools exist: fill the queue, start the workers, begin to drain.
StartWorkers ==
  /\ hpc = "spool" /\ files = Chunks
  /\ hpc' = "wait"
  /\ wpc' = [w \in Workers |-> IF w[1] \in links THEN "pull" ELSE "absent"]
  /\ UNCHANGED <<result, d, links, cancelled, cur, dlv, snap, out,
                 files, gone, next, cVars, job, slice, active>>
-----------------------------------------------------------------------------
(***************************************************************************)
(* The drain: drainTo on the spool of each chunk in turn.                  *)
(***************************************************************************)

\* Both returns of splitAcrossLinks run the deferred closes next.
Leave(how) == hpc' = "closing" /\ result' = how

\* A failed drain: cancel the workers and return.
Truncate == Leave("truncated") /\ cancelled' = TRUE

\* Wait until there is more than was delivered or the fetcher is done, and
\* read the three fields under the mutex.
DrainWake ==
  /\ hpc = "wait"
  /\ Len(data[cur]) # dlv \/ fin[cur]
  /\ hpc' = "write"
  /\ snap' = [avail |-> Len(data[cur]) - dlv, done |-> fin[cur], err |-> err[cur]]
  /\ UNCHANGED <<result, d, links, cancelled, cur, dlv, out, files, gone, next, cVars, wVars>>

WriteLen == Min2(snap.avail, DrainBuf)

\* net/http refuses a Write past the declared Content-Length as a whole.
Fits == Len(out) + WriteLen <= RangeSize(d)

DrainWrite ==
  /\ hpc = "write" /\ snap.avail > 0 /\ Fits
  /\ out' = out \o SubSeq(data[cur], dlv + 1, dlv + WriteLen)
  /\ dlv' = dlv + WriteLen
  /\ snap' = [snap EXCEPT !.avail = @ - WriteLen]
  /\ UNCHANGED <<hpc, result, d, links, cancelled, cur, files, gone, next, cVars, wVars>>

\* The client is gone, or the server has sent too much.  How much of a write
\* to a client that has gone was taken, nobody sees.
DrainWriteFails ==
  /\ hpc = "write" /\ snap.avail > 0
  /\ gone \/ ~Fits
  /\ Truncate
  /\ UNCHANGED <<d, links, cur, dlv, snap, out, files, gone, next, cVars, wVars>>

\* The disk does not give back what was written to the spool.
DrainReadFails ==
  /\ hpc = "write" /\ snap.avail > 0 /\ SpoolFaults
  /\ Truncate
  /\ UNCHANGED <<d, links, cur, dlv, snap, out, files, gone, next, cVars, wVars>>

\* The fetcher had finished, and written, read again, holds nothing more.
Drained == snap.done /\ dlv >= Len(data[cur])

DrainMore ==
  /\ hpc = "write" /\ snap.avail = 0 /\ ~Drained
  /\ hpc' = "wait"
  /\ UNCHANGED <<result, d, links, cancelled, cur, dlv, snap, out, files, gone, next, cVars, wVars>>

\* Slip: drainTo's error is dropped.
NoError == TRUE

ChunkOK == snap.err = "none"

DrainNext ==
  /\ hpc = "write" /\ snap.avail = 0 /\ Drained /\ ChunkOK
  /\ IF cur + 1 \in Chunks
     THEN cur' = cur + 1 /\ dlv' = 0 /\ hpc' = "wait" /\ UNCHANGED result
     ELSE /\ Leave(IF Len(out) = RangeSize(d) THEN "done" ELSE "mismatch")
          /\ UNCHANGED <<cur, dlv>>
  /\ UNCHANGED <<d, links, cancelled, snap, out, files, gone, next, cVars, wVars>>

DrainFails ==
  /\ hpc = "write" /\ snap.avail = 0 /\ Drained /\ ~ChunkOK
  /\ Truncate
  /\ UNCHANGED <<d, links, cur, dlv, snap, out, files, gone, next, cVars, wVars>>

\* Slip: only the spools the drain came to are closed.
DrainedSpools == {c \in files : c <= cur}

ToClose == files

\* The deferred loop over bufs closes and removes the spools in order.
CloseSpool ==
  /\ hpc = "closing"
  /\ \E c \in ToClose : (\A b \in ToClose : c <= b) /\ files' = files \ {c}
  /\ UNCHANGED <<hVars, gone, next, cVars, wVars>>

\* The other deferred call, cancel(), is the last thing that runs.
Return ==
  /\ hpc = "closing" /\ ToClose = {}
  /\ hpc' = "returned" /\ cancelled' = TRUE
  /\ UNCHANGED <<result, d, links, cur, dlv, snap, out, files, gone, next, cVars, wVars>>

-----------------------------------------------------------------------------
(***************************************************************************)
(* A worker, between chunks.                                               *)
(***************************************************************************)

\* Slip: the chunk stays in the queue.
NotTaken == next

Taken == next + 1

Claim(w) ==
  /\ wpc[w] = "pull" /\ next \in Chunks
  /\ job' = [job EXCEPT ![w] = next]
  /\ next' = Taken
  /\ wpc' = [wpc EXCEPT ![w] = "claimed"]
  /\ UNCHANGED <<hVars, files, gone, cVars, slice, active>>

QueueEmpty(w) ==
  /\ wpc[w] = "pull" /\ next \notin Chunks
  /\ wpc' = [wpc EXCEPT ![w] = "exit"]
  /\ UNCHANGED <<hVars, files, gone, next, cVars, job, slice, active>>

\* The context ended between the claim and fetchChunk: the worker returns.
\* The chunk it took off the queue is never finished.
Abandon(w) ==
  /\ wpc[w] = "claimed" /\ CtxDone
  /\ wpc' = [wpc EXCEPT ![w] = "exit"]
  /\ job' = [job EXCEPT ![w] = NoChunk]
  /\ UNCHANGED <<hVars, files, gone, next, cVars, slice, active>>

EnterFetch(w) ==
  /\ wpc[w] = "claimed" /\ ~CtxDone
  /\ wpc' = [wpc EXCEPT ![w] = "try"]
  /\ UNCHANGED <<hVars, files, gone, next, cVars, job, slice, active>>
-----------------------------------------------------------------------------
(***************************************************************************)
(* A worker fetching its chunk: fetchChunk and fetchChunkOnce.             *)
(***************************************************************************)

\* Slip: finish is not deferred; a failed chunk is not marked.
FinishOnSuccess(w, e) ==
  /\ fin' = [fin EXCEPT ![job[w]] = (e = "none")]
  /\ err' = [err EXCEPT ![job[w]] = e]
  /\ wpc' = [wpc EXCEPT ![w] = "pull"]
  /\ job' = [job EXCEPT ![w] = NoChunk]

\* The deferred finish(e), and back to the queue.
Finish(w, e) ==
  /\ fin' = [fin EXCEPT ![job[w]] = TRUE]
  /\ err' = [err EXCEPT ![job[w]] = e]
  /\ wpc' = [wpc EXCEPT ![w] = "pull"]
  /\ job' = [job EXCEPT ![w] = NoChunk]

\* Slip: the counter is only decremented when the attempt succeeded.
StillActive(w) == active

LinkReleased(w) == [active EXCEPT ![w[1]] = @ - 1]

\* Slip: a retry asks for the whole chunk again.
RestartAt(c) == ChunkFirst(d, c)

ResumeAt(c) == ChunkFirst(d, c) + pushed[c]

\* The context is looked at before every attempt; the select of the backoff
\* may still pick the timer when both are ready.
BeginAttempt(w) ==
  LET c == job[w] IN
  /\ wpc[w] = "try"
  /\ tries[c] = 0 => ~CtxDone
  /\ wpc' = [wpc EXCEPT ![w] = "request"]
  /\ from' = [from EXCEPT ![c] = ResumeAt(c)]
  /\ fetched' = [fetched EXCEPT ![c] = 0]
  /\ active' = [active EXCEPT ![w[1]] = @ + 1]
  /\ UNCHANGED <<hVars, files, gone, next, data, fin, err, tries, pushed, job, slice>>

GiveUp(w) ==
  /\ wpc[w] = "try" /\ CtxDone
  /\ Finish(w, "ctx")
  /\ UNCHANGED <<hVars, files, gone, next, data, tries, pushed, from, fetched, slice, active>>

\* Slip: one attempt less than the budget.
LastOfFewer(c) == tries[c] + 2 >= MaxAttempts

LastAttempt(c) == tries[c] + 1 >= MaxAttempts

\* fetchChunkOnce returned an error: give up with the context, or with the
\* last attempt, or try again.
AttemptFails(w) ==
  LET c == job[w] IN
  /\ active' = LinkReleased(w)
  /\ \/ CtxDone /\ Finish(w, "ctx") /\ UNCHANGED tries
     \/ ~CtxDone /\ LastAttempt(c) /\ Finish(w, "exhausted") /\ UNCHANGED tries
     \/ /\ ~CtxDone /\ ~LastAttempt(c)
        /\ tries' = [tries EXCEPT ![c] = @ + 1]
        /\ wpc' = [wpc EXCEPT ![w] = "try"]
        /\ UNCHANGED <<fin, err, job>>

\* What the attempt asks for.  Nothing, or less, once everything was pushed.
Expected(c) == ChunkLast(d, c) - from[c] + 1

\* Slip: the request is not built with the context.
Uninterrupted == FALSE

\* The context of the request ended: Do and Body.Read return.
Interrupted == CtxDone

\* No connection, no 206, or a Content-Range total the chunk does not fit.
\* A server must ignore a Range that ends before it starts.
Refused(w) ==
  /\ wpc[w] = "request"
  /\ Interrupted \/ w[1] \in Faulty \/ Expected(job[w]) < 1
  /\ AttemptFails(w)
  /\ UNCHANGED <<hVars, files, gone, next, data, pushed, from, fetched, slice>>

Accepted(w) ==
  /\ wpc[w] = "request" /\ Expected(job[w]) >= 1
  /\ wpc' = [wpc EXCEPT ![w] = "reading"]
  /\ UNCHANGED <<hVars, files, gone, next, cVars, job, slice, active>>

\* Body.Read returned units, and push found the context alive.
ReadSlice(w) ==
  LET c == job[w] IN
  /\ wpc[w] = "reading" /\ ~CtxDone
  /\ \E n \in 1 .. MaxSlice :
       /\ fetched[c] + n <= Expected(c) + (IF w[1] \in Faulty THEN Overrun ELSE 0)
       /\ slice' = [slice EXCEPT ![w] = n]
  /\ wpc' = [wpc EXCEPT ![w] = "push"]
  /\ UNCHANGED <<hVars, files, gone, next, cVars, job, active>>

\* The first n units of the slice, as they sit in the file.
Units(c, n) == [j \in 1 .. n |-> from[c] + fetched[c] + j - 1]

\* writeF.Write wrote the slice; written, fetched and *pushed follow.
Push(w) ==
  LET c == job[w]
      n == slice[w]
  IN
  /\ wpc[w] = "push" /\ c \in files
  /\ data' = [data EXCEPT ![c] = @ \o Units(c, n)]
  /\ fetched' = [fetched EXCEPT ![c] = @ + n]
  /\ pushed' = [pushed EXCEPT ![c] = @ + n]
  /\ slice' = [slice EXCEPT ![w] = 0]
  /\ wpc' = [wpc EXCEPT ![w] = "reading"]
  /\ UNCHANGED <<hVars, files, gone, next, fin, err, tries, from, job, active>>

\* The handler closed the spool under the worker.
PushToClosed(w) ==
  /\ wpc[w] = "push" /\ job[w] \notin files
  /\ slice' = [slice EXCEPT ![w] = 0]
  /\ AttemptFails(w)
  /\ UNCHANGED <<hVars, files, gone, next, data, pushed, from, fetched>>

\* The disk refused the slice, or all but its first k units.  What was
\* written counts in written and not in *pushed.
PushFails(w) ==
  LET c == job[w] IN
  /\ wpc[w] = "push" /\ c \in files /\ SpoolFaults
  /\ \E k \in 0 .. slice[w] - 1 : data' = [data EXCEPT ![c] = @ \o Units(c, k)]
  /\ slice' = [slice EXCEPT ![w] = 0]
  /\ AttemptFails(w)
  /\ UNCHANGED <<hVars, files, gone, next, pushed, from, fetched>>

\* Slip: EOF alone is taken for completion.
AnyEOF(c) == TRUE

AllFetched(c) == fetched[c] = Expected(c)

ReadAll(w) ==
  /\ wpc[w] = "reading" /\ AllFetched(job[w])
  /\ Finish(w, "none")
  /\ active' = [active EXCEPT ![w[1]] = @ - 1]
  /\ UNCHANGED <<hVars, files, gone, next, data, tries, pushed, from, fetched, slice>>

\* EOF before or after the requested end, or any other error of Body.Read.
\* The last is possible when every unit has arrived (a reset stream).
ReadFails(w) ==
  /\ wpc[w] = "reading"
  /\ Interrupted \/ w[1] \in Faulty
  /\ AttemptFails(w)
  /\ UNCHANGED <<hVars, files, gone, next, data, pushed, from, fetched, slice>>

-----------------------------------------------------------------------------
\* The client disconnects: net/http cancels the request's context.
ClientLeaves ==
  /\ ClientMayLeave /\ ~gone /\ hpc # "returned"
  /\ gone' = TRUE
  /\ UNCHANGED <<hVars, files, next, cVars, wVars>>

Handler ==
  \/ Snapshot \/ ProbeAgrees \/ ProbeDiffers
  \/ CreateSpool \/ CreateSpoolFails \/ StartWorkers
  \/ DrainWake \/ DrainWrite \/ DrainWriteFails \/ DrainReadFails
  \/ DrainMore \/ DrainNext \/ DrainFails
  \/ CloseSpool \/ Return

\* Steps a worker takes without waiting for the network.
Local(w) ==
  \/ Claim(w) \/ QueueEmpty(w) \/ Abandon(w) \/ EnterFetch(w)
  \/ BeginAttempt(w) \/ GiveUp(w)
  \/ Push(w) \/ PushToClosed(w) \/ PushFails(w)

\* Steps that are an answer of the network.
Network(w) == Refused(w) \/ Accepted(w) \/ ReadSlice(w) \/ ReadAll(w) \/ ReadFails(w)

\* Everything has returned: the download is over.
Over == hpc = "returned" /\ \A w \in Workers : wpc[w] \in {"absent", "exit"}

Rest == Over /\ UNCHANGED vars

Next ==
  \/ Handler
  \/ \E w \in Workers : Local(w) \/ Network(w)
  \/ ClientLeaves
  \/ Rest

Spec == Init /\ [][Next]_vars

(***************************************************************************)
(* The Go scheduler runs every goroutine that can run, and a request or a  *)
(* read whose context has ended returns with an error.                     *)
(***************************************************************************)
SchedulerFairness ==
  /\ WF_vars(Handler)
  /\ \A w \in Workers :
       /\ WF_vars(Local(w))
       /\ WF_vars(Interrupted /\ (Refused(w) \/ ReadFails(w)))

\* The network may stall for ever: no timeout covers a body (Timeout: 0).
StallSpec == Spec /\ SchedulerFairness

\* Every request and every read is eventually answered, well or badly.
FairSpec == StallSpec /\ \A w \in Workers : WF_vars(Network(w))

-----------------------------------------------------------------------------
(***************************************************************************)
(* Properties.                                                             *)
(***************************************************************************)

\* Every variable keeps its type.
TypeOK ==
  /\ hpc \in {"snapshot", "probe", "spool", "wait", "write", "closing", "returned"}
  /\ result \in {"none", "panic", "unsatisfiable", "truncated", "mismatch", "done"}
  /\ IsDecision(d)
  /\ links \subseteq Links
  /\ files \subseteq Slots
  /\ gone \in BOOLEAN /\ cancelled \in BOOLEAN
  /\ next \in Nat /\ next <= MaxChunks
  /\ cur \in Chunks
  /\ dlv \in Nat
  /\ snap \in [avail : Int, done : BOOLEAN, err : {"none", "ctx", "exhausted"}]
  /\ out \in Seq(Int)
  /\ data \in [Slots -> Seq(Int)]
  /\ fin \in [Slots -> BOOLEAN]
  /\ err \in [Slots -> {"none", "ctx", "exhausted"}]
  /\ tries \in [Slots -> Nat]
  /\ pushed \in [Slots -> Nat]
  /\ from \in [Slots -> Int]
  /\ fetched \in [Slots -> Nat]
  /\ wpc \in [Workers -> {"absent", "pull", "exit"} \cup Working]
  /\ job \in [Workers -> Slots \cup {NoChunk}]
  /\ slice \in [Workers -> 0 .. MaxSlice]
  /\ active \in [Links -> Int]

\* The client receives the bytes of the range, in order and without a gap or
\* a repetition, whatever failed and was retried ("The drainer never sees
\* the retry - bytes arrive in order", line 634).
DeliveredPrefix ==
  /\ Len(out) <= RangeSize(d)
  /\ \A i \in 1 .. Len(out) : out[i] = d.effStart + i - 1

\* When the probe contradicts the response's headers, only bytes of the file as
\* the probe saw it are promised and asked for (lines 262-273: "cheap insurance
\* against blowing hours on a bad size").
PromisedIsThere == d \in Decisions \/ d.effEnd < d.total

\* A drain that met no error delivered the whole range: the MISMATCH branch
\* of lines 418-421 is never taken.
NoMismatch == result # "mismatch"

\* A download logged as DONE gave the client exactly the range, even when a
\* spool write failed half way and was retried.
DoneIsExact ==
  result = "done" => out = [i \in 1 .. RangeSize(d) |-> d.effStart + i - 1]

\* A body is cut short only if the client left, a chunk used its whole retry
\* budget, or a server sent more than it was asked for.  In particular the
\* handler's own cancel() never makes an error another chunk is blamed for.
TruncationHasCause ==
  result = "truncated" =>
    \/ gone
    \/ \E c \in Chunks : err[c] = "exhausted" /\ tries[c] = MaxAttempts - 1
    \/ \E c \in Chunks : Len(data[c]) > ChunkLen(d, c)

\* No two workers hold the same chunk, and none holds a finished one: the
\* spool has one writer, so *pushed needs no lock.
OneFetcherPerChunk ==
  \A w \in Workers : wpc[w] \in Working =>
    /\ ~fin[job[w]]
    /\ \A v \in Workers : wpc[v] \in Working /\ job[v] = job[w] => v = w

\* ActiveConns of a link is the number of attempts running on it: every way
\* out of fetchChunkOnce gives back what its first line took.
ActiveIsAttempts ==
  \A l \in Links :
    active[l] = Cardinality({w \in Workers : w[1] = l /\ wpc[w] \in InAttempt})

\* When the handler has returned no temp file is left ("temp files are
\* removed no matter how we exit", lines 334-335).
NoSpoolLeak == hpc = "returned" => files = {}

\* While the client stays, a chunk that nobody holds and nobody will claim
\* has been finished, so the drain that waits for it is woken.
NoOrphanChunk ==
  ~CtxDone =>
    \A c \in Slots : c < next =>
      fin[c] \/ \E w \in Workers : wpc[w] \in Working /\ job[w] = c

\* A spool only grows, at its end, and not at all once its chunk has been
\* finished: what drainTo returned for it stays the truth.
SpoolAppendOnly ==
  [][\A c \in Slots :
       /\ Len(data[c]) <= Len(data'[c])
       /\ SubSeq(data'[c], 1, Len(data[c])) = data[c]
       /\ fin[c] => fin'[c] /\ data'[c] = data[c] /\ err'[c] = err[c]]_vars

\* With a client that stays, the handler returns, however the links behave.
HandlerReturns == <>(hpc = "returned")

\* A client that leaves stops the fetching, even while the network stalls:
\* from some point on no worker runs.
FetchersStop == [](gone => <>[](\A w \in Workers : wpc[w] \in {"absent", "exit"}))

\* Every spool that was created is removed, "no matter how we exit (success,
\* client disconnect, fetcher error)" (lines 334-335).
SpoolsRemoved == files # {} ~> files = {}

\* A chunk whose every byte was pushed is not reported as failed: fetchChunk
\* is "resilient to mid-transfer failures" (line 632).
CompleteChunkNeverFails ==
  \A c \in Chunks : err[c] = "exhausted" => Len(data[c]) # ChunkLen(d, c)

\* While one link of the snapshot never fails, a faulty one does not cut the
\* download: "a dropped link mid-transfer doesn't kill the download"
\* (ARCHITECTURE.md, line 5).
SurvivesLinkLoss == result = "truncated" => gone \/ links \subseteq Faulty

(***************************************************************************)
(* The promise kept to the client.  The download ends in the step in which *)
(* the handler decides how it leaves; the deferred calls are not seen.     *)
(***************************************************************************)
AbstractRange(r) == [first |-> r.effStart, last |-> r.effEnd]

AbstractPhase ==
  CASE result = "done" -> "complete"
    [] result \in {"panic", "unsatisfiable", "truncated", "mismatch"} -> "cut"
    [] result = "none" /\ hpc \in {"snapshot", "probe"} -> "open"
    [] OTHER -> "flowing"

Promise == INSTANCE Download WITH
  Ranges <- {AbstractRange(r) : r \in Decisions},
  range <- AbstractRange(d),
  phase <- AbstractPhase,
  received <- out

\* Every step of the split is a step of the promise or invisible to it.
KeepsPromise == Promise!Spec
=============================================================================
