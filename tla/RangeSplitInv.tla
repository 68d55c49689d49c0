--------------------------- MODULE RangeSplitInv ---------------------------
(***************************************************************************)
(* The inductive invariants behind the theorems of RangeSplitProofs and    *)
(* DownloadProofs, apart so that TLC can check them too.  DeliveryInv      *)
(* holds when the spools do not fail: a partial write breaks               *)
(* SpoolContents, and with it what the client gets.  ExactInv, at the end, *)
(* needs no such assumption.                                               *)
(***************************************************************************)
EXTENDS RangeSplit

(***************************************************************************)
(* The handler's and the workers' positions agree with what they hold: a   *)
(* working worker holds a chunk of the plan, and the drain is never past   *)
(* the end of the spool it reads.                                          *)
(***************************************************************************)
JobsInPlan ==
  \A w \in Workers : wpc[w] \in Working => job[w] \in Chunks

DrainInSpool ==
  /\ dlv <= Len(data[cur])
  /\ hpc = "write" => snap.avail >= 0 /\ dlv + snap.avail <= Len(data[cur])

\* Until the workers start, nothing has been drained, claimed or spooled.
BeforeStart ==
  hpc \in {"snapshot", "probe", "spool"} =>
    /\ cur = 0 /\ dlv = 0 /\ next = 0 /\ out = <<>>
    /\ \A w \in Workers : wpc[w] = "absent"
    /\ \A c \in Slots : data[c] = <<>> /\ ~fin[c] /\ pushed[c] = 0

TypeInv == TypeOK /\ JobsInPlan /\ DrainInSpool /\ BeforeStart

\* A spool holds a prefix of its chunk, and *pushed is its length.
SpoolContents ==
  \A c \in Slots :
    /\ Len(data[c]) = pushed[c]
    /\ \A j \in 1 .. Len(data[c]) : data[c][j] = ChunkFirst(d, c) + j - 1

\* The next unit of a running attempt is the next unit of the spool.
AttemptAligned ==
  \A w \in Workers : wpc[w] \in InAttempt =>
    from[job[w]] + fetched[job[w]] = ChunkFirst(d, job[w]) + pushed[job[w]]

\* Chunks leave the queue in order; only those that left it are worked on.
QueueOrder ==
  /\ \A w \in Workers : wpc[w] \in Working => job[w] < next
  /\ \A c \in Slots : fin[c] => c < next

\* A chunk that finished without an error is complete.
FinishedComplete ==
  \A c \in Chunks : fin[c] /\ err[c] = "none" => pushed[c] = ChunkLen(d, c)

\* What the drain delivered ends where it stands in the current chunk.
DrainPosition == Len(out) = ChunkFirst(d, cur) - d.effStart + dlv

\* done and err, once read under the mutex, stay true.
SnapTruth ==
  hpc = "write" /\ snap.done => fin[cur] /\ snap.err = err[cur]

\* The handler has no result before it leaves, and DONE is the whole range.
ResultTruth ==
  /\ hpc \notin {"closing", "returned"} => result = "none"
  /\ result = "done" => Len(out) = RangeSize(d)
  /\ result # "mismatch"

DeliveryInv ==
  /\ TypeInv /\ SpoolContents /\ AttemptAligned /\ OneFetcherPerChunk /\ QueueOrder
  /\ FinishedComplete /\ DrainPosition /\ SnapTruth /\ ResultTruth /\ DeliveredPrefix

(***************************************************************************)
(* What holds even when spool writes fail half way.  A chunk that left the *)
(* queue is finished or has one worker, unless the context ended.          *)
(***************************************************************************)
Ownership == TypeInv /\ QueueOrder /\ OneFetcherPerChunk /\ NoOrphanChunk

\* A partial write leaves a spool longer than *pushed, for ever; until then
\* the spool is a prefix of its chunk.
Sound(c) == Len(data[c]) = pushed[c]

SpoolSound ==
  \A c \in Slots :
    /\ Len(data[c]) >= pushed[c]
    /\ Sound(c) => \A j \in 1 .. Len(data[c]) : data[c][j] = ChunkFirst(d, c) + j - 1

\* So the drain never delivers less than its position says.  If it delivered
\* no more and its chunk is sound, all of it is in order.
DrainAhead == Len(out) >= ChunkFirst(d, cur) - d.effStart + dlv

OutSound ==
  DrainPosition /\ Sound(cur) => \A i \in 1 .. Len(out) : out[i] = d.effStart + i - 1

DoneTruth ==
  /\ hpc \notin {"closing", "returned"} => result = "none"
  /\ DoneIsExact

WorkExact  == AttemptAligned /\ FinishedComplete /\ SpoolSound
DrainExact == SnapTruth /\ DrainAhead /\ OutSound /\ DoneTruth

ExactInv == Ownership /\ WorkExact /\ DrainExact
=============================================================================
