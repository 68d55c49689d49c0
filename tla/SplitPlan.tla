----------------------------- MODULE SplitPlan -----------------------------
(***************************************************************************)
(* How splitAcrossLinks cuts a byte range into chunks (rangesplit.go).     *)
(* Pure operators, no state.  A range is [effStart, effEnd], both ends     *)
(* included, as in the splitDecision of the source; a chunk is an index    *)
(* 0 .. n-1 with its own inclusive bounds.                                 *)
(***************************************************************************)
EXTENDS Integers

CONSTANTS ChunkTarget,   \* chunkTargetSize: the length a chunk aims at
          MaxChunks      \* maxChunks: at most this many chunks (and spools)

ASSUME PlanAssumption ==
  /\ ChunkTarget \in Nat /\ ChunkTarget >= 1
  /\ MaxChunks \in Nat /\ MaxChunks >= 2

(***************************************************************************)
(* A splitDecision as shouldSplit lets it pass (SplitDecision).  Nothing   *)
(* there or in parseContentRange compares the end with the total.          *)
(***************************************************************************)
IsDecision(r) ==
  /\ r \in [effStart : Nat, effEnd : Nat, total : Nat]
  /\ r.effStart <= r.effEnd

(***************************************************************************)
(* computeChunks: ceil(size / chunkTargetSize) clamped to [2, maxChunks].  *)
(***************************************************************************)
CeilDiv(size) ==
  size \div ChunkTarget + (IF size % ChunkTarget # 0 THEN 1 ELSE 0)

\* Slip: the cap on the number of chunks is forgotten.
UncappedChunks(size) == IF CeilDiv(size) < 2 THEN 2 ELSE CeilDiv(size)

ComputeChunks(size) ==
  IF CeilDiv(size) < 2 THEN 2
  ELSE IF CeilDiv(size) > MaxChunks THEN MaxChunks
  ELSE CeilDiv(size)

RangeSize(d) == d.effEnd - d.effStart + 1

NumChunks(d) == ComputeChunks(RangeSize(d))

ChunkSize(d) == RangeSize(d) \div NumChunks(d)

(***************************************************************************)
(* starts[i] and ends[i].  The division rounds down; what it leaves over   *)
(* goes to the last chunk, whose end is effEnd itself.                     *)
(***************************************************************************)
ChunkFirst(d, i) == d.effStart + i * ChunkSize(d)

\* Slip: the last chunk ends where an ordinary chunk would.
PlainChunkLast(d, i) == ChunkFirst(d, i) + ChunkSize(d) - 1

ChunkLast(d, i) ==
  IF i = NumChunks(d) - 1 THEN d.effEnd
                          ELSE ChunkFirst(d, i) + ChunkSize(d) - 1

ChunkLen(d, i) == ChunkLast(d, i) - ChunkFirst(d, i) + 1
=============================================================================
