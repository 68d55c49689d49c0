--------------------------- MODULE SplitDecision ---------------------------
(***************************************************************************)
(* Which answers are fetched again over all links: shouldSplit and         *)
(* parseContentRange (rangesplit.go, lines 67-128 and 173-201).  Pure      *)
(* operators, no state.                                                    *)
(*                                                                         *)
(* An answer is a record of what the two functions look at:                *)
(*   get, status, length       the method is GET; the status; the          *)
(*                             ContentLength, -1 where none is declared    *)
(*   first, last, outOf        the parts of "bytes first-last/outOf" in    *)
(*                             its Content-Range, each a number,           *)
(*                             Malformed, or (outOf) Star                  *)
(*   acceptsRanges, encoded, streaming                                     *)
(*                             its Accept-Ranges, Content-Encoding and     *)
(*                             Content-Type, as the tests class them       *)
(* Numbers are int64 in the source: -MaxInt-1 .. MaxInt here.              *)
(***************************************************************************)
EXTENDS SplitPlan

CONSTANTS MaxInt,      \* the greatest int64
          Threshold,   \* rangeSplitThreshold
          Malformed,   \* a part of the header that is no int64, or absent
          Star         \* the total "*"

Int64 == -MaxInt - 1 .. MaxInt

ASSUME DecisionAssumption ==
  /\ MaxInt \in Nat /\ Threshold \in 2 .. MaxInt
  /\ Malformed \notin Int64 /\ Star \notin Int64 /\ Star # Malformed

\* What the variable holds after one addition or subtraction of two int64.
Wrap(x) == IF x > MaxInt THEN x - 2 * (MaxInt + 1)
           ELSE IF x < -MaxInt - 1 THEN x + 2 * (MaxInt + 1)
           ELSE x

(***************************************************************************)
(* Answers the parser can be given.  first ends at the first dash, so it   *)
(* has no minus sign; last has all that follows up to the slash, so it may *)
(* ("5--3").  A header without its slash or its dash has Malformed first.  *)
(***************************************************************************)
Answers ==
  [get : BOOLEAN, status : {200, 206, 404}, length : -1 .. MaxInt,
   first : (0 .. MaxInt) \cup {Malformed},
   last : Int64 \cup {Malformed},
   outOf : Int64 \cup {Malformed, Star},
   acceptsRanges : BOOLEAN, encoded : BOOLEAN, streaming : BOOLEAN]

\* Slip: the order of the two ends is not looked at.
ParsesUnordered(a) ==
  /\ a.first \in Int64 /\ a.last \in Int64
  /\ a.outOf \in Int64 \cup {Star}

\* The ok of parseContentRange.
Parses(a) ==
  /\ a.first \in Int64 /\ a.last \in Int64 /\ a.last >= a.first
  /\ a.outOf \in Int64 \cup {Star}

\* An unknown total is -1, and shouldSplit wants a positive one.
Sized(a) ==
  \/ a.status = 200 /\ a.length > 0
  \/ a.status = 206 /\ Parses(a) /\ a.outOf # Star /\ a.outOf > 0

DecisionOf(a) ==
  IF a.status = 200
  THEN [effStart |-> 0, effEnd |-> a.length - 1, total |-> a.length]
  ELSE [effStart |-> a.first, effEnd |-> a.last, total |-> a.outOf]

\* rangeSize as line 93 computes it, in two operations.
CandidateSize(r) == Wrap(Wrap(r.effEnd - r.effStart) + 1)

\* A 206 has just honoured a range; a 200 has to say that it would.
ShouldSplit(a, healthy) ==
  /\ a.get /\ Sized(a)
  /\ CandidateSize(DecisionOf(a)) >= Threshold
  /\ healthy >= 2
  /\ a.status = 200 => a.acceptsRanges
  /\ ~a.encoded /\ ~a.streaming
=============================================================================
