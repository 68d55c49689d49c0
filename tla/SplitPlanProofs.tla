--------------------------- MODULE SplitPlanProofs ---------------------------
(***************************************************************************)
(* What shouldSplit lets pass is a range that can be cut, whatever the     *)
(* header says; and the chunks of a split tile the range it was asked for, *)
(* whatever the chunk target, the cap and the range.                       *)
(***************************************************************************)
EXTENDS SplitDecision, TLAPS

(***************************************************************************)
(* The number of chunks is between 2 and maxChunks (computeChunks, lines   *)
(* 221-226).                                                               *)
(***************************************************************************)
LEMMA ChunkCountBounds ==
  ASSUME NEW size \in Nat
  PROVE  /\ ComputeChunks(size) \in Nat
         /\ ComputeChunks(size) >= 2
         /\ ComputeChunks(size) <= MaxChunks
<1>1. size \div ChunkTarget \in Int
  BY PlanAssumption
<1>2. CeilDiv(size) \in Int
  BY <1>1 DEF CeilDiv
<1> QED
  BY <1>2, PlanAssumption DEF ComputeChunks

(***************************************************************************)
(* Integer division, as line 277 of splitAcrossLinks uses it.              *)
(***************************************************************************)
LEMMA DivBounds ==
  ASSUME NEW a \in Nat, NEW n \in Nat, n >= 1
  PROVE  /\ a \div n \in Nat
         /\ n * (a \div n) <= a
         /\ a < n * (a \div n) + n
OBVIOUS

(***************************************************************************)
(* A range the handler may split: it holds at least one byte.              *)
(***************************************************************************)
SplittableRange(d) == /\ d.effStart \in Nat
                      /\ d.effEnd \in Nat
                      /\ d.effStart <= d.effEnd

(***************************************************************************)
(* The facts about starts[] and ends[] (lines 347-355) the other proofs    *)
(* rest on: chunk 0 starts the range, every chunk starts right after the   *)
(* one before it, the last chunk ends the range, and no chunk reaches      *)
(* outside.  So the concatenation of the chunks is the range.              *)
(***************************************************************************)
THEOREM ChunksTile ==
  ASSUME NEW d, SplittableRange(d)
  PROVE  /\ NumChunks(d) \in Nat /\ NumChunks(d) >= 2 /\ NumChunks(d) <= MaxChunks
         /\ ChunkSize(d) \in Nat
         /\ \A i \in Int : ChunkFirst(d, i) \in Int /\ ChunkLast(d, i) \in Int
         /\ ChunkFirst(d, 0) = d.effStart
         /\ ChunkLast(d, NumChunks(d) - 1) = d.effEnd
         /\ \A i \in 0 .. NumChunks(d) - 2 :
               ChunkFirst(d, i + 1) = ChunkLast(d, i) + 1
         /\ \A i \in 0 .. NumChunks(d) - 1 :
               /\ d.effStart <= ChunkFirst(d, i)
               /\ ChunkFirst(d, i) <= ChunkLast(d, i) + 1
               /\ ChunkLast(d, i) <= d.effEnd
<1> DEFINE n == NumChunks(d)
           c == ChunkSize(d)
           s == RangeSize(d)
<1>1. s \in Nat /\ s >= 1
  BY DEF SplittableRange, RangeSize
<1>2. n \in Nat /\ n >= 2 /\ n <= MaxChunks
  BY <1>1, ChunkCountBounds DEF NumChunks
<1>3. c = s \div n
  BY DEF ChunkSize
<1> HIDE DEF n, c, s
<1>4. /\ c \in Nat /\ n * c <= s
  BY <1>1, <1>2, <1>3, DivBounds
<1>5. \A i \in Int : i * c \in Int
  BY <1>4
<1>6. \A i \in Int : ChunkFirst(d, i) = d.effStart + i * c
  BY DEF ChunkFirst, c
<1>7. \A i \in Int : ChunkLast(d, i) = IF i = n - 1 THEN d.effEnd ELSE d.effStart + i * c + c - 1
  BY <1>6 DEF ChunkLast, n, c
<1>8. \A i \in Int : (i + 1) * c = i * c + c
  BY <1>4
<1>9. \A i \in Nat : i * c \in Nat
  BY <1>4
<1>10. (n - 1) * c + c = n * c
  BY <1>2, <1>4
<1>11. s = d.effEnd - d.effStart + 1
  BY DEF s, RangeSize
<1>12. \A i \in Int : ChunkFirst(d, i) \in Int /\ ChunkLast(d, i) \in Int
  BY <1>4, <1>5, <1>6, <1>7 DEF SplittableRange
<1>13. ChunkFirst(d, 0) = d.effStart
  BY <1>4, <1>6 DEF SplittableRange
<1>14. ChunkLast(d, n - 1) = d.effEnd
  BY <1>2, <1>7
<1>15. ASSUME NEW i \in 0 .. n - 2
       PROVE  ChunkFirst(d, i + 1) = ChunkLast(d, i) + 1
  <2>1. i \in Int /\ i + 1 \in Int /\ i # n - 1
    BY <1>2
  <2>2. ChunkFirst(d, i + 1) = d.effStart + (i * c + c)
    BY <2>1, <1>6, <1>8
  <2>3. ChunkLast(d, i) = d.effStart + i * c + c - 1
    BY <2>1, <1>7
  <2> QED
    BY <2>1, <2>2, <2>3, <1>4, <1>5 DEF SplittableRange
<1>16. ASSUME NEW i \in 0 .. n - 1
       PROVE  /\ d.effStart <= ChunkFirst(d, i)
              /\ ChunkFirst(d, i) <= ChunkLast(d, i) + 1
              /\ ChunkLast(d, i) <= d.effEnd
  <2>1. i \in Nat /\ i \in Int /\ i * c \in Nat
    BY <1>2, <1>9
  <2>2. CASE i = n - 1
    <3>1. i * c + c <= s
      BY <2>2, <1>4, <1>10
    <3> QED
      BY <2>1, <2>2, <3>1, <1>4, <1>6, <1>7, <1>11 DEF SplittableRange
  <2>3. CASE i # n - 1
    <3>1. i * c + c <= s
      <4>1. i + 1 \in Nat /\ n - (i + 1) \in Nat /\ n = (i + 1) + (n - (i + 1))
        BY <2>1, <1>2
      <4>2. n * c = (i + 1) * c + (n - (i + 1)) * c /\ (n - (i + 1)) * c \in Nat
        BY <4>1, <1>4
      <4>3. (i + 1) * c = i * c + c
        BY <2>1, <1>8
      <4> QED
        BY <4>2, <4>3, <2>1, <1>1, <1>4
    <3> QED
      BY <2>1, <2>3, <3>1, <1>1, <1>4, <1>6, <1>7, <1>11 DEF SplittableRange
  <2> QED
    BY <2>2, <2>3
<1> QED
  BY <1>2, <1>4, <1>12, <1>13, <1>14, <1>15, <1>16 DEF n, c

(***************************************************************************)
(* A range of two bytes or more gives every chunk at least one byte: no    *)
(* worker then asks for an empty Range.  The range of one byte, which the  *)
(* clamp of lines 265-267 can produce, is the exception.                   *)
(***************************************************************************)
THEOREM ChunksNonempty ==
  ASSUME NEW d, SplittableRange(d), RangeSize(d) >= 2
  PROVE  \A i \in 0 .. NumChunks(d) - 1 : ChunkFirst(d, i) <= ChunkLast(d, i)
<1> DEFINE n == NumChunks(d)
           c == ChunkSize(d)
           s == RangeSize(d)
           whole == s \div ChunkTarget
<1>1. s \in Nat /\ s >= 2 /\ s = d.effEnd - d.effStart + 1
  BY DEF SplittableRange, RangeSize
<1>2. n \in Nat /\ n >= 2
  BY <1>1, ChunkCountBounds DEF NumChunks
<1>3. n <= s
  <2>1. whole \in Nat /\ ChunkTarget * whole <= s
    BY <1>1, PlanAssumption, DivBounds
  <2>2. whole <= ChunkTarget * whole
    BY <2>1, PlanAssumption
  <2>3. CeilDiv(s) = whole + (IF s % ChunkTarget # 0 THEN 1 ELSE 0)
    BY DEF CeilDiv
  <2>4. CASE ChunkTarget = 1
    <3>1. s % ChunkTarget = 0
      BY <2>4, <1>1
    <3> QED
      BY <3>1, <2>1, <2>2, <2>3, <1>1, PlanAssumption DEF NumChunks, ComputeChunks
  <2>5. CASE ChunkTarget >= 2
    <3> HIDE DEF whole, s
    <3>a. \A w, t \in Nat : 2 <= t => 2 * w <= t * w
      OBVIOUS
    <3>b. 2 * whole <= ChunkTarget * whole
      BY <3>a, <2>1, <2>5, PlanAssumption
    <3>1. 2 * whole <= s
      BY <3>b, <2>1, <1>1, PlanAssumption
    <3> USE DEF whole, s
    <3>2. CeilDiv(s) <= whole + 1 /\ CeilDiv(s) \in Int
      BY <2>1, <2>3
    <3>3. CeilDiv(s) <= s
      BY <3>1, <3>2, <2>1, <1>1
    <3> QED
      BY <3>3, <3>2, <1>1, PlanAssumption DEF NumChunks, ComputeChunks
  <2> QED
    BY <2>4, <2>5, PlanAssumption
<1>4. c \in Nat /\ n * c <= s /\ s < n * c + n
  BY <1>1, <1>2, DivBounds DEF ChunkSize
<1>5. c >= 1
  BY <1>2, <1>3, <1>4, <1>1
<1> SUFFICES ASSUME NEW i \in 0 .. n - 1
             PROVE  ChunkFirst(d, i) <= ChunkLast(d, i)
  OBVIOUS
<1> HIDE DEF n, c, s
<1>6. i \in Int /\ i * c \in Int /\ (n - 1) * c + c = n * c
  BY <1>2, <1>4
<1>7. ChunkFirst(d, i) = d.effStart + i * c
  BY DEF ChunkFirst, c
<1>8. CASE i = n - 1
  <2>1. ChunkLast(d, i) = d.effEnd
    BY <1>8 DEF ChunkLast, n
  <2>2. i * c + c <= s
    BY <1>8, <1>6, <1>4
  <2> QED
    BY <2>1, <2>2, <1>1, <1>4, <1>5, <1>6, <1>7 DEF SplittableRange
<1>9. CASE i # n - 1
  <2>1. ChunkLast(d, i) = ChunkFirst(d, i) + c - 1
    BY <1>9 DEF ChunkLast, n, c
  <2> QED
    BY <2>1, <1>4, <1>5, <1>6, <1>7 DEF SplittableRange
<1> QED
  BY <1>8, <1>9

(***************************************************************************)
(* Every answer shouldSplit accepts (lines 67-128) is a range of at least  *)
(* rangeSplitThreshold bytes with both ends in order, though line 93 may   *)
(* overflow and a Content-Range may name an end below zero: it is          *)
(* parseContentRange's e < s that keeps a size that wrapped around from    *)
(* passing for a large one.                                                *)
(***************************************************************************)
THEOREM SplitsAreDecisions ==
  ASSUME NEW a \in Answers, NEW healthy \in Nat, ShouldSplit(a, healthy)
  PROVE  /\ IsDecision(DecisionOf(a))
         /\ DecisionOf(a).effEnd <= MaxInt
         /\ RangeSize(DecisionOf(a)) >= Threshold
<1> DEFINE r == DecisionOf(a)
<1>1. r = [effStart |-> r.effStart, effEnd |-> r.effEnd, total |-> r.total]
  BY DEF DecisionOf
<1>2. /\ r.effStart \in 0 .. MaxInt /\ r.effEnd \in r.effStart .. MaxInt
      /\ r.total \in Nat
  <2>1. CASE a.status = 200 /\ a.length > 0
    BY <2>1, DecisionAssumption DEF Answers, DecisionOf
  <2>2. CASE a.status = 206 /\ Parses(a) /\ a.outOf # Star /\ a.outOf > 0
    <3>1. a.first \in 0 .. MaxInt /\ a.last \in Int64 /\ a.outOf \in Int64
      BY <2>2, DecisionAssumption DEF Answers, Parses
    <3> QED
      BY <2>2, <3>1, DecisionAssumption DEF DecisionOf, Parses, Int64
  <2> QED
    BY <2>1, <2>2 DEF ShouldSplit, Sized
<1>3. CandidateSize(r) >= Threshold
  BY DEF ShouldSplit
<1> HIDE DEF r
<1>4. RangeSize(r) >= Threshold
  BY <1>2, <1>3, DecisionAssumption DEF CandidateSize, Wrap, RangeSize
<1>5. IsDecision(r)
  BY <1>1, <1>2, DecisionAssumption DEF IsDecision
<1> QED
  BY <1>2, <1>4, <1>5, DecisionAssumption DEF r
=============================================================================
