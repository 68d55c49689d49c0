---------------------------- MODULE MCAlgorithms ----------------------------
(***************************************************************************)
(* The sequential parts, each run on every small input: the chunks of a    *)
(* range are laid down one by one, as the loop over starts and ends does,  *)
(* a cycle of round-robin picks is made and counted, records are added to  *)
(* the ring of recent connections, and answers are looked at by            *)
(* shouldSplit.  A behaviour runs one of the four; the others' variables   *)
(* stand still.                                                            *)
(***************************************************************************)
EXTENDS SplitDecision, RoundRobin, RecentConns, FiniteSets

CONSTANTS Starts, Sizes,             \* effStart and the length of the range
          MaxLinks, Weights, Turns   \* healthy links, their weights, b.next

ASSUME AlgorithmsAssumption ==
  /\ Starts \subseteq Nat /\ Sizes \subseteq Nat
  /\ MaxLinks \in Nat /\ Weights \subseteq Int /\ Turns \subseteq Nat

VARIABLES range,  \* the range
          nlaid,  \* chunks laid down
          laid,   \* the offsets they cover, with the chunk each came from
          ws,     \* weights of the healthy links, in order
          first,  \* b.next at the first pick
          calls,  \* picks made since
          taken,  \* link -> times it was returned
          answer, \* an upstream answer
          nlinks, \* healthy links when it came
          verdict \* what shouldSplit says of it

planVars == <<range, nlaid, laid>>
turnVars == <<ws, first, calls, taken>>
answerVars == <<answer, nlinks, verdict>>
vars == <<planVars, turnVars, ring, answerVars>>

RangeOf(s, n) == [effStart |-> s, effEnd |-> s + n - 1]

(***************************************************************************)
(* A plain GET answer, and those that differ from it in the numbers and in *)
(* at most one of the four tests.                                          *)
(***************************************************************************)
Plain == [get |-> TRUE, status |-> 404, length |-> -1,
          first |-> Malformed, last |-> Malformed, outOf |-> Malformed,
          acceptsRanges |-> TRUE, encoded |-> FALSE, streaming |-> FALSE]

WholeOf(n) == [Plain EXCEPT !.status = 200, !.length = n]

PartOf(f, l, t) ==
  [Plain EXCEPT !.status = 206, !.first = f, !.last = l, !.outOf = t]

Whole == {WholeOf(n) : n \in -1 .. MaxInt}

Partial == {PartOf(f, l, t) : f \in (0 .. MaxInt) \cup {Malformed},
                              l \in Int64 \cup {Malformed},
                              t \in {-1, 0, 1, MaxInt, Malformed, Star}}

SmallAnswers ==
  UNION {{a, [a EXCEPT !.get = FALSE], [a EXCEPT !.acceptsRanges = FALSE],
          [a EXCEPT !.encoded = TRUE], [a EXCEPT !.streaming = TRUE]} :
           a \in Whole \cup Partial \cup {Plain}}

NoAnswer == answer = Plain /\ nlinks = 0 /\ verdict = "none"

Init ==
  /\ nlaid = 0 /\ laid = {} /\ calls = 0
  /\ \/ /\ range \in {RangeOf(s, n) : s \in Starts, n \in Sizes}
        /\ ws = <<>> /\ first = 0 /\ NoAnswer
     \/ /\ range = RangeOf(0, 0) /\ NoAnswer
        /\ \E n \in 1 .. MaxLinks : ws \in [1 .. n -> Weights]
        /\ first \in Turns
     \/ /\ range = RangeOf(0, 0)
        /\ ws = <<>> /\ first = 0 /\ NoAnswer
     \/ /\ range = RangeOf(0, 0)
        /\ ws = <<>> /\ first = 0
        /\ answer \in SmallAnswers /\ nlinks \in 1 .. 2 /\ verdict = "asked"
  /\ NewRecentConns
  /\ taken = [l \in DOMAIN ws |-> 0]

Lay ==
  /\ RangeSize(range) > 0 /\ nlaid < NumChunks(range)
  /\ laid' = laid \cup ((ChunkFirst(range, nlaid) .. ChunkLast(range, nlaid)) \X {nlaid})
  /\ nlaid' = nlaid + 1
  /\ UNCHANGED <<range, turnVars, ring, answerVars>>

Call ==
  /\ ws # <<>> /\ calls < Total(ws)
  /\ taken' = [taken EXCEPT ![Slot(ws, first + calls)] = @ + 1]
  /\ calls' = calls + 1
  /\ UNCHANGED <<planVars, ws, first, ring, answerVars>>

AddRecord ==
  /\ ws = <<>> /\ RangeSize(range) = 0 /\ verdict = "none" /\ RingNext
  /\ UNCHANGED <<planVars, turnVars, answerVars>>

Ask ==
  /\ verdict = "asked"
  /\ verdict' = IF ShouldSplit(answer, nlinks) THEN "split" ELSE "stream"
  /\ UNCHANGED <<planVars, turnVars, ring, answer, nlinks>>

Next == Lay \/ Call \/ AddRecord \/ Ask

Spec == Init /\ [][Next]_vars

Covered == {p[1] : p \in laid}

\* The chunks laid down cover the range from its start without a gap, none
\* twice, and the last of them ends it (starts[] and ends[], lines 347-355).
\* There are at least two and at most maxChunks; below the cap no chunk but
\* the last is larger than the target, and a range of two bytes or more has no
\* empty one.
Tiling ==
  RangeSize(range) > 0 =>
    /\ Cardinality(laid) = Cardinality(Covered)
    /\ Covered = range.effStart .. (IF nlaid = NumChunks(range) THEN range.effEnd
                                    ELSE ChunkFirst(range, nlaid) - 1)
    /\ NumChunks(range) \in 2 .. MaxChunks
    /\ NumChunks(range) < MaxChunks => ChunkSize(range) <= ChunkTarget
    /\ RangeSize(range) >= 2 =>
         \A c \in 0 .. NumChunks(range) - 1 : ChunkFirst(range, c) <= ChunkLast(range, c)

\* The offsets an answer says its body holds.
Bytes(a) ==
  IF a.status = 200 THEN 0 .. a.length - 1
  ELSE IF a.first = Malformed \/ a.last = Malformed THEN {}
  ELSE a.first .. a.last

\* An answer that is split has at least rangeSplitThreshold bytes and is a
\* range splitAcrossLinks can cut: no border of its chunks overflows.  An
\* answer is kept on one link only for a cause: too few bytes, links or proofs
\* of range support, or a length that is no int64 itself (line 93 overflows).
DecisionIsSound ==
  /\ verdict = "split" =>
       LET r == DecisionOf(answer) IN
       /\ IsDecision(r) /\ RangeSize(r) = Cardinality(Bytes(answer))
       /\ RangeSize(r) >= Threshold
       /\ \A c \in 0 .. NumChunks(r) - 1 :
            {c * ChunkSize(r), ChunkFirst(r, c), ChunkLast(r, c)} \subseteq Int64
  /\ verdict = "stream" =>
       \/ Cardinality(Bytes(answer)) \notin Threshold .. MaxInt
       \/ nlinks < 2 \/ ~answer.get \/ answer.encoded \/ answer.streaming
       \/ answer.status = 200 /\ ~answer.acceptsRanges
       \/ answer.status = 206 /\ answer.outOf \notin 1 .. MaxInt

\* A cycle of picks gives every healthy link exactly its weight, wherever the
\* cycle starts, and no link is ahead of its weight within it ("weighted
\* round-robin", balancer.go line 148).
FairShare ==
  ws # <<>> =>
    /\ \A l \in DOMAIN ws : taken[l] <= Share(ws[l])
    /\ calls = Total(ws) => \A l \in DOMAIN ws : taken[l] = Share(ws[l])
=============================================================================
