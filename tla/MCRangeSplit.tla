---------------------------- MODULE MCRangeSplit ----------------------------
(***************************************************************************)
(* Constants for checking RangeSplit with TLC.                             *)
(***************************************************************************)
EXTENDS RangeSplitInv, TLC

\* A range of three units in the middle of a file, three chunks of one.
MiddleThree == {[effStart |-> 1, effEnd |-> 3, total |-> 5]}

\* A range of three units whose Content-Range names a total it exceeds, and a
\* whole file of five that gives the last chunk more than the others.
Uneven == {[effStart |-> 1, effEnd |-> 3, total |-> 3],
           [effStart |-> 0, effEnd |-> 4, total |-> 5]}

\* What the probe may say of a five-unit file: nothing, shorter than the
\* range starts, shorter than it ends (down to one unit), longer.
ProbeTotals == {1, 2, 3, 4, 7}

\* One of each of these: it leaves nothing of the range, one unit, all of it.
FewTotals == {1, 2, 7}

NoTotals == {}

Symmetric == Permutations(Links)
=============================================================================
