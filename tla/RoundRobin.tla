----------------------------- MODULE RoundRobin -----------------------------
(***************************************************************************)
(* pickRoundRobin (balancer.go, lines 212-244) as a function: which of the *)
(* healthy links the n-th call takes.  Links are positions of a sequence   *)
(* of weights; b.next only ever counts up.                                 *)
(***************************************************************************)
EXTENDS Integers, Sequences

\* A weight below one counts as one.
Share(w) == IF w < 1 THEN 1 ELSE w

\* UpTo(ws)[i] is the sum of the shares of the first i links.
UpTo(ws) ==
  LET sum[i \in 0 .. Len(ws)] == IF i = 0 THEN 0 ELSE sum[i - 1] + Share(ws[i])
  IN  sum

Total(ws) == UpTo(ws)[Len(ws)]

\* A slip of Slot: `idx -= w` left out.
SlotWithoutSkip(ws, n) ==
  LET fit == {i \in 1 .. Len(ws) : n % Total(ws) < Share(ws[i])} IN
  IF fit = {} THEN Len(ws) ELSE CHOOSE i \in fit : \A j \in fit : i <= j

\* The link whose slots hold next % total: the loop that takes each link's
\* share off idx until idx falls below one.
Slot(ws, n) ==
  CHOOSE i \in 1 .. Len(ws) :
    LET idx == n % Total(ws) IN UpTo(ws)[i - 1] <= idx /\ idx < UpTo(ws)[i]
=============================================================================
