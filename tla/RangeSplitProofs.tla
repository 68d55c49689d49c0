-------------------------- MODULE RangeSplitProofs --------------------------
(***************************************************************************)
(* Theorems of RangeSplit, for every number of links, workers, attempts    *)
(* and chunks, and every range.                                            *)
(***************************************************************************)
EXTENDS RangeSplitInv, SplitPlanProofs, FiniteSetTheorems

(***************************************************************************)
(* What the plan's theorems say of the current decision.                   *)
(***************************************************************************)
LEMMA PlanOf ==
  ASSUME NEW r, IsDecision(r)
  PROVE  /\ NumChunks(r) \in Nat /\ NumChunks(r) >= 2 /\ NumChunks(r) <= MaxChunks
         /\ 0 .. NumChunks(r) - 1 \subseteq Slots
         /\ RangeSize(r) \in Nat
         /\ \A c \in Slots : ChunkFirst(r, c) \in Int /\ ChunkLast(r, c) \in Int
<1>1. SplittableRange(r)
  BY DEF IsDecision, SplittableRange
<1>2. /\ NumChunks(r) \in Nat /\ NumChunks(r) >= 2 /\ NumChunks(r) <= MaxChunks
      /\ \A i \in Int : ChunkFirst(r, i) \in Int /\ ChunkLast(r, i) \in Int
  BY <1>1, ChunksTile
<1> QED
  BY <1>1, <1>2, PlanAssumption DEF Slots, RangeSize, SplittableRange

LEMMA PlanFacts ==
  ASSUME IsDecision(d)
  PROVE  /\ NumChunks(d) \in Nat /\ NumChunks(d) >= 2 /\ NumChunks(d) <= MaxChunks
         /\ Chunks \subseteq Slots
         /\ 0 \in Chunks
         /\ RangeSize(d) \in Nat
         /\ \A c \in Slots : ChunkFirst(d, c) \in Int /\ ChunkLast(d, c) \in Int
BY PlanOf DEF Chunks

LEMMA AdjustedIsDecision ==
  ASSUME IsDecision(d), NEW t \in Nat, d.effStart < t
  PROVE  IsDecision(Adjusted(t))
<1> DEFINE e == Min2(d.effEnd, t - 1)
<1>1. e \in Nat /\ d.effStart <= e /\ e < t
  BY DEF IsDecision, Min2
<1>2. d \in [effStart : Nat, effEnd : Nat, total : Nat]
  BY DEF IsDecision
<1> HIDE DEF e
<1>3. Adjusted(t) = [d EXCEPT !.effEnd = e, !.total = t]
  BY DEF Adjusted, e
<1>4. Adjusted(t) = [effStart |-> d.effStart, effEnd |-> e, total |-> t]
  BY <1>2, <1>3
<1> QED
  BY <1>1, <1>2, <1>4 DEF IsDecision

LEMMA InitTypeInv == Init => TypeInv
<1> SUFFICES ASSUME Init PROVE TypeInv
  OBVIOUS
<1>1. IsDecision(d)
  BY SplitAssumption DEF Init
<1>2. TypeOK
  <2>1. /\ hpc \in {"snapshot", "probe", "spool", "wait", "write", "closing", "returned"}
        /\ result \in {"none", "panic", "unsatisfiable", "truncated", "mismatch", "done"}
        /\ links \subseteq Links /\ files \subseteq Slots
        /\ gone \in BOOLEAN /\ cancelled \in BOOLEAN
    BY DEF Init
  <2>2. /\ next \in Nat /\ next <= MaxChunks /\ cur \in Chunks /\ dlv \in Nat
    BY <1>1, PlanFacts, PlanAssumption DEF Init
  <2>3. /\ snap \in [avail : Int, done : BOOLEAN, err : {"none", "ctx", "exhausted"}]
        /\ out \in Seq(Int)
    BY DEF Init
  <2>4. /\ data \in [Slots -> Seq(Int)]
        /\ fin \in [Slots -> BOOLEAN]
        /\ err \in [Slots -> {"none", "ctx", "exhausted"}]
        /\ tries \in [Slots -> Nat] /\ pushed \in [Slots -> Nat]
        /\ from \in [Slots -> Int] /\ fetched \in [Slots -> Nat]
    BY DEF Init
  <2>5. /\ wpc \in [Workers -> {"absent", "pull", "exit"} \cup Working]
        /\ job \in [Workers -> Slots \cup {NoChunk}]
        /\ slice \in [Workers -> 0 .. MaxSlice]
        /\ active \in [Links -> Int]
    BY SplitAssumption DEF Init
  <2> QED
    BY <1>1, <2>1, <2>2, <2>3, <2>4, <2>5 DEF TypeOK
<1>3. JobsInPlan /\ DrainInSpool /\ BeforeStart
  BY <1>1, PlanFacts
     DEF Init, JobsInPlan, DrainInSpool, BeforeStart, Working, InAttempt
<1> QED
  BY <1>2, <1>3 DEF TypeInv

LEMMA FinishTypes ==
  ASSUME TypeOK, NEW w \in Workers, NEW e \in {"none", "ctx", "exhausted"}, Finish(w, e)
  PROVE  /\ fin' \in [Slots -> BOOLEAN]
         /\ err' \in [Slots -> {"none", "ctx", "exhausted"}]
         /\ wpc' \in [Workers -> {"absent", "pull", "exit"} \cup Working]
         /\ wpc' = [wpc EXCEPT ![w] = "pull"]
         /\ job' = [job EXCEPT ![w] = NoChunk]
         /\ job' \in [Workers -> Slots \cup {NoChunk}]
BY DEF TypeOK, Finish

LEMMA AttemptFailsTypes ==
  ASSUME TypeOK, NEW w \in Workers, AttemptFails(w)
  PROVE  /\ fin' \in [Slots -> BOOLEAN]
         /\ err' \in [Slots -> {"none", "ctx", "exhausted"}]
         /\ tries' \in [Slots -> Nat]
         /\ wpc' \in [Workers -> {"absent", "pull", "exit"} \cup Working]
         /\ job' \in [Workers -> Slots \cup {NoChunk}]
         /\ active' \in [Links -> Int]
         /\ \A v \in Workers : v # w => wpc'[v] = wpc[v] /\ job'[v] = job[v]
         /\ \/ wpc'[w] = "pull" /\ job'[w] = NoChunk
            \/ wpc'[w] = "try" /\ job'[w] = job[w]
<1>1. active' \in [Links -> Int]
  <2>1. w[1] \in Links
    BY DEF Workers
  <2> QED
    BY <2>1 DEF AttemptFails, LinkReleased, TypeOK
<1>2. CASE \E e \in {"ctx", "exhausted"} : Finish(w, e) /\ UNCHANGED tries
  BY <1>1, <1>2, FinishTypes DEF TypeOK
<1>3. CASE /\ tries' = [tries EXCEPT ![job[w]] = @ + 1]
           /\ wpc' = [wpc EXCEPT ![w] = "try"]
           /\ UNCHANGED <<fin, err, job>>
  <2>1. tries' \in [Slots -> Nat]
    <3>1. \A c \in Slots : tries[c] \in Nat /\ tries[c] + 1 \in Nat
      BY DEF TypeOK
    <3>2. /\ DOMAIN tries' = Slots
          /\ \A c \in Slots : tries'[c] = IF c = job[w] THEN tries[c] + 1 ELSE tries[c]
      BY <1>3 DEF TypeOK
    <3>3. tries' = [c \in Slots |-> tries'[c]]
      BY <1>3, <3>2 DEF TypeOK
    <3>4. \A c \in Slots : tries'[c] \in Nat
      BY <3>1, <3>2
    <3> QED
      BY <3>3, <3>4
  <2>2. wpc' \in [Workers -> {"absent", "pull", "exit"} \cup Working]
    BY <1>3 DEF TypeOK, Working
  <2> QED
    BY <1>1, <1>3, <2>1, <2>2 DEF TypeOK
<1> QED
  BY <1>2, <1>3 DEF AttemptFails

(***************************************************************************)
(* What TypeInv says of the chunk under the drain.                         *)
(***************************************************************************)
LEMMA DrainFacts ==
  ASSUME TypeInv
  PROVE  /\ IsDecision(d) /\ cur \in Chunks /\ cur \in Slots /\ cur \in Nat
         /\ data[cur] \in Seq(Int) /\ Len(data[cur]) \in Nat
         /\ fin[cur] \in BOOLEAN /\ err[cur] \in {"none", "ctx", "exhausted"}
         /\ dlv \in Nat /\ dlv <= Len(data[cur])
         /\ snap.avail \in Int
<1>1. IsDecision(d) /\ cur \in Chunks /\ dlv \in Nat /\ snap.avail \in Int
  BY DEF TypeInv, TypeOK
<1>2. cur \in Slots /\ cur \in Nat
  BY <1>1, PlanFacts DEF Slots
<1>3. data[cur] \in Seq(Int) /\ Len(data[cur]) \in Nat
  BY <1>2 DEF TypeInv, TypeOK
<1>4. fin[cur] \in BOOLEAN /\ err[cur] \in {"none", "ctx", "exhausted"}
  BY <1>2 DEF TypeInv, TypeOK
<1> QED
  BY <1>1, <1>2, <1>3, <1>4 DEF TypeInv, DrainInSpool

(***************************************************************************)
(* The workers' part of TypeOK, and what is left to show of TypeInv when a *)
(* step leaves the handler's part alone.                                   *)
(***************************************************************************)
WorkTypes ==
  /\ next \in Nat /\ next <= MaxChunks
  /\ data \in [Slots -> Seq(Int)]
  /\ fin \in [Slots -> BOOLEAN]
  /\ err \in [Slots -> {"none", "ctx", "exhausted"}]
  /\ tries \in [Slots -> Nat]
  /\ pushed \in [Slots -> Nat]
  /\ from \in [Slots -> Int]
  /\ fetched \in [Slots -> Nat]
  /\ wpc \in [Workers -> {"absent", "pull", "exit"} \cup Working]
  /\ job \in [Workers -> Slots \cup {NoChunk}]
  /\ slice \in [Workers -> 0 .. MaxSlice]
  /\ active \in [Links -> Int]

LEMMA WorkTypesHold == TypeInv => WorkTypes
BY DEF TypeInv, TypeOK, WorkTypes

LEMMA HandlerFrame ==
  ASSUME TypeInv, UNCHANGED <<hVars, files>>, gone' \in BOOLEAN, WorkTypes'
  PROVE  TypeOK'
<1>1. /\ hpc' = hpc /\ result' = result /\ d' = d /\ links' = links
      /\ cancelled' = cancelled /\ cur' = cur /\ dlv' = dlv /\ snap' = snap
      /\ out' = out /\ files' = files
  BY DEF hVars
<1>2. Chunks' = Chunks
  BY <1>1 DEF Chunks
<1>3. TypeOK
  BY DEF TypeInv
<1>4. /\ hpc' \in {"snapshot", "probe", "spool", "wait", "write", "closing", "returned"}
      /\ result' \in {"none", "panic", "unsatisfiable", "truncated", "mismatch", "done"}
      /\ IsDecision(d') /\ links' \subseteq Links /\ files' \subseteq Slots
      /\ gone' \in BOOLEAN /\ cancelled' \in BOOLEAN
  BY <1>1, <1>3 DEF TypeOK
<1>5. /\ cur' \in Chunks' /\ dlv' \in Nat /\ out' \in Seq(Int)
      /\ snap' \in [avail : Int, done : BOOLEAN, err : {"none", "ctx", "exhausted"}]
  BY <1>1, <1>2, <1>3 DEF TypeOK
<1> QED
  BY <1>4, <1>5 DEF TypeOK, WorkTypes

LEMMA WorkFrame ==
  ASSUME TypeInv, hpc \notin {"snapshot", "probe", "spool"},
         UNCHANGED <<hVars, files, gone>>, WorkTypes', JobsInPlan',
         data' = data \/ \A b \in Slots : Len(data'[b]) >= Len(data[b])
  PROVE  TypeInv'
<1>1. TypeOK'
  BY HandlerFrame DEF TypeInv, TypeOK
<1>2. cur' = cur /\ dlv' = dlv /\ snap' = snap /\ hpc' = hpc
  BY DEF hVars
<1>3. DrainInSpool'
  <2>1. CASE data' = data
    BY <1>2, <2>1 DEF TypeInv, DrainInSpool
  <2>2. CASE \A b \in Slots : Len(data'[b]) >= Len(data[b])
    <3>1. /\ Len(data[cur]) \in Nat /\ Len(data'[cur]) \in Nat
          /\ Len(data'[cur]) >= Len(data[cur]) /\ dlv \in Nat /\ snap.avail \in Int
      BY <2>2, DrainFacts DEF WorkTypes
    <3> QED
      BY <1>2, <3>1 DEF TypeInv, DrainInSpool
  <2> QED
    BY <2>1, <2>2
<1>4. BeforeStart'
  BY <1>2 DEF BeforeStart
<1> QED
  BY <1>1, <1>3, <1>4 DEF TypeInv

LEMMA QuietFrame ==
  ASSUME TypeInv, UNCHANGED <<hVars, files, next, cVars, wVars>>, gone' \in BOOLEAN
  PROVE  TypeInv'
<1>1. /\ hpc' = hpc /\ d' = d /\ cur' = cur /\ dlv' = dlv /\ snap' = snap /\ out' = out
      /\ next' = next /\ data' = data /\ fin' = fin /\ err' = err /\ tries' = tries
      /\ pushed' = pushed /\ from' = from /\ fetched' = fetched
      /\ wpc' = wpc /\ job' = job /\ slice' = slice /\ active' = active
  BY DEF hVars, cVars, wVars
<1>2. WorkTypes'
  BY <1>1, WorkTypesHold DEF WorkTypes
<1>3. TypeOK'
  BY <1>2, HandlerFrame
<1>4. JobsInPlan'
  BY <1>1 DEF TypeInv, JobsInPlan, Chunks
<1>5. DrainInSpool'
  BY <1>1 DEF TypeInv, DrainInSpool
<1>6. BeforeStart'
  BY <1>1 DEF TypeInv, BeforeStart
<1> QED
  BY <1>3, <1>4, <1>5, <1>6 DEF TypeInv

LEMMA HandlerTypeInv == TypeInv /\ Handler => TypeInv'
<1> SUFFICES ASSUME TypeInv, Handler PROVE TypeInv'
  OBVIOUS
<1>1. CASE Snapshot
  BY <1>1
     DEF Snapshot,
         TypeInv, TypeOK, JobsInPlan, DrainInSpool, BeforeStart, Chunks,
         hVars, cVars, wVars
<1>2. CASE ProbeAgrees
  BY <1>2
     DEF ProbeAgrees,
         TypeInv, TypeOK, JobsInPlan, DrainInSpool, BeforeStart, Chunks,
         hVars, cVars, wVars
<1>3. CASE ProbeDiffers
  <2>1. PICK t \in Totals \ {0, d.total} :
          IF d.effStart >= t
          THEN hpc' = "returned" /\ result' = "unsatisfiable" /\ UNCHANGED d
          ELSE hpc' = "spool" /\ d' = Adjusted(t) /\ UNCHANGED result
    BY <1>3 DEF ProbeDiffers
  <2>2. t \in Nat /\ d.effStart \in Nat /\ IsDecision(d)
    BY DrainFacts, SplitAssumption DEF IsDecision
  <2>3. IsDecision(d')
    BY <2>1, <2>2, AdjustedIsDecision
  <2>4. 0 \in 0 .. NumChunks(d') - 1
    BY <2>3, PlanOf
  <2>5. cur = 0
    BY <1>3 DEF ProbeDiffers, TypeInv, BeforeStart
  <2>6. \A w \in Workers : wpc[w] \notin Working
    BY <1>3 DEF ProbeDiffers, TypeInv, BeforeStart, Working, InAttempt
  <2>7. hpc' \in {"spool", "returned"} /\ (hpc' = "returned" => result' = "unsatisfiable")
        /\ (hpc' = "spool" => UNCHANGED result)
    BY <2>1
  <2> QED
    BY <1>3, <2>3, <2>4, <2>5, <2>6, <2>7
       DEF ProbeDiffers,
           TypeInv, TypeOK, JobsInPlan, DrainInSpool, BeforeStart, Chunks,
           hVars, cVars, wVars
<1>4. CASE CreateSpool
  <2>1. files' \subseteq Slots
    <3>1. PICK c \in Chunks : files' = 0 .. c
      BY <1>4 DEF CreateSpool
    <3>2. NumChunks(d) \in Nat /\ NumChunks(d) <= MaxChunks
      BY DrainFacts, PlanFacts
    <3>3. c \in Nat /\ c <= MaxChunks - 1
      BY <3>2, PlanAssumption DEF Chunks
    <3> QED
      BY <3>1, <3>3, PlanAssumption DEF Slots
  <2> QED
    BY <1>4, <2>1
       DEF CreateSpool,
           TypeInv, TypeOK, JobsInPlan, DrainInSpool, BeforeStart, Chunks,
           hVars, cVars, wVars
<1>5. CASE CreateSpoolFails
  BY <1>5
     DEF CreateSpoolFails,
         TypeInv, TypeOK, JobsInPlan, DrainInSpool, BeforeStart, Chunks,
         hVars, cVars, wVars
<1>6. CASE StartWorkers
  <2>1. wpc' \in [Workers -> {"absent", "pull", "exit"} \cup Working]
    BY <1>6 DEF StartWorkers
  <2>2. \A w \in Workers : wpc'[w] \notin Working
    BY <1>6 DEF StartWorkers, Working, InAttempt
  <2> QED
    BY <1>6, <2>1, <2>2
       DEF StartWorkers,
           TypeInv, TypeOK, JobsInPlan, DrainInSpool, BeforeStart, Chunks,
           hVars, cVars, wVars
<1>7. CASE DrainWake
  <2>2. snap' = [avail |-> Len(data[cur]) - dlv, done |-> fin[cur], err |-> err[cur]]
    BY <1>7 DEF DrainWake
  <2>3. snap' \in [avail : Int, done : BOOLEAN, err : {"none", "ctx", "exhausted"}]
    BY <2>2, DrainFacts
  <2>4. snap'.avail >= 0 /\ dlv + snap'.avail <= Len(data[cur])
    BY <2>2, DrainFacts
  <2> QED
    BY <1>7, <2>3, <2>4
       DEF DrainWake,
           TypeInv, TypeOK, JobsInPlan, DrainInSpool, BeforeStart, Chunks,
           hVars, cVars, wVars
<1>8. CASE DrainWrite
  <2> DEFINE k == WriteLen
  <2>1. data[cur] \in Seq(Int) /\ Len(data[cur]) \in Nat /\ dlv \in Nat
    BY DrainFacts
  <2>2. snap.avail \in Int /\ snap.avail > 0 /\ dlv + snap.avail <= Len(data[cur])
    BY <1>8, DrainFacts DEF DrainWrite, TypeInv, DrainInSpool
  <2>3. k \in Nat /\ k >= 1 /\ k <= snap.avail
    BY <2>2, SplitAssumption DEF WriteLen, Min2
  <2> HIDE DEF k
  <2>4. SubSeq(data[cur], dlv + 1, dlv + k) \in Seq(Int)
    BY <2>1, <2>2, <2>3
  <2>5. /\ out' = out \o SubSeq(data[cur], dlv + 1, dlv + k)
        /\ snap' = [snap EXCEPT !.avail = @ - k]
    BY <1>8 DEF DrainWrite, k
  <2>9. dlv' = dlv + k
    BY <1>8 DEF DrainWrite, k
  <2>6. out' \in Seq(Int)
    BY <2>4, <2>5 DEF TypeInv, TypeOK
  <2>7. snap' \in [avail : Int, done : BOOLEAN, err : {"none", "ctx", "exhausted"}]
        /\ snap'.avail = snap.avail - k
    <3>1. snap \in [avail : Int, done : BOOLEAN, err : {"none", "ctx", "exhausted"}]
      BY DEF TypeInv, TypeOK
    <3> QED
      BY <3>1, <2>2, <2>3, <2>5
  <2>8. /\ dlv' \in Nat /\ dlv' <= Len(data[cur])
        /\ snap'.avail >= 0 /\ dlv' + snap'.avail <= Len(data[cur])
    BY <2>1, <2>2, <2>3, <2>7, <2>9
  <2> QED
    BY <1>8, <2>6, <2>7, <2>8
       DEF DrainWrite,
           TypeInv, TypeOK, JobsInPlan, DrainInSpool, BeforeStart, Chunks,
           hVars, cVars, wVars
<1>9. CASE DrainWriteFails \/ DrainReadFails
  BY <1>9
     DEF DrainWriteFails, DrainReadFails, Truncate, Leave,
         TypeInv, TypeOK, JobsInPlan, DrainInSpool, BeforeStart, Chunks,
         hVars, cVars, wVars
<1>10. CASE DrainMore
  BY <1>10
     DEF DrainMore,
         TypeInv, TypeOK, JobsInPlan, DrainInSpool, BeforeStart, Chunks,
         hVars, cVars, wVars
<1>11. CASE DrainNext
  <2>1. CASE cur + 1 \in Chunks
    <3>1. cur' = cur + 1 /\ dlv' = 0 /\ hpc' = "wait" /\ UNCHANGED result
      BY <1>11, <2>1 DEF DrainNext
    <3>2. cur' \in Slots
      BY <2>1, <3>1, DrainFacts, PlanFacts
    <3>3. Len(data[cur']) \in Nat
      BY <3>2 DEF TypeInv, TypeOK
    <3>4. cur' \in Chunks
      BY <2>1, <3>1
    <3>5. dlv' = 0 /\ hpc' = "wait"
      BY <3>1
    <3>6. UNCHANGED <<d, links, cancelled, snap, out, files, gone, next, cVars, wVars, result>>
      BY <1>11, <3>1 DEF DrainNext
    <3>7. TypeOK'
      BY <3>1, <3>4, <3>6 DEF TypeInv, TypeOK, Chunks, cVars, wVars
    <3>8. JobsInPlan' /\ BeforeStart'
      BY <3>5, <3>6 DEF TypeInv, JobsInPlan, BeforeStart, Chunks, wVars
    <3>9. DrainInSpool'
      BY <3>3, <3>5, <3>6 DEF DrainInSpool, cVars
    <3> QED
      BY <3>7, <3>8, <3>9 DEF TypeInv
  <2>2. CASE cur + 1 \notin Chunks
    BY <1>11, <2>2
       DEF DrainNext, Leave,
           TypeInv, TypeOK, JobsInPlan, DrainInSpool, BeforeStart, Chunks, hVars, cVars, wVars
  <2> QED
    BY <2>1, <2>2
<1>12. CASE DrainFails
  BY <1>12
     DEF DrainFails, Truncate, Leave,
         TypeInv, TypeOK, JobsInPlan, DrainInSpool, BeforeStart, Chunks,
         hVars, cVars, wVars
<1>13. CASE CloseSpool
  BY <1>13
     DEF CloseSpool,
         TypeInv, TypeOK, JobsInPlan, DrainInSpool, BeforeStart, Chunks,
         hVars, cVars, wVars
<1>14. CASE Return
  BY <1>14
     DEF Return,
         TypeInv, TypeOK, JobsInPlan, DrainInSpool, BeforeStart, Chunks,
         hVars, cVars, wVars
<1> QED
  BY <1>1, <1>2, <1>3, <1>4, <1>5, <1>6, <1>7, <1>8, <1>9, <1>10, <1>11, <1>12, <1>13, <1>14 DEF Handler

(***************************************************************************)
(* Appending units to a spool keeps its type and what it held.             *)
(***************************************************************************)
LEMMA SpoolGrows ==
  ASSUME TypeInv, NEW c \in Slots, NEW n \in Nat,
         data' = [data EXCEPT ![c] = @ \o Units(c, n)]
  PROVE  /\ data' \in [Slots -> Seq(Int)]
         /\ \A b \in Slots : b # c => data'[b] = data[b]
         /\ Len(data'[c]) = Len(data[c]) + n
         /\ \A b \in Slots : Len(data'[b]) >= Len(data[b])
         /\ \A j \in 1 .. Len(data[c]) : data'[c][j] = data[c][j]
         /\ \A j \in 1 .. n :
              data'[c][Len(data[c]) + j] = from[c] + fetched[c] + j - 1
<1> DEFINE u == Units(c, n)
<1>1. /\ data \in [Slots -> Seq(Int)] /\ from[c] \in Int /\ fetched[c] \in Nat
  BY DEF TypeInv, TypeOK
<1>2. /\ u \in Seq(Int) /\ Len(u) = n
      /\ \A j \in 1 .. n : u[j] = from[c] + fetched[c] + j - 1
  BY <1>1 DEF Units
<1> HIDE DEF u
<1>3. data' = [data EXCEPT ![c] = data[c] \o u]
  BY <1>1 DEF u
<1>4. data[c] \in Seq(Int) /\ data[c] \o u \in Seq(Int)
  BY <1>1, <1>2
<1>5. data'[c] = data[c] \o u /\ data' \in [Slots -> Seq(Int)]
      /\ \A b \in Slots : b # c => data'[b] = data[b]
  BY <1>1, <1>3, <1>4
<1>6. Len(data'[c]) = Len(data[c]) + n /\ Len(data[c]) \in Nat
  <2>1. \A p, q \in Seq(Int) : Len(p) \in Nat /\ Len(p \o q) = Len(p) + Len(q)
    OBVIOUS
  <2> QED
    BY <2>1, <1>2, <1>4, <1>5
<1>7. \A b \in Slots : Len(data[b]) \in Nat
  BY <1>1
<1>8. \A b \in Slots : Len(data'[b]) >= Len(data[b])
  BY <1>5, <1>6, <1>7
<1>9. /\ \A j \in 1 .. Len(data[c]) : (data[c] \o u)[j] = data[c][j]
      /\ \A j \in 1 .. n : (data[c] \o u)[Len(data[c]) + j] = u[j]
  BY <1>2, <1>4, <1>6
<1> QED
  BY <1>2, <1>5, <1>6, <1>8, <1>9

(***************************************************************************)
(* A step that ends an attempt, and at most appends to the spool of the    *)
(* worker's chunk, preserves TypeInv.                                      *)
(***************************************************************************)
LEMMA AttemptFailsTypeInv ==
  ASSUME TypeInv, NEW w \in Workers, wpc[w] \in InAttempt, AttemptFails(w),
         UNCHANGED <<hVars, files, gone, next, pushed, from, fetched>>,
         data' \in [Slots -> Seq(Int)],
         \A b \in Slots : Len(data'[b]) >= Len(data[b]),
         slice' \in [Workers -> 0 .. MaxSlice]
  PROVE  TypeInv'
<1>1. hpc \notin {"snapshot", "probe", "spool"}
  BY DEF TypeInv, BeforeStart, InAttempt
<1>2. job[w] \in Chunks
  BY DEF TypeInv, JobsInPlan, Working
<1>3. /\ fin' \in [Slots -> BOOLEAN]
      /\ err' \in [Slots -> {"none", "ctx", "exhausted"}]
      /\ tries' \in [Slots -> Nat]
      /\ wpc' \in [Workers -> {"absent", "pull", "exit"} \cup Working]
      /\ job' \in [Workers -> Slots \cup {NoChunk}]
      /\ active' \in [Links -> Int]
      /\ \A v \in Workers : v # w => wpc'[v] = wpc[v] /\ job'[v] = job[v]
      /\ \/ wpc'[w] = "pull" /\ job'[w] = NoChunk
         \/ wpc'[w] = "try" /\ job'[w] = job[w]
  BY AttemptFailsTypes DEF TypeInv
<1>4. JobsInPlan'
  BY <1>2, <1>3 DEF TypeInv, JobsInPlan, Working, InAttempt, Chunks, hVars
<1>5. WorkTypes'
  BY <1>3, WorkTypesHold DEF WorkTypes
<1> QED
  BY <1>1, <1>4, <1>5, WorkFrame

(***************************************************************************)
(* A step of a worker leaves the handler's variables alone and grows the   *)
(* spools; what is left to show of TypeInv is what it changes.             *)
(***************************************************************************)
LEMMA WorkerTypeInv ==
  ASSUME TypeInv, NEW w \in Workers, Local(w) \/ Network(w)
  PROVE  TypeInv'
<1>a. wpc[w] \in {"pull"} \cup Working
  BY DEF Local, Network, Claim, QueueEmpty, Abandon, EnterFetch, BeginAttempt, GiveUp,
         Push, PushToClosed, PushFails, Refused, Accepted, ReadSlice, ReadAll, ReadFails,
         Working, InAttempt
<1>b. hpc \notin {"snapshot", "probe", "spool"}
  BY <1>a DEF TypeInv, BeforeStart, Working, InAttempt
<1>c. job[w] \in Slots \cup {NoChunk} /\ (wpc[w] \in Working => job[w] \in Slots)
  BY DrainFacts, PlanFacts DEF TypeInv, TypeOK, JobsInPlan
<1>d. w[1] \in Links
  BY DEF Workers
<1>e. \A c \in Slots : data[c] \in Seq(Int) /\ pushed[c] \in Nat /\ fetched[c] \in Nat
                     /\ from[c] \in Int
  BY DEF TypeInv, TypeOK
<1>f. MaxSlice \in Nat
  BY SplitAssumption
<1>g. WorkTypes
  BY WorkTypesHold
<1>1. CASE Claim(w)
  <2>1. next' \in Nat /\ next' <= MaxChunks
    <3>1. NumChunks(d) \in Nat /\ NumChunks(d) <= MaxChunks
      BY DrainFacts, PlanFacts
    <3> QED
      BY <1>1, <3>1, PlanAssumption DEF Claim, Taken, Chunks, TypeInv, TypeOK
  <2>2. next \in Slots /\ next \in Chunks
    BY <1>1, DrainFacts, PlanFacts DEF Claim
  <2>3. /\ job' \in [Workers -> Slots \cup {NoChunk}] /\ job' = [job EXCEPT ![w] = next]
        /\ wpc' \in [Workers -> {"absent", "pull", "exit"} \cup Working]
        /\ wpc' = [wpc EXCEPT ![w] = "claimed"]
    BY <1>1, <2>2 DEF Claim, TypeInv, TypeOK, Working
  <2>4. JobsInPlan'
    BY <1>1, <2>2, <2>3 DEF Claim, TypeInv, TypeOK, JobsInPlan, Chunks, hVars
  <2>5. WorkTypes'
    BY <1>1, <1>g, <2>1, <2>3 DEF Claim, WorkTypes, cVars
  <2> QED
    BY <1>1, <1>b, <2>4, <2>5, WorkFrame DEF Claim, cVars
<1>2. CASE QueueEmpty(w) \/ Abandon(w) \/ EnterFetch(w) \/ Accepted(w)
  <2>1. /\ wpc' \in [Workers -> {"absent", "pull", "exit"} \cup Working]
        /\ job' \in [Workers -> Slots \cup {NoChunk}]
    BY <1>2 DEF QueueEmpty, Abandon, EnterFetch, Accepted, TypeInv, TypeOK, Working, InAttempt
  <2>2. JobsInPlan'
    BY <1>2, <1>a
       DEF QueueEmpty, Abandon, EnterFetch, Accepted, TypeInv, TypeOK, JobsInPlan,
           Working, InAttempt, Chunks, hVars
  <2>3. UNCHANGED <<hVars, files, gone, next, cVars, slice, active>>
    BY <1>2 DEF QueueEmpty, Abandon, EnterFetch, Accepted
  <2>4. WorkTypes'
    BY <1>g, <2>1, <2>3 DEF WorkTypes, cVars
  <2> QED
    BY <1>b, <2>2, <2>3, <2>4, WorkFrame DEF cVars
<1>3. CASE BeginAttempt(w)
  <2>1. job[w] \in Slots
    BY <1>3, <1>c DEF BeginAttempt, Working
  <2>2. ResumeAt(job[w]) \in Int
    BY <2>1, <1>e, DrainFacts, PlanFacts DEF ResumeAt
  <2>3. /\ from' \in [Slots -> Int] /\ fetched' \in [Slots -> Nat]
        /\ active' \in [Links -> Int]
        /\ wpc' \in [Workers -> {"absent", "pull", "exit"} \cup Working]
    <3>1. from' \in [Slots -> Int] /\ fetched' \in [Slots -> Nat]
      BY <1>3, <2>2 DEF BeginAttempt, TypeInv, TypeOK
    <3>2. active' \in [Links -> Int]
      BY <1>3, <1>d DEF BeginAttempt, TypeInv, TypeOK
    <3>3. wpc' \in [Workers -> {"absent", "pull", "exit"} \cup Working]
      BY <1>3 DEF BeginAttempt, TypeInv, TypeOK, Working, InAttempt
    <3> QED
      BY <3>1, <3>2, <3>3
  <2>4. JobsInPlan'
    BY <1>3, <1>a
       DEF BeginAttempt, TypeInv, TypeOK, JobsInPlan, Working, InAttempt, Chunks, hVars
  <2>5. WorkTypes'
    BY <1>3, <1>g, <2>3 DEF BeginAttempt, WorkTypes
  <2> QED
    BY <1>3, <1>b, <2>4, <2>5, WorkFrame DEF BeginAttempt
<1>4. CASE ReadSlice(w)
  <2>1. /\ slice' \in [Workers -> 0 .. MaxSlice]
        /\ wpc' \in [Workers -> {"absent", "pull", "exit"} \cup Working]
    BY <1>4, <1>f DEF ReadSlice, TypeInv, TypeOK, Working, InAttempt
  <2>2. JobsInPlan'
    BY <1>4, <1>a
       DEF ReadSlice, TypeInv, TypeOK, JobsInPlan, Working, InAttempt, Chunks, hVars
  <2>3. UNCHANGED <<hVars, files, gone, next, cVars, job, active>>
    BY <1>4 DEF ReadSlice
  <2>4. WorkTypes'
    BY <1>g, <2>1, <2>3 DEF WorkTypes, cVars
  <2> QED
    BY <1>b, <2>2, <2>3, <2>4, WorkFrame DEF cVars
<1>5. CASE GiveUp(w)
  <2>1. /\ fin' \in [Slots -> BOOLEAN]
        /\ err' \in [Slots -> {"none", "ctx", "exhausted"}]
        /\ wpc' \in [Workers -> {"absent", "pull", "exit"} \cup Working]
        /\ job' \in [Workers -> Slots \cup {NoChunk}]
        /\ wpc' = [wpc EXCEPT ![w] = "pull"] /\ job' = [job EXCEPT ![w] = NoChunk]
    BY <1>5, FinishTypes DEF GiveUp, TypeInv
  <2>2. JobsInPlan'
    BY <1>5, <2>1
       DEF GiveUp, TypeInv, TypeOK, JobsInPlan, Working, InAttempt, Chunks, hVars
  <2>3. WorkTypes'
    BY <1>5, <1>g, <2>1 DEF GiveUp, WorkTypes
  <2> QED
    BY <1>5, <1>b, <2>2, <2>3, WorkFrame DEF GiveUp
<1>6. CASE ReadAll(w)
  <2>1. /\ fin' \in [Slots -> BOOLEAN]
        /\ err' \in [Slots -> {"none", "ctx", "exhausted"}]
        /\ wpc' \in [Workers -> {"absent", "pull", "exit"} \cup Working]
        /\ job' \in [Workers -> Slots \cup {NoChunk}]
        /\ wpc' = [wpc EXCEPT ![w] = "pull"] /\ job' = [job EXCEPT ![w] = NoChunk]
    BY <1>6, FinishTypes DEF ReadAll, TypeInv
  <2>2. active' \in [Links -> Int]
    BY <1>6, <1>d DEF ReadAll, TypeInv, TypeOK
  <2>3. JobsInPlan'
    BY <1>6, <2>1
       DEF ReadAll, TypeInv, TypeOK, JobsInPlan, Working, InAttempt, Chunks, hVars
  <2>4. WorkTypes'
    BY <1>6, <1>g, <2>1, <2>2 DEF ReadAll, WorkTypes
  <2> QED
    BY <1>6, <1>b, <2>3, <2>4, WorkFrame DEF ReadAll
<1>7. CASE Push(w)
  <2>1. job[w] \in Slots /\ slice[w] \in 0 .. MaxSlice /\ slice[w] \in Nat
    BY <1>7, <1>c, <1>f DEF Push, Working, InAttempt, TypeInv, TypeOK
  <2>2. data' = [data EXCEPT ![job[w]] = @ \o Units(job[w], slice[w])]
    BY <1>7 DEF Push
  <2>3. /\ data' \in [Slots -> Seq(Int)]
        /\ \A b \in Slots : Len(data'[b]) >= Len(data[b])
    BY <2>1, <2>2, SpoolGrows
  <2>4. /\ fetched' \in [Slots -> Nat] /\ pushed' \in [Slots -> Nat]
    BY <1>7, <2>1, <1>e DEF Push, TypeInv, TypeOK
  <2>5. /\ slice' \in [Workers -> 0 .. MaxSlice]
        /\ wpc' \in [Workers -> {"absent", "pull", "exit"} \cup Working]
    BY <1>7, <1>f DEF Push, TypeInv, TypeOK, Working, InAttempt
  <2>6. JobsInPlan'
    BY <1>7, <1>a
       DEF Push, TypeInv, TypeOK, JobsInPlan, Working, InAttempt, Chunks, hVars
  <2>7. WorkTypes'
    BY <1>7, <1>g, <2>3, <2>4, <2>5 DEF Push, WorkTypes
  <2> QED
    BY <1>7, <1>b, <2>3, <2>6, <2>7, WorkFrame DEF Push
<1>8. CASE PushFails(w)
  <2>1. job[w] \in Slots /\ slice[w] \in 0 .. MaxSlice /\ wpc[w] \in InAttempt
    BY <1>8, <1>c DEF PushFails, Working, InAttempt, TypeInv, TypeOK
  <2>2. PICK k \in 0 .. slice[w] - 1 :
          data' = [data EXCEPT ![job[w]] = @ \o Units(job[w], k)]
    BY <1>8 DEF PushFails
  <2>3. k \in Nat
    BY <2>1, <1>f
  <2>4. /\ data' \in [Slots -> Seq(Int)]
        /\ \A b \in Slots : Len(data'[b]) >= Len(data[b])
    BY <2>1, <2>2, <2>3, SpoolGrows
  <2>5. slice' \in [Workers -> 0 .. MaxSlice]
    BY <1>8, <1>f DEF PushFails, TypeInv, TypeOK
  <2> QED
    BY <1>8, <2>1, <2>4, <2>5, AttemptFailsTypeInv DEF PushFails
<1>9. CASE PushToClosed(w) \/ Refused(w) \/ ReadFails(w)
  <2>1. /\ wpc[w] \in InAttempt /\ AttemptFails(w)
        /\ UNCHANGED <<hVars, files, gone, next, data, pushed, from, fetched>>
    BY <1>9 DEF PushToClosed, Refused, ReadFails, InAttempt
  <2>2. slice' \in [Workers -> 0 .. MaxSlice]
    BY <1>9, <1>f DEF PushToClosed, Refused, ReadFails, TypeInv, TypeOK
  <2>3. data' \in [Slots -> Seq(Int)] /\ \A b \in Slots : Len(data'[b]) >= Len(data[b])
    <3>1. data' = data /\ data \in [Slots -> Seq(Int)]
      BY <2>1 DEF TypeInv, TypeOK
    <3>2. \A b \in Slots : Len(data[b]) \in Nat
      BY <3>1
    <3> QED
      BY <3>1, <3>2
  <2> QED
    BY <2>1, <2>2, <2>3, AttemptFailsTypeInv
<1> QED
  BY <1>1, <1>2, <1>3, <1>4, <1>5, <1>6, <1>7, <1>8, <1>9 DEF Local, Network

LEMMA NextTypeInv == TypeInv /\ [Next]_vars => TypeInv'
<1> SUFFICES ASSUME TypeInv, [Next]_vars PROVE TypeInv'
  OBVIOUS
<1>1. CASE Handler
  BY <1>1, HandlerTypeInv
<1>2. CASE \E w \in Workers : Local(w) \/ Network(w)
  BY <1>2, WorkerTypeInv
<1>3. CASE ClientLeaves \/ UNCHANGED vars
  <2>1. UNCHANGED <<hVars, files, next, cVars, wVars>> /\ gone' \in BOOLEAN
    BY <1>3 DEF ClientLeaves, vars, TypeInv, TypeOK
  <2> QED
    BY <2>1, QuietFrame
<1> QED
  BY <1>1, <1>2, <1>3 DEF Next, Rest

(***************************************************************************)
(* Type correctness of the range split.                                    *)
(***************************************************************************)
THEOREM TypeCorrect == Spec => []TypeOK
<1>1. TypeInv => TypeOK
  BY DEF TypeInv
<1> QED
  BY InitTypeInv, NextTypeInv, <1>1, PTL DEF Spec

-----------------------------------------------------------------------------
(***************************************************************************)
(* Delivery.                                                               *)
(***************************************************************************)
WorkSide == SpoolContents /\ AttemptAligned /\ OneFetcherPerChunk /\ QueueOrder /\ FinishedComplete
DrainSide == DrainPosition /\ SnapTruth /\ ResultTruth /\ DeliveredPrefix

\* What the theorems about the plan say of two chunks in a row.
LEMMA PlanSteps ==
  ASSUME IsDecision(d)
  PROVE  /\ d.effStart \in Nat
         /\ ChunkFirst(d, 0) = d.effStart
         /\ RangeSize(d) = d.effEnd - d.effStart + 1 /\ d.effEnd \in Nat
         /\ \A c \in Chunks :
              /\ ChunkFirst(d, c) \in Int /\ ChunkLast(d, c) \in Int
              /\ ChunkLen(d, c) = ChunkLast(d, c) - ChunkFirst(d, c) + 1
              /\ c + 1 \in Chunks => ChunkFirst(d, c + 1) = ChunkLast(d, c) + 1
              /\ c + 1 \notin Chunks => ChunkLast(d, c) = d.effEnd
              /\ ChunkLast(d, c) <= d.effEnd
<1>1. SplittableRange(d)
  BY DEF IsDecision, SplittableRange
<1>2. NumChunks(d) \in Nat /\ NumChunks(d) >= 2
  BY <1>1, ChunksTile
<1>3. /\ ChunkFirst(d, 0) = d.effStart
      /\ ChunkLast(d, NumChunks(d) - 1) = d.effEnd
      /\ \A i \in Int : ChunkFirst(d, i) \in Int /\ ChunkLast(d, i) \in Int
      /\ \A i \in 0 .. NumChunks(d) - 2 : ChunkFirst(d, i + 1) = ChunkLast(d, i) + 1
      /\ \A i \in 0 .. NumChunks(d) - 1 : ChunkLast(d, i) <= d.effEnd
  BY <1>1, ChunksTile
<1>4. ASSUME NEW c \in Chunks
      PROVE  /\ ChunkFirst(d, c) \in Int /\ ChunkLast(d, c) \in Int
             /\ ChunkLast(d, c) <= d.effEnd
             /\ c + 1 \in Chunks => ChunkFirst(d, c + 1) = ChunkLast(d, c) + 1
             /\ c + 1 \notin Chunks => ChunkLast(d, c) = d.effEnd
  <2>1. c \in Int /\ c >= 0 /\ c <= NumChunks(d) - 1
    BY <1>2 DEF Chunks
  <2>2. c + 1 \in Chunks => c \in 0 .. NumChunks(d) - 2
    BY <1>2, <2>1 DEF Chunks
  <2>3. c + 1 \notin Chunks => c = NumChunks(d) - 1
    BY <1>2, <2>1 DEF Chunks
  <2> QED
    BY <1>3, <2>1, <2>2, <2>3 DEF Chunks
<1> QED
  BY <1>1, <1>3, <1>4 DEF SplittableRange, RangeSize, ChunkLen

LEMMA InitDelivery == Init => DeliveryInv
<1> SUFFICES ASSUME Init PROVE DeliveryInv
  OBVIOUS
<1>1. TypeInv
  BY InitTypeInv
<1>2. WorkSide
  <2>1. SpoolContents
    BY DEF Init, SpoolContents
  <2>2. AttemptAligned /\ OneFetcherPerChunk
    BY DEF Init, AttemptAligned, OneFetcherPerChunk, Working, InAttempt
  <2>3. QueueOrder
    BY DEF Init, QueueOrder, Working, InAttempt
  <2>4. \A c \in Chunks : ~fin[c]
    BY <1>1, DrainFacts, PlanFacts DEF Init
  <2> QED
    BY <2>1, <2>2, <2>3, <2>4 DEF WorkSide, FinishedComplete
<1>3. DrainSide
  BY <1>1, DrainFacts, PlanSteps, PlanFacts
     DEF Init, DrainSide, DrainPosition, SnapTruth, ResultTruth, DeliveredPrefix
<1> QED
  BY <1>1, <1>2, <1>3 DEF DeliveryInv, WorkSide, DrainSide

\* Steps that leave the workers and the spools alone.
LEMMA WorkSideFrame ==
  ASSUME WorkSide, UNCHANGED <<d, next, cVars, wVars>>
  PROVE  WorkSide'
BY DEF WorkSide, SpoolContents, AttemptAligned, OneFetcherPerChunk, QueueOrder,
       FinishedComplete, Chunks, cVars, wVars

\* Steps of the workers: a finished chunk keeps its error.
LEMMA DrainSideFrame ==
  ASSUME DrainSide, UNCHANGED hVars,
         fin[cur] => fin'[cur] /\ err'[cur] = err[cur]
  PROVE  DrainSide'
BY DEF DrainSide, DrainPosition, SnapTruth, ResultTruth, DeliveredPrefix, hVars

LEMMA HandlerDelivery ==
  ASSUME DeliveryInv, Handler, SpoolFaults = FALSE
  PROVE  WorkSide' /\ DrainSide'
<1>a. TypeInv /\ WorkSide /\ DrainSide
  BY DEF DeliveryInv, WorkSide, DrainSide
<1>1. CASE Snapshot \/ ProbeAgrees \/ CreateSpool \/ CloseSpool \/ Return \/ DrainMore
  <2>1. WorkSide'
    BY <1>1, <1>a, WorkSideFrame
       DEF Snapshot, ProbeAgrees, CreateSpool, CloseSpool, Return, DrainMore, hVars
  <2>2. DrainSide'
    BY <1>1, <1>a
       DEF Snapshot, ProbeAgrees, CreateSpool, CloseSpool, Return, DrainMore, DrainSide,
           DrainPosition, SnapTruth, ResultTruth, DeliveredPrefix, hVars, cVars
  <2> QED
    BY <2>1, <2>2
<1>2. CASE StartWorkers
  <2>1. WorkSide'
    BY <1>2, <1>a
       DEF StartWorkers, WorkSide, SpoolContents, AttemptAligned, OneFetcherPerChunk,
           QueueOrder, FinishedComplete, Working, InAttempt, Chunks, cVars
  <2>2. DrainSide'
    BY <1>2, <1>a
       DEF StartWorkers, DrainSide, DrainPosition, SnapTruth, ResultTruth, DeliveredPrefix
  <2> QED
    BY <2>1, <2>2
<1>3. CASE ProbeDiffers
  <2>1. /\ hpc = "probe" /\ IsDecision(d)
        /\ UNCHANGED <<cur, dlv, snap, out, next, cVars, wVars>>
    BY <1>3, <1>a, DrainFacts DEF ProbeDiffers
  <2>2. /\ cur = 0 /\ dlv = 0 /\ out = <<>>
        /\ \A w \in Workers : wpc[w] = "absent"
        /\ \A c \in Slots : data[c] = <<>> /\ ~fin[c] /\ pushed[c] = 0
    BY <2>1, <1>a DEF TypeInv, BeforeStart
  <2>3. IsDecision(d')
    <3>1. TypeInv'
      BY <1>a, HandlerTypeInv
    <3> QED
      BY <3>1 DEF TypeInv, TypeOK
  <2>4. /\ ChunkFirst(d', 0) = d'.effStart /\ d'.effStart \in Nat /\ RangeSize(d') \in Nat
        /\ 0 .. NumChunks(d') - 1 \subseteq Slots
    <3>1. SplittableRange(d')
      BY <2>3 DEF IsDecision, SplittableRange
    <3> QED
      BY <3>1, <2>3, ChunksTile, PlanOf DEF SplittableRange
  <2>5. SpoolContents'
    BY <2>1, <2>2 DEF SpoolContents, cVars
  <2>6. AttemptAligned' /\ OneFetcherPerChunk' /\ QueueOrder'
    BY <2>1, <2>2, <1>a
       DEF AttemptAligned, OneFetcherPerChunk, QueueOrder, WorkSide, Working, InAttempt,
           cVars, wVars
  <2>7. FinishedComplete'
    BY <2>1, <2>2, <2>4 DEF FinishedComplete, Chunks, cVars
  <2>8. DrainPosition' /\ DeliveredPrefix'
    BY <2>1, <2>2, <2>4 DEF DrainPosition, DeliveredPrefix
  <2>9. SnapTruth' /\ ResultTruth'
    <3>1. hpc' \in {"spool", "returned"} /\ result' \in {"unsatisfiable", result}
          /\ (hpc' = "spool" => result' = result) /\ result = "none"
      BY <1>3, <1>a, <2>1 DEF ProbeDiffers, DrainSide, ResultTruth
    <3> QED
      BY <3>1 DEF SnapTruth, ResultTruth
  <2> QED
    BY <2>5, <2>6, <2>7, <2>8, <2>9 DEF WorkSide, DrainSide
<1>4. CASE CreateSpoolFails
  BY <1>4 DEF CreateSpoolFails
<1>5. CASE DrainWake
  <2>1. WorkSide'
    BY <1>5, <1>a, WorkSideFrame DEF DrainWake
  <2>2. SnapTruth'
    <3>1. snap'.done = fin[cur] /\ snap'.err = err[cur] /\ UNCHANGED <<cur, fin, err>>
      BY <1>5 DEF DrainWake, cVars
    <3> QED
      BY <3>1 DEF SnapTruth
  <2>3. DrainPosition' /\ ResultTruth' /\ DeliveredPrefix'
    BY <1>5, <1>a
       DEF DrainWake, DrainSide, DrainPosition, ResultTruth, DeliveredPrefix
  <2> QED
    BY <2>1, <2>2, <2>3 DEF DrainSide
<1>6. CASE DrainWriteFails \/ DrainReadFails \/ DrainFails
  <2>1. /\ hpc' = "closing" /\ result' = "truncated"
        /\ UNCHANGED <<d, cur, dlv, out, next, cVars, wVars>>
    BY <1>6 DEF DrainWriteFails, DrainReadFails, DrainFails, Truncate, Leave
  <2>2. WorkSide'
    BY <2>1, <1>a, WorkSideFrame
  <2>3. DrainSide'
    BY <2>1, <1>a
       DEF DrainSide, DrainPosition, SnapTruth, ResultTruth, DeliveredPrefix
  <2> QED
    BY <2>2, <2>3
<1>7. CASE DrainWrite
  <2> DEFINE k == WriteLen
             S == data[cur]
             T == SubSeq(S, dlv + 1, dlv + k)
  <2>1. WorkSide'
    BY <1>7, <1>a, WorkSideFrame DEF DrainWrite
  <2>2. /\ hpc = "write" /\ snap.avail \in Int /\ snap.avail > 0 /\ dlv \in Nat
        /\ S \in Seq(Int) /\ Len(S) \in Nat /\ dlv + snap.avail <= Len(S)
    BY <1>7, <1>a, DrainFacts DEF DrainWrite, TypeInv, DrainInSpool
  <2>3. k \in Nat /\ k >= 1 /\ k <= snap.avail
    BY <2>2, SplitAssumption DEF WriteLen, Min2
  <2>4. /\ UNCHANGED <<hpc, d, cur, result, fin, err>>
        /\ Len(out) + k <= RangeSize(d)
        /\ out' = out \o T
        /\ dlv' = dlv + k
    BY <1>7 DEF DrainWrite, Fits, cVars
  <2>5. snap'.done = snap.done /\ snap'.err = snap.err
    <3>1. snap \in [avail : Int, done : BOOLEAN, err : {"none", "ctx", "exhausted"}]
      BY <1>a DEF TypeInv, TypeOK
    <3> QED
      BY <3>1, <1>7 DEF DrainWrite
  <2>6. /\ \A j \in 1 .. Len(S) : S[j] = ChunkFirst(d, cur) + j - 1
        /\ ChunkFirst(d, cur) \in Int /\ d.effStart \in Nat /\ RangeSize(d) \in Nat
    BY <1>a, DrainFacts, PlanSteps, PlanFacts DEF WorkSide, SpoolContents
  <2>7. out \in Seq(Int)
    BY <1>a DEF TypeInv, TypeOK
  <2> HIDE DEF k, S
  <2>8. /\ T \in Seq(Int) /\ Len(T) = k
        /\ \A j \in 1 .. k : T[j] = S[dlv + j]
    BY <2>2, <2>3
  <2>9. \A j \in 1 .. k : T[j] = ChunkFirst(d, cur) + dlv + j - 1
    <3>1. \A j \in 1 .. k : dlv + j \in 1 .. Len(S)
      BY <2>2, <2>3
    <3> QED
      BY <3>1, <2>2, <2>3, <2>6, <2>8
  <2> HIDE DEF T
  <2>10. /\ Len(out') = Len(out) + k
         /\ \A j \in 1 .. Len(out) : out'[j] = out[j]
         /\ \A j \in 1 .. k : out'[Len(out) + j] = T[j]
         /\ Len(out) \in Nat
    <3>1. \A p, q \in Seq(Int) :
            /\ Len(p) \in Nat /\ Len(p \o q) = Len(p) + Len(q)
            /\ \A j \in 1 .. Len(p) : (p \o q)[j] = p[j]
            /\ \A j \in 1 .. Len(q) : (p \o q)[Len(p) + j] = q[j]
      OBVIOUS
    <3> QED
      BY <3>1, <2>4, <2>7, <2>8
  <2>11. Len(out) = ChunkFirst(d, cur) - d.effStart + dlv
    BY <1>a DEF DrainSide, DrainPosition
  <2>12. DrainPosition'
    BY <2>2, <2>3, <2>4, <2>6, <2>10, <2>11 DEF DrainPosition
  <2>13. DeliveredPrefix'
    <3>1. ASSUME NEW i \in 1 .. Len(out')
          PROVE  out'[i] = d.effStart + i - 1
      <4>1. CASE i \in 1 .. Len(out)
        BY <4>1, <1>a, <2>10 DEF DrainSide, DeliveredPrefix
      <4>2. CASE i \notin 1 .. Len(out)
        <5>1. PICK j \in 1 .. k : i = Len(out) + j
          <6>2. i \in 1 .. Len(out) + k /\ Len(out) \in Nat /\ k \in Nat
            BY <3>1, <2>3, <2>10
          <6>3. \A m, n \in Nat : \A x \in 1 .. m + n :
                  x \notin 1 .. m => x - m \in 1 .. n /\ x = m + (x - m)
            OBVIOUS
          <6>1. i - Len(out) \in 1 .. k /\ i = Len(out) + (i - Len(out))
            BY <4>2, <6>2, <6>3
          <6> QED
            BY <6>1
        <5>2. out'[i] = T[j]
          BY <5>1, <2>10
        <5>3. out'[i] = ChunkFirst(d, cur) + dlv + j - 1
          BY <5>2, <2>9
        <5>4. /\ j \in Int /\ dlv \in Int /\ ChunkFirst(d, cur) \in Int
              /\ d.effStart \in Int /\ Len(out) \in Int
          BY <2>2, <2>3, <2>6, <2>10
        <5>5. ChunkFirst(d, cur) + dlv + j - 1 = d.effStart + (Len(out) + j) - 1
          <6> DEFINE f == ChunkFirst(d, cur)
                     s == d.effStart
                     n == Len(out)
          <6>1. /\ f \in Int /\ s \in Int /\ n \in Int /\ dlv \in Int /\ j \in Int
                /\ n = f - s + dlv
            BY <5>4, <2>11
          <6> HIDE DEF f, s, n
          <6>2. f + dlv + j - 1 = s + (n + j) - 1
            BY <6>1
          <6> QED
            BY <6>2 DEF f, s, n
        <5>7. d.effStart + (Len(out) + j) - 1 = d.effStart + i - 1
          BY <5>1
        <5> QED
          BY <5>3, <5>5, <5>7
      <4> QED
        BY <4>1, <4>2
    <3> QED
      BY <3>1, <2>4, <2>10 DEF DeliveredPrefix
  <2>14. SnapTruth' /\ ResultTruth'
    BY <1>a, <2>2, <2>4, <2>5 DEF DrainSide, SnapTruth, ResultTruth
  <2> QED
    BY <2>1, <2>12, <2>13, <2>14 DEF DrainSide
<1>8. CASE DrainNext
  <2>1. WorkSide'
    BY <1>8, <1>a, WorkSideFrame DEF DrainNext
  <2>2. /\ hpc = "write" /\ snap.done /\ snap.err = "none" /\ dlv >= Len(data[cur])
        /\ UNCHANGED <<d, out>>
    BY <1>8 DEF DrainNext, Drained, ChunkOK
  <2>3. fin[cur] /\ err[cur] = "none"
    BY <2>2, <1>a DEF DrainSide, SnapTruth
  <2>4. dlv = Len(data[cur]) /\ Len(data[cur]) = ChunkLen(d, cur)
    <3>1. cur \in Chunks /\ cur \in Slots /\ dlv \in Nat /\ Len(data[cur]) \in Nat
          /\ dlv <= Len(data[cur])
      BY <1>a, DrainFacts
    <3>2. Len(data[cur]) = pushed[cur] /\ pushed[cur] = ChunkLen(d, cur)
      BY <2>3, <3>1, <1>a DEF WorkSide, SpoolContents, FinishedComplete
    <3> QED
      BY <2>2, <3>1, <3>2
  <2>5. Len(out) = ChunkFirst(d, cur) - d.effStart + ChunkLen(d, cur)
    BY <2>4, <1>a DEF DrainSide, DrainPosition
  <2>6. /\ IsDecision(d) /\ cur \in Chunks
    BY <1>a, DrainFacts
  <2>7. Len(out) = ChunkLast(d, cur) - d.effStart + 1
    BY <2>5, <2>6, PlanSteps
  <2>8. DeliveredPrefix'
    BY <2>2, <1>a DEF DrainSide, DeliveredPrefix
  <2>9. CASE cur + 1 \in Chunks
    <3>1. cur' = cur + 1 /\ dlv' = 0 /\ hpc' = "wait" /\ UNCHANGED result
      BY <1>8, <2>9 DEF DrainNext
    <3>2. ChunkFirst(d, cur + 1) = ChunkLast(d, cur) + 1 /\ ChunkLast(d, cur) \in Int
          /\ d.effStart \in Nat
      BY <2>6, <2>9, PlanSteps
    <3>3. DrainPosition'
      BY <2>2, <2>7, <3>1, <3>2 DEF DrainPosition
    <3>4. SnapTruth' /\ ResultTruth'
      BY <3>1, <2>2, <1>a DEF DrainSide, SnapTruth, ResultTruth
    <3> QED
      BY <2>1, <2>8, <3>3, <3>4 DEF DrainSide
  <2>10. CASE cur + 1 \notin Chunks
    <3>1. Len(out) = RangeSize(d)
      BY <2>6, <2>7, <2>10, PlanSteps
    <3>2. cur' = cur /\ dlv' = dlv /\ hpc' = "closing" /\ result' = "done"
      BY <1>8, <2>10, <3>1 DEF DrainNext, Leave
    <3>3. DrainPosition' /\ SnapTruth' /\ ResultTruth'
      BY <3>1, <3>2, <2>2, <1>a DEF DrainSide, DrainPosition, SnapTruth, ResultTruth
    <3> QED
      BY <2>1, <2>8, <3>3 DEF DrainSide
  <2> QED
    BY <2>9, <2>10
<1> QED
  BY <1>1, <1>2, <1>3, <1>4, <1>5, <1>6, <1>7, <1>8 DEF Handler

(***************************************************************************)
(* A worker that takes a chunk, or moves within it, without touching a     *)
(* spool: the hypotheses name what it changes.                             *)
(***************************************************************************)
LEMMA WorkerHolds ==
  ASSUME DeliveryInv, NEW w \in Workers, wpc[w] \in Working
  PROVE  /\ job[w] \in Chunks /\ job[w] \in Slots /\ job[w] < next /\ ~fin[job[w]]
         /\ \A v \in Workers : v # w /\ wpc[v] \in Working => job[v] # job[w]
<1>1. job[w] \in Chunks /\ IsDecision(d)
  BY DrainFacts DEF DeliveryInv, TypeInv, JobsInPlan
<1>2. job[w] \in Slots
  BY <1>1, PlanFacts
<1>3. /\ ~fin[job[w]]
      /\ \A v \in Workers : v # w /\ wpc[v] \in Working => job[v] # job[w]
  BY DEF DeliveryInv, OneFetcherPerChunk
<1>4. job[w] < next
  BY DEF DeliveryInv, QueueOrder
<1> QED
  BY <1>1, <1>2, <1>3, <1>4

\* The worker stops working on its chunk, which it may have finished with
\* finish(e); a clean finish needs all of the chunk.
LEMMA LetsGo ==
  ASSUME DeliveryInv, NEW w \in Workers, wpc[w] \in Working,
         wpc' \in [Workers -> {"absent", "pull", "exit"} \cup Working],
         \A v \in Workers : v # w => wpc'[v] = wpc[v] /\ job'[v] = job[v],
         wpc'[w] \notin Working,
         UNCHANGED <<hVars, next, data, pushed, from, fetched>>,
         \A c \in Slots : c # job[w] => fin'[c] = fin[c] /\ err'[c] = err[c],
         fin'[job[w]] /\ err'[job[w]] = "none" => pushed[job[w]] = ChunkLen(d, job[w])
  PROVE  WorkSide' /\ DrainSide'
<1>1. /\ job[w] \in Chunks /\ job[w] \in Slots /\ job[w] < next /\ ~fin[job[w]]
      /\ \A v \in Workers : v # w /\ wpc[v] \in Working => job[v] # job[w]
  BY WorkerHolds
<1>2. /\ cur \in Slots /\ Chunks \subseteq Slots /\ Chunks' = Chunks /\ d' = d
      /\ \A v \in Workers : wpc[v] \in Working => job[v] \in Slots
  <2>1. TypeInv /\ IsDecision(d) /\ cur \in Slots
    BY DrainFacts DEF DeliveryInv
  <2>2. Chunks \subseteq Slots
    BY <2>1, PlanFacts
  <2> QED
    BY <2>1, <2>2 DEF Chunks, hVars, TypeInv, JobsInPlan
<1>3. SpoolContents'
  BY <1>2 DEF DeliveryInv, SpoolContents
<1>4. AttemptAligned'
  BY <1>2 DEF DeliveryInv, AttemptAligned, Working
<1>5. OneFetcherPerChunk'
  BY <1>1, <1>2 DEF DeliveryInv, OneFetcherPerChunk
<1>6. QueueOrder'
  BY <1>1 DEF DeliveryInv, QueueOrder
<1>7. FinishedComplete'
  BY <1>2 DEF DeliveryInv, FinishedComplete
<1>8. DrainSide'
  BY <1>1, <1>2, DrainSideFrame DEF DeliveryInv, DrainSide
<1> QED
  BY <1>3, <1>4, <1>5, <1>6, <1>7, <1>8 DEF WorkSide

\* The worker keeps its chunk and no spool changes; in an attempt its window
\* is aligned with the spool.
LEMMA KeepsOn ==
  ASSUME DeliveryInv, NEW w \in Workers, wpc[w] \in Working,
         \A v \in Workers : v # w => wpc'[v] = wpc[v],
         UNCHANGED <<hVars, next, data, pushed, fin, err, job>>,
         \A c \in Slots : c # job[w] => from'[c] = from[c] /\ fetched'[c] = fetched[c],
         wpc'[w] \in InAttempt =>
           from'[job[w]] + fetched'[job[w]] = ChunkFirst(d, job[w]) + pushed[job[w]]
  PROVE  WorkSide' /\ DrainSide'
<1>1. /\ job[w] \in Chunks /\ job[w] \in Slots /\ job[w] < next /\ ~fin[job[w]]
      /\ \A v \in Workers : v # w /\ wpc[v] \in Working => job[v] # job[w]
  BY WorkerHolds
<1>2. /\ Chunks' = Chunks /\ d' = d /\ \A v \in Workers : wpc[v] \in Working => job[v] \in Slots
  <2>1. TypeInv /\ IsDecision(d)
    BY DrainFacts DEF DeliveryInv
  <2>2. Chunks \subseteq Slots
    BY <2>1, PlanFacts
  <2> QED
    BY <2>1, <2>2 DEF Chunks, hVars, TypeInv, JobsInPlan
<1>3. SpoolContents'
  BY <1>2 DEF DeliveryInv, SpoolContents
<1>4. AttemptAligned'
  BY <1>1, <1>2 DEF DeliveryInv, AttemptAligned, Working
<1>5. OneFetcherPerChunk'
  BY <1>1, <1>2 DEF DeliveryInv, OneFetcherPerChunk
<1>6. QueueOrder'
  BY <1>1 DEF DeliveryInv, QueueOrder
<1>7. FinishedComplete'
  BY <1>2 DEF DeliveryInv, FinishedComplete
<1>8. DrainSide'
  BY DrainSideFrame DEF DeliveryInv, DrainSide
<1> QED
  BY <1>3, <1>4, <1>5, <1>6, <1>7, <1>8 DEF WorkSide

LEMMA WorkerDelivery ==
  ASSUME DeliveryInv, NEW w \in Workers, Local(w) \/ Network(w), SpoolFaults = FALSE
  PROVE  WorkSide' /\ DrainSide'
<1>a. TypeInv /\ WorkSide /\ DrainSide
  BY DEF DeliveryInv, WorkSide, DrainSide
<1>b. TypeInv'
  BY <1>a, WorkerTypeInv
<1>c. /\ wpc' \in [Workers -> {"absent", "pull", "exit"} \cup Working]
      /\ wpc \in [Workers -> {"absent", "pull", "exit"} \cup Working]
      /\ job \in [Workers -> Slots \cup {NoChunk}]
      /\ fin \in [Slots -> BOOLEAN] /\ err \in [Slots -> {"none", "ctx", "exhausted"}]
      /\ from \in [Slots -> Int] /\ fetched \in [Slots -> Nat] /\ pushed \in [Slots -> Nat]
  BY <1>a, <1>b DEF TypeInv, TypeOK
<1>d. wpc[w] \in Working =>
        /\ job[w] \in Chunks /\ job[w] \in Slots /\ job[w] < next /\ ~fin[job[w]]
        /\ \A v \in Workers : v # w /\ wpc[v] \in Working => job[v] # job[w]
  BY WorkerHolds
<1>e. IsDecision(d) /\ Chunks \subseteq Slots
      /\ \A c \in Chunks : ChunkFirst(d, c) \in Int /\ ChunkLast(d, c) \in Int
                          /\ ChunkLen(d, c) = ChunkLast(d, c) - ChunkFirst(d, c) + 1
  BY <1>a, DrainFacts, PlanFacts, PlanSteps
<1>1. CASE Claim(w)
  <2>1. /\ wpc[w] = "pull" /\ next \in Chunks /\ next' = next + 1 /\ next \in Nat
        /\ job' = [job EXCEPT ![w] = next] /\ wpc' = [wpc EXCEPT ![w] = "claimed"]
        /\ UNCHANGED <<hVars, cVars>>
    BY <1>1, <1>a DEF Claim, Taken, TypeInv, TypeOK
  <2>2. SpoolContents'
    BY <2>1, <1>a DEF WorkSide, SpoolContents, hVars, cVars
  <2>3. AttemptAligned'
    BY <2>1, <1>c, <1>a DEF WorkSide, AttemptAligned, InAttempt, hVars, cVars
  <2>4. QueueOrder'
    <3>1. \A v \in Workers : wpc'[v] \in Working => job'[v] < next'
      <4>1. ASSUME NEW v \in Workers, wpc'[v] \in Working
            PROVE  job'[v] < next'
        <5>1. CASE v = w
          BY <5>1, <2>1, <1>c
        <5>2. CASE v # w
          <6>1. wpc[v] \in Working /\ job'[v] = job[v]
            BY <4>1, <5>2, <2>1, <1>c
          <6>2. job[v] < next /\ job[v] \in Slots
            BY <6>1, <1>a, WorkerHolds
          <6> QED
            BY <6>1, <6>2, <2>1 DEF Slots
        <5> QED
          BY <5>1, <5>2
      <4> QED
        BY <4>1
    <3>2. \A c \in Slots : fin'[c] => c < next'
      BY <2>1, <1>a DEF WorkSide, QueueOrder, cVars, Slots
    <3> QED
      BY <3>1, <3>2 DEF QueueOrder
  <2>5. OneFetcherPerChunk'
    <3>1. ~fin[next]
      BY <2>1, <1>a, <1>e DEF WorkSide, QueueOrder
    <3>2. \A v \in Workers : v # w /\ wpc[v] \in Working => job[v] # next
      BY <2>1, <1>a DEF WorkSide, QueueOrder
    <3> QED
      BY <3>1, <3>2, <2>1, <1>c, <1>a DEF WorkSide, OneFetcherPerChunk, cVars
  <2>6. FinishedComplete'
    BY <2>1, <1>a DEF WorkSide, FinishedComplete, Chunks, hVars, cVars
  <2>7. DrainSide'
    BY <2>1, <1>a, DrainSideFrame DEF cVars
  <2> QED
    BY <2>2, <2>3, <2>4, <2>5, <2>6, <2>7 DEF WorkSide
<1>2. CASE QueueEmpty(w)
  <2>1. /\ wpc' = [wpc EXCEPT ![w] = "exit"]
        /\ UNCHANGED <<hVars, next, cVars, job>>
    BY <1>2 DEF QueueEmpty
  <2>2. SpoolContents' /\ FinishedComplete'
    BY <2>1, <1>a DEF WorkSide, SpoolContents, FinishedComplete, Chunks, hVars, cVars
  <2>3. \A v \in Workers : wpc'[v] \in Working => wpc[v] \in Working /\ wpc'[v] = wpc[v]
    BY <2>1, <1>c DEF Working, InAttempt
  <2>4. AttemptAligned' /\ OneFetcherPerChunk' /\ QueueOrder'
    BY <2>1, <2>3, <1>a
       DEF WorkSide, AttemptAligned, OneFetcherPerChunk, QueueOrder, Working, hVars, cVars
  <2>5. DrainSide'
    BY <2>1, <1>a, DrainSideFrame DEF cVars
  <2> QED
    BY <2>2, <2>4, <2>5 DEF WorkSide
<1>3. CASE Abandon(w)
  <2>1. /\ wpc[w] \in Working /\ wpc'[w] \notin Working
        /\ \A v \in Workers : v # w => wpc'[v] = wpc[v] /\ job'[v] = job[v]
        /\ UNCHANGED <<hVars, next, cVars>>
    BY <1>3, <1>c DEF Abandon, Working, InAttempt
  <2> QED
    BY <2>1, <1>c, <1>d, LetsGo DEF cVars
<1>4. CASE EnterFetch(w)
  <2>1. /\ wpc[w] \in Working /\ wpc'[w] \notin InAttempt
        /\ \A v \in Workers : v # w => wpc'[v] = wpc[v]
        /\ UNCHANGED <<hVars, next, cVars, job>>
    BY <1>4, <1>c DEF EnterFetch, Working, InAttempt
  <2> QED
    BY <2>1, KeepsOn DEF cVars
<1>5. CASE BeginAttempt(w)
  <2>1. /\ wpc[w] \in Working
        /\ \A v \in Workers : v # w => wpc'[v] = wpc[v]
        /\ from' = [from EXCEPT ![job[w]] = ResumeAt(job[w])]
        /\ fetched' = [fetched EXCEPT ![job[w]] = 0]
        /\ UNCHANGED <<hVars, next, data, pushed, fin, err, job>>
    BY <1>5, <1>c DEF BeginAttempt, Working, InAttempt
  <2>2. from'[job[w]] + fetched'[job[w]] = ChunkFirst(d, job[w]) + pushed[job[w]]
    <3>1. job[w] \in Slots /\ job[w] \in Chunks
      BY <2>1, <1>d
    <3>2. from'[job[w]] = ChunkFirst(d, job[w]) + pushed[job[w]] /\ fetched'[job[w]] = 0
      BY <3>1, <2>1, <1>c DEF ResumeAt
    <3>3. ChunkFirst(d, job[w]) \in Int /\ pushed[job[w]] \in Nat
      BY <3>1, <1>c, <1>e
    <3> QED
      BY <3>2, <3>3
  <2>3. \A c \in Slots : c # job[w] => from'[c] = from[c] /\ fetched'[c] = fetched[c]
    BY <2>1, <1>c
  <2> QED
    BY <2>1, <2>2, <2>3, KeepsOn
<1>6. CASE GiveUp(w)
  <2>1. /\ wpc[w] \in Working /\ wpc'[w] \notin Working
        /\ \A v \in Workers : v # w => wpc'[v] = wpc[v] /\ job'[v] = job[v]
        /\ UNCHANGED <<hVars, next, data, pushed, from, fetched>>
    BY <1>6, <1>c DEF GiveUp, Finish, Working, InAttempt
  <2>2. /\ \A c \in Slots : c # job[w] => fin'[c] = fin[c] /\ err'[c] = err[c]
        /\ err'[job[w]] = "ctx"
    BY <1>6, <2>1, <1>c, <1>d DEF GiveUp, Finish
  <2> QED
    BY <2>1, <2>2, <1>c, LetsGo
<1>7. CASE ReadAll(w)
  <2>1. /\ wpc[w] \in Working /\ wpc[w] \in InAttempt /\ wpc'[w] \notin Working
        /\ \A v \in Workers : v # w => wpc'[v] = wpc[v] /\ job'[v] = job[v]
        /\ UNCHANGED <<hVars, next, data, pushed, from, fetched>>
    BY <1>7, <1>c DEF ReadAll, Finish, Working, InAttempt
  <2>2. \A c \in Slots : c # job[w] => fin'[c] = fin[c] /\ err'[c] = err[c]
    BY <1>7, <1>c DEF ReadAll, Finish
  <2>3. pushed[job[w]] = ChunkLen(d, job[w])
    <3>1. fetched[job[w]] = ChunkLast(d, job[w]) - from[job[w]] + 1
      BY <1>7 DEF ReadAll, AllFetched, Expected
    <3>2. from[job[w]] + fetched[job[w]] = ChunkFirst(d, job[w]) + pushed[job[w]]
      BY <2>1, <1>a DEF WorkSide, AttemptAligned
    <3>3. /\ from[job[w]] \in Int /\ fetched[job[w]] \in Int /\ pushed[job[w]] \in Int
          /\ ChunkFirst(d, job[w]) \in Int /\ ChunkLast(d, job[w]) \in Int
          /\ ChunkLen(d, job[w]) = ChunkLast(d, job[w]) - ChunkFirst(d, job[w]) + 1
      BY <2>1, <1>c, <1>d, <1>e
    <3> QED
      BY <3>1, <3>2, <3>3
  <2> QED
    BY <2>1, <2>2, <2>3, <1>c, LetsGo
<1>8. CASE PushToClosed(w) \/ Refused(w) \/ ReadFails(w)
  <2>1. /\ wpc[w] \in Working /\ AttemptFails(w)
        /\ UNCHANGED <<hVars, next, data, pushed, from, fetched>>
    BY <1>8 DEF PushToClosed, Refused, ReadFails, Working, InAttempt
  <2>2. CASE \E e \in {"ctx", "exhausted"} : Finish(w, e)
    <3>1. /\ wpc'[w] \notin Working
          /\ \A v \in Workers : v # w => wpc'[v] = wpc[v] /\ job'[v] = job[v]
      BY <2>2, <1>c DEF Finish, Working, InAttempt
    <3>2. /\ \A c \in Slots : c # job[w] => fin'[c] = fin[c] /\ err'[c] = err[c]
          /\ err'[job[w]] \in {"ctx", "exhausted"}
      BY <2>1, <2>2, <1>c, <1>d DEF Finish
    <3> QED
      BY <2>1, <3>1, <3>2, <1>c, LetsGo
  <2>3. CASE wpc' = [wpc EXCEPT ![w] = "try"] /\ UNCHANGED <<fin, err, job>>
    <3>1. wpc'[w] \notin InAttempt /\ \A v \in Workers : v # w => wpc'[v] = wpc[v]
      BY <2>3, <1>c DEF InAttempt
    <3> QED
      BY <2>1, <2>3, <3>1, KeepsOn
  <2> QED
    BY <2>1, <2>2, <2>3 DEF AttemptFails
<1>9. CASE PushFails(w)
  BY <1>9 DEF PushFails
<1>10. CASE Accepted(w) \/ ReadSlice(w)
  <2>1. /\ wpc[w] \in InAttempt /\ wpc[w] \in Working
        /\ \A v \in Workers : v # w => wpc'[v] = wpc[v]
        /\ UNCHANGED <<hVars, next, cVars, job>>
    BY <1>10, <1>c DEF Accepted, ReadSlice, Working, InAttempt
  <2>2. from[job[w]] + fetched[job[w]] = ChunkFirst(d, job[w]) + pushed[job[w]]
    BY <2>1, <1>a DEF WorkSide, AttemptAligned
  <2> QED
    BY <2>1, <2>2, KeepsOn DEF cVars
<1>11. CASE Push(w)
  <2> DEFINE c == job[w]
             n == slice[w]
  <2>1. /\ wpc[w] \in InAttempt /\ wpc[w] \in Working /\ wpc'[w] \in Working
        /\ \A v \in Workers : v # w => wpc'[v] = wpc[v]
        /\ data' = [data EXCEPT ![c] = @ \o Units(c, n)]
        /\ fetched' = [fetched EXCEPT ![c] = @ + n]
        /\ pushed' = [pushed EXCEPT ![c] = @ + n]
        /\ UNCHANGED <<hVars, next, fin, err, from, job>>
    BY <1>11, <1>c DEF Push, Working, InAttempt
  <2>2. /\ c \in Slots /\ c \in Chunks /\ c < next /\ ~fin[c] /\ n \in Nat
        /\ \A v \in Workers : v # w /\ wpc[v] \in Working => job[v] # c
    <3>1. n \in 0 .. MaxSlice /\ MaxSlice \in Nat
      BY <1>a, SplitAssumption DEF TypeInv, TypeOK
    <3> QED
      BY <3>1, <2>1, <1>d
  <2>3. from[c] + fetched[c] = ChunkFirst(d, c) + pushed[c]
    BY <2>1, <1>a DEF WorkSide, AttemptAligned
  <2>4. /\ from[c] \in Int /\ fetched[c] \in Nat /\ pushed[c] \in Nat
        /\ ChunkFirst(d, c) \in Int
    BY <2>2, <1>c, <1>e
  <2> HIDE DEF c, n
  <2>5. /\ data' \in [Slots -> Seq(Int)]
        /\ \A b \in Slots : b # c => data'[b] = data[b]
        /\ Len(data'[c]) = Len(data[c]) + n
        /\ \A j \in 1 .. Len(data[c]) : data'[c][j] = data[c][j]
        /\ \A j \in 1 .. n : data'[c][Len(data[c]) + j] = from[c] + fetched[c] + j - 1
    BY <1>a, <2>1, <2>2, SpoolGrows
  <2>6. /\ Len(data[c]) = pushed[c]
        /\ \A j \in 1 .. Len(data[c]) : data[c][j] = ChunkFirst(d, c) + j - 1
    BY <2>2, <1>a DEF WorkSide, SpoolContents
  <2>7. /\ fetched'[c] = fetched[c] + n /\ pushed'[c] = pushed[c] + n
        /\ \A b \in Slots : b # c => fetched'[b] = fetched[b] /\ pushed'[b] = pushed[b]
    BY <2>1, <2>2, <1>c
  <2>8. SpoolContents'
    <3>1. ASSUME NEW j \in 1 .. Len(data'[c])
          PROVE  data'[c][j] = ChunkFirst(d, c) + j - 1
      <4>1. CASE j \in 1 .. Len(data[c])
        BY <4>1, <2>5, <2>6
      <4>2. CASE j \notin 1 .. Len(data[c])
        <5>a. j \in 1 .. pushed[c] + n /\ j \notin 1 .. pushed[c]
          <6>1. Len(data'[c]) = pushed[c] + n
            BY <2>5, <2>6
          <6>2. Len(data[c]) = pushed[c]
            BY <2>6
          <6> QED
            BY <3>1, <4>2, <6>1, <6>2
        <5>1. j - pushed[c] \in 1 .. n /\ j = pushed[c] + (j - pushed[c])
          BY <5>a, <2>2, <2>4
        <5>2. PICK i \in 1 .. n : j = pushed[c] + i
          BY <5>1
        <5>3. data'[c][j] = from[c] + fetched[c] + i - 1
          BY <5>2, <2>5, <2>6
        <5>4. from[c] + fetched[c] + i - 1 = ChunkFirst(d, c) + j - 1
          BY <5>2, <2>2, <2>3, <2>4
        <5> QED
          BY <5>3, <5>4
      <4> QED
        BY <4>1, <4>2
    <3>2. Len(data'[c]) = pushed'[c]
      BY <2>5, <2>6, <2>7
    <3>3. d' = d
      BY <2>1 DEF hVars
    <3>4. ASSUME NEW b \in Slots, b # c
          PROVE  /\ Len(data'[b]) = pushed'[b]
                 /\ \A j \in 1 .. Len(data'[b]) : data'[b][j] = ChunkFirst(d, b) + j - 1
      <4>1. data'[b] = data[b] /\ pushed'[b] = pushed[b]
        BY <3>4, <2>5, <2>7
      <4> QED
        BY <4>1, <1>a DEF WorkSide, SpoolContents
    <3> QED
      BY <3>1, <3>2, <3>3, <3>4 DEF SpoolContents
  <2>9. AttemptAligned'
    <3>1. from'[c] + fetched'[c] = ChunkFirst(d, c) + pushed'[c]
      <4>1. \A f, p, g, q, m \in Int : f + p = g + q => f + (p + m) = g + (q + m)
        OBVIOUS
      <4>2. from' = from
        BY <2>1
      <4> QED
        BY <4>1, <4>2, <2>2, <2>3, <2>4, <2>7
    <3>2. ASSUME NEW v \in Workers, v # w, wpc'[v] \in InAttempt
          PROVE  from'[job[v]] + fetched'[job[v]] = ChunkFirst(d, job[v]) + pushed'[job[v]]
      <4>1. wpc[v] \in InAttempt /\ wpc[v] \in Working
        BY <3>2, <2>1 DEF Working
      <4>2. job[v] # c /\ job[v] \in Slots
        BY <4>1, <2>2, <3>2, WorkerHolds
      <4> QED
        BY <4>1, <4>2, <2>1, <2>7, <1>a DEF WorkSide, AttemptAligned
    <3>3. d' = d /\ job' = job /\ from' = from /\ c = job[w]
      BY <2>1 DEF hVars, c
    <3> QED
      BY <3>1, <3>2, <3>3 DEF AttemptAligned
  <2>10. OneFetcherPerChunk' /\ QueueOrder'
    BY <2>1, <2>2, <1>a DEF WorkSide, OneFetcherPerChunk, QueueOrder, c
  <2>11. FinishedComplete'
    <3>1. d' = d /\ fin' = fin /\ err' = err
      BY <2>1 DEF hVars
    <3> QED
      BY <3>1, <2>2, <2>7, <1>a, <1>e DEF WorkSide, FinishedComplete, Chunks
  <2>12. DrainSide'
    BY <2>1, <1>a, DrainSideFrame
  <2> QED
    BY <2>8, <2>9, <2>10, <2>11, <2>12 DEF WorkSide
<1> QED
  BY <1>1, <1>2, <1>3, <1>4, <1>5, <1>6, <1>7, <1>8, <1>9, <1>10, <1>11 DEF Local, Network

LEMMA NextDelivery ==
  ASSUME SpoolFaults = FALSE
  PROVE  DeliveryInv /\ [Next]_vars => DeliveryInv'
<1> SUFFICES ASSUME DeliveryInv, [Next]_vars PROVE DeliveryInv'
  OBVIOUS
<1>1. TypeInv'
  BY NextTypeInv DEF DeliveryInv
<1>2. WorkSide' /\ DrainSide'
  <2>1. CASE Handler
    BY <2>1, HandlerDelivery
  <2>2. CASE \E w \in Workers : Local(w) \/ Network(w)
    BY <2>2, WorkerDelivery
  <2>3. CASE ClientLeaves \/ UNCHANGED vars
    <3>1. WorkSide /\ DrainSide /\ UNCHANGED <<hVars, next, cVars, wVars>>
      BY <2>3 DEF DeliveryInv, WorkSide, DrainSide, ClientLeaves, vars
    <3>2. WorkSide'
      BY <3>1, WorkSideFrame DEF hVars
    <3>3. DrainSide'
      BY <3>1, DrainSideFrame DEF cVars
    <3> QED
      BY <3>2, <3>3
  <2> QED
    BY <2>1, <2>2, <2>3 DEF Next, Rest
<1> QED
  BY <1>1, <1>2 DEF DeliveryInv, WorkSide, DrainSide

(***************************************************************************)
(* As long as the spools do not fail, the invariant holds, whatever the    *)
(* network, the client and the probe do.                                   *)
(***************************************************************************)
THEOREM DeliveryInvariant ==
  ASSUME SpoolFaults = FALSE
  PROVE  Spec => []DeliveryInv
BY InitDelivery, NextDelivery, PTL DEF Spec

(***************************************************************************)
(* The client only ever holds a prefix of its range.                       *)
(***************************************************************************)
THEOREM ClientGetsPrefix ==
  ASSUME SpoolFaults = FALSE
  PROVE  Spec => []DeliveredPrefix
<1>1. DeliveryInv => DeliveredPrefix
  BY DEF DeliveryInv
<1> QED
  BY DeliveryInvariant, <1>1, PTL

(***************************************************************************)
(* The MISMATCH branch at the end of splitAcrossLinks is dead code.        *)
(***************************************************************************)
THEOREM MismatchIsUnreachable ==
  ASSUME SpoolFaults = FALSE
  PROVE  Spec => []NoMismatch
<1>1. DeliveryInv => NoMismatch
  BY DEF DeliveryInv, ResultTruth, NoMismatch
<1> QED
  BY DeliveryInvariant, <1>1, PTL

-----------------------------------------------------------------------------
(***************************************************************************)
(* Who owns a chunk.  Nothing here assumes that the spools do not fail.    *)
(***************************************************************************)
TakesNext(w) ==
  /\ wpc[w] = "pull" /\ wpc'[w] = "claimed"
  /\ next \in Chunks /\ job'[w] = next /\ next' = next + 1
  /\ UNCHANGED <<fin, err>>

KeepsChunk(w) ==
  /\ wpc[w] \in Working /\ wpc'[w] \in Working
  /\ UNCHANGED <<job, next, fin, err>>

FinishesChunk(w) ==
  /\ wpc[w] \in Working /\ wpc'[w] = "pull" /\ next' = next
  /\ fin' = [fin EXCEPT ![job[w]] = TRUE]
  /\ \A c \in Slots : c # job[w] => err'[c] = err[c]

Stops(w) ==
  /\ wpc'[w] = "exit" /\ UNCHANGED <<next, fin, err>>
  /\ wpc[w] = "pull" \/ CtxDone

\* Every step of a worker is one of the four, and leaves the others alone.
LEMMA WorkerStep ==
  ASSUME TypeInv, NEW w \in Workers, Local(w) \/ Network(w)
  PROVE  /\ \A v \in Workers : v # w => wpc'[v] = wpc[v] /\ job'[v] = job[v]
         /\ TakesNext(w) \/ KeepsChunk(w) \/ FinishesChunk(w) \/ Stops(w)
         /\ UNCHANGED <<hVars, gone>>
<1>a. /\ wpc \in [Workers -> {"absent", "pull", "exit"} \cup Working]
      /\ job \in [Workers -> Slots \cup {NoChunk}]
      /\ fin \in [Slots -> BOOLEAN] /\ err \in [Slots -> {"none", "ctx", "exhausted"}]
  BY DEF TypeInv, TypeOK
<1>1. CASE Claim(w)
  BY <1>1, <1>a DEF Claim, Taken, TakesNext, cVars
<1>2. CASE QueueEmpty(w) \/ Abandon(w)
  BY <1>2, <1>a DEF QueueEmpty, Abandon, Stops, cVars
<1>3. CASE EnterFetch(w) \/ BeginAttempt(w) \/ Accepted(w) \/ ReadSlice(w) \/ Push(w)
  BY <1>3, <1>a
     DEF EnterFetch, BeginAttempt, Accepted, ReadSlice, Push, KeepsChunk, Working,
         InAttempt, cVars
<1>4. ASSUME NEW e, Finish(w, e), wpc[w] \in Working, UNCHANGED <<hVars, gone, next>>
      PROVE  /\ \A v \in Workers : v # w => wpc'[v] = wpc[v] /\ job'[v] = job[v]
             /\ FinishesChunk(w)
  BY <1>4, <1>a DEF Finish, FinishesChunk
<1>5. CASE GiveUp(w) \/ ReadAll(w)
  <2>1. /\ Finish(w, "ctx") \/ Finish(w, "none")
        /\ wpc[w] \in Working /\ UNCHANGED <<hVars, gone, next>>
    BY <1>5 DEF GiveUp, ReadAll, Working, InAttempt
  <2> QED
    BY <2>1, <1>4
<1>6. CASE Refused(w) \/ ReadFails(w) \/ PushToClosed(w) \/ PushFails(w)
  <2>1. AttemptFails(w) /\ wpc[w] \in Working /\ UNCHANGED <<hVars, gone, next>>
    BY <1>6 DEF Refused, ReadFails, PushToClosed, PushFails, Working, InAttempt
  <2>2. CASE Finish(w, "ctx") \/ Finish(w, "exhausted")
    BY <2>1, <2>2, <1>4
  <2>3. CASE wpc' = [wpc EXCEPT ![w] = "try"] /\ UNCHANGED <<fin, err, job>>
    BY <2>1, <2>3, <1>a DEF KeepsChunk, Working
  <2> QED
    BY <2>1, <2>2, <2>3 DEF AttemptFails
<1> QED
  BY <1>1, <1>2, <1>3, <1>5, <1>6 DEF Local, Network

\* The handler's steps that the workers can see: the start, and cancel().
LEMMA HandlerStep ==
  ASSUME TypeInv, Handler
  PROVE  /\ UNCHANGED <<next, cVars, job, active, gone>>
         /\ cancelled => cancelled'
         /\ \/ wpc' = wpc
            \/ /\ next = 0 /\ \A c \in Slots : ~fin[c]
               /\ \A w \in Workers : wpc[w] = "absent" /\ wpc'[w] \in {"absent", "pull"}
<1>1. CASE StartWorkers
  <2>1. /\ hpc = "spool" /\ UNCHANGED <<next, cVars, job, active, gone, cancelled>>
        /\ \A w \in Workers : wpc'[w] \in {"absent", "pull"}
    BY <1>1 DEF StartWorkers
  <2>2. next = 0 /\ \A w \in Workers : wpc[w] = "absent"
    BY <2>1 DEF TypeInv, BeforeStart
  <2>3. \A c \in Slots : ~fin[c]
    BY <2>1 DEF TypeInv, BeforeStart
  <2> QED
    BY <2>1, <2>2, <2>3
<1>2. CASE Snapshot \/ ProbeAgrees \/ ProbeDiffers \/ CreateSpool \/ CreateSpoolFails
  BY <1>2
     DEF Snapshot, ProbeAgrees, ProbeDiffers, CreateSpool, CreateSpoolFails, hVars, wVars
<1>3. CASE \/ DrainWake \/ DrainWrite \/ DrainWriteFails \/ DrainReadFails
           \/ DrainMore \/ DrainFails
  BY <1>3
     DEF DrainWake, DrainWrite, DrainWriteFails, DrainReadFails, DrainMore, DrainFails, Truncate,
         wVars
<1>4. CASE DrainNext \/ CloseSpool \/ Return
  BY <1>4 DEF DrainNext, CloseSpool, Return, hVars, wVars
<1> QED
  BY <1>1, <1>2, <1>3, <1>4 DEF Handler

LEMMA InitOwnership == Init => Ownership
<1> SUFFICES ASSUME Init PROVE Ownership
  OBVIOUS
<1>1. TypeInv
  BY InitTypeInv
<1>2. QueueOrder /\ OneFetcherPerChunk
  BY DEF Init, QueueOrder, OneFetcherPerChunk, Working, InAttempt
<1>3. NoOrphanChunk
  BY DEF Init, NoOrphanChunk, Slots
<1> QED
  BY <1>1, <1>2, <1>3 DEF Ownership

\* One worker takes, keeps, finishes or drops its chunk.
LEMMA WorkerOwnership ==
  ASSUME Ownership, NEW w \in Workers, Local(w) \/ Network(w)
  PROVE  QueueOrder' /\ OneFetcherPerChunk' /\ NoOrphanChunk'
<1>a. /\ \A v \in Workers : v # w => wpc'[v] = wpc[v] /\ job'[v] = job[v]
      /\ UNCHANGED <<hVars, gone>>
      /\ TakesNext(w) \/ KeepsChunk(w) \/ FinishesChunk(w) \/ Stops(w)
  BY WorkerStep DEF Ownership
<1>b. /\ fin \in [Slots -> BOOLEAN] /\ next \in Nat /\ Chunks \subseteq Slots
      /\ Slots \subseteq Nat /\ CtxDone' = CtxDone
      /\ \A v \in Workers : wpc[v] \in Working => job[v] \in Slots
  <2>1. IsDecision(d) /\ fin \in [Slots -> BOOLEAN] /\ next \in Nat
    BY DEF Ownership, TypeInv, TypeOK
  <2>2. Chunks \subseteq Slots
    BY <2>1, PlanFacts
  <2>3. CtxDone' = CtxDone
    BY <1>a DEF CtxDone, hVars
  <2>4. Slots \subseteq Nat
    BY PlanAssumption DEF Slots
  <2>5. \A v \in Workers : wpc[v] \in Working => job[v] \in Slots
    BY <2>2 DEF Ownership, TypeInv, JobsInPlan
  <2> QED
    BY <2>1, <2>2, <2>3, <2>4, <2>5
<1>1. CASE TakesNext(w)
  <2>1. /\ wpc[w] \notin Working /\ wpc'[w] \in Working /\ job'[w] = next
        /\ next \in Slots /\ next' = next + 1 /\ fin' = fin
    BY <1>1, <1>b DEF TakesNext, Working, InAttempt
  <2>2. ~fin[next] /\ \A v \in Workers : wpc[v] \in Working => job[v] # next
    BY <2>1, <1>b DEF Ownership, QueueOrder
  <2>3. OneFetcherPerChunk'
    BY <2>1, <2>2, <1>a DEF Ownership, OneFetcherPerChunk
  <2>4. QueueOrder'
    <3>1. /\ \A c \in Slots : fin[c] => c < next
          /\ \A v \in Workers : wpc[v] \in Working => job[v] < next /\ job[v] \in Nat
      BY <1>b DEF Ownership, QueueOrder
    <3>2. \A n \in Nat : n < next => n < next + 1
      BY <1>b
    <3>3. \A c \in Slots : fin'[c] => c < next'
      BY <3>1, <3>2, <2>1, <1>b
    <3>4. \A v \in Workers : wpc'[v] \in Working => job'[v] < next'
      BY <3>1, <3>2, <2>1, <1>a, <1>b
    <3> QED
      BY <3>3, <3>4 DEF QueueOrder
  <2>5. NoOrphanChunk'
    BY <2>1, <1>a, <1>b DEF Ownership, NoOrphanChunk
  <2> QED
    BY <2>3, <2>4, <2>5
<1>2. CASE KeepsChunk(w)
  <2>1. wpc[w] \in Working /\ wpc'[w] \in Working /\ UNCHANGED <<job, next, fin>>
    BY <1>2 DEF KeepsChunk
  <2>2. QueueOrder' /\ OneFetcherPerChunk'
    BY <2>1, <1>a DEF Ownership, QueueOrder, OneFetcherPerChunk
  <2>3. NoOrphanChunk'
    BY <2>1, <1>a, <1>b DEF Ownership, NoOrphanChunk
  <2> QED
    BY <2>2, <2>3
<1>3. CASE FinishesChunk(w)
  <2>1. /\ wpc[w] \in Working /\ wpc'[w] \notin Working /\ next' = next
        /\ \A c \in Slots : fin'[c] = (fin[c] \/ c = job[w])
    BY <1>3, <1>b DEF FinishesChunk, Working, InAttempt
  <2>2. /\ job[w] \in Slots /\ job[w] < next
        /\ \A v \in Workers : v # w /\ wpc[v] \in Working => job[v] # job[w]
    BY <2>1, <1>b DEF Ownership, QueueOrder, OneFetcherPerChunk
  <2>3. \A v \in Workers : wpc'[v] \in Working =>
          v # w /\ wpc[v] \in Working /\ job'[v] = job[v] /\ job[v] \in Slots
    BY <2>1, <1>a, <1>b
  <2>4. QueueOrder'
    BY <2>1, <2>2, <2>3 DEF Ownership, QueueOrder
  <2>5. OneFetcherPerChunk'
    BY <2>1, <2>2, <2>3 DEF Ownership, OneFetcherPerChunk
  <2>6. NoOrphanChunk'
    BY <2>1, <2>2, <1>a, <1>b DEF Ownership, NoOrphanChunk
  <2> QED
    BY <2>4, <2>5, <2>6
<1>4. CASE Stops(w)
  <2>1. /\ wpc'[w] \notin Working /\ UNCHANGED <<next, fin>>
        /\ wpc[w] \notin Working \/ CtxDone
    BY <1>4 DEF Stops, Working, InAttempt
  <2>2. QueueOrder' /\ OneFetcherPerChunk'
    BY <2>1, <1>a DEF Ownership, QueueOrder, OneFetcherPerChunk
  <2>3. NoOrphanChunk'
    BY <2>1, <1>a, <1>b DEF Ownership, NoOrphanChunk
  <2> QED
    BY <2>2, <2>3
<1> QED
  BY <1>a, <1>1, <1>2, <1>3, <1>4

LEMMA NextOwnership == Ownership /\ [Next]_vars => Ownership'
<1> SUFFICES ASSUME Ownership, [Next]_vars PROVE Ownership'
  OBVIOUS
<1>1. TypeInv'
  BY NextTypeInv DEF Ownership
<1>2. QueueOrder' /\ OneFetcherPerChunk' /\ NoOrphanChunk'
  <2>1. CASE Handler
    <3>1. /\ UNCHANGED <<next, fin, job, gone>> /\ (cancelled => cancelled')
          /\ \/ wpc' = wpc
             \/ /\ next = 0 /\ \A c \in Slots : ~fin[c]
                /\ \A w \in Workers : wpc'[w] \notin Working
      BY <2>1, HandlerStep DEF Ownership, cVars, Working, InAttempt
    <3>2. QueueOrder' /\ OneFetcherPerChunk'
      BY <3>1 DEF Ownership, QueueOrder, OneFetcherPerChunk
    <3>3. NoOrphanChunk'
      BY <3>1 DEF Ownership, NoOrphanChunk, CtxDone, Slots
    <3> QED
      BY <3>2, <3>3
  <2>2. CASE \E w \in Workers : Local(w) \/ Network(w)
    BY <2>2, WorkerOwnership
  <2>3. CASE ClientLeaves \/ UNCHANGED vars
    <3>1. UNCHANGED <<next, fin, job, wpc, cancelled>> /\ (gone => gone')
      BY <2>3 DEF ClientLeaves, vars, hVars, cVars, wVars
    <3> QED
      BY <3>1 DEF Ownership, QueueOrder, OneFetcherPerChunk, NoOrphanChunk, CtxDone
  <2> QED
    BY <2>1, <2>2, <2>3 DEF Next, Rest
<1> QED
  BY <1>1, <1>2 DEF Ownership

(***************************************************************************)
(* A spool has one writer, and a chunk off the queue is never forgotten,   *)
(* even when spool writes fail half way.                                   *)
(***************************************************************************)
THEOREM OneWriterPerSpool == Spec => []OneFetcherPerChunk
<1>1. Ownership => OneFetcherPerChunk
  BY DEF Ownership
<1> QED
  BY InitOwnership, NextOwnership, <1>1, PTL DEF Spec

THEOREM NoChunkIsForgotten == Spec => []NoOrphanChunk
<1>1. Ownership => NoOrphanChunk
  BY DEF Ownership
<1> QED
  BY InitOwnership, NextOwnership, <1>1, PTL DEF Spec

-----------------------------------------------------------------------------
\* What a worker does to the spools: it appends to the one it holds, or nothing.
Appends(w) ==
  /\ wpc[w] \in Working
  /\ \E n \in Nat : data' = [data EXCEPT ![job[w]] = @ \o Units(job[w], n)]

LEMMA WorkerAppends ==
  ASSUME TypeInv, NEW w \in Workers, Local(w) \/ Network(w)
  PROVE  data' = data \/ Appends(w)
<1>1. CASE Push(w)
  <2>1. slice[w] \in Nat /\ wpc[w] \in Working
    BY <1>1, SplitAssumption DEF Push, TypeInv, TypeOK, Working, InAttempt
  <2> QED
    BY <1>1, <2>1 DEF Push, Appends
<1>2. CASE PushFails(w)
  <2>1. PICK k \in 0 .. slice[w] - 1 : data' = [data EXCEPT ![job[w]] = @ \o Units(job[w], k)]
    BY <1>2 DEF PushFails
  <2>2. wpc[w] \in Working /\ k \in Nat
    BY <1>2 DEF PushFails, Working, InAttempt
  <2> QED
    BY <2>1, <2>2 DEF Appends
<1>3. CASE Local(w) /\ ~Push(w) /\ ~PushFails(w)
  BY <1>3
     DEF Local, Claim, QueueEmpty, Abandon, EnterFetch, BeginAttempt, GiveUp, PushToClosed,
         cVars
<1>4. CASE Network(w)
  BY <1>4 DEF Network, Refused, Accepted, ReadSlice, ReadAll, ReadFails, cVars
<1> QED
  BY <1>1, <1>2, <1>3, <1>4

\* What appending means for the property.
LEMMA AppendKeeps ==
  ASSUME TypeInv, NEW b \in Slots, NEW n \in Nat,
         data' = [data EXCEPT ![b] = @ \o Units(b, n)],
         NEW c \in Slots
  PROVE  /\ Len(data[c]) <= Len(data'[c])
         /\ SubSeq(data'[c], 1, Len(data[c])) = data[c]
         /\ c # b => data'[c] = data[c]
<1>1. /\ data' \in [Slots -> Seq(Int)] /\ data \in [Slots -> Seq(Int)]
      /\ \A a \in Slots : a # b => data'[a] = data[a]
      /\ \A a \in Slots : Len(data'[a]) >= Len(data[a])
      /\ \A j \in 1 .. Len(data[b]) : data'[b][j] = data[b][j]
  BY SpoolGrows DEF TypeInv, TypeOK
<1>2. \A j \in 1 .. Len(data[c]) : data'[c][j] = data[c][j]
  BY <1>1
<1>3. \A p, q \in Seq(Int) :
        Len(p) <= Len(q) /\ (\A j \in 1 .. Len(p) : q[j] = p[j]) => SubSeq(q, 1, Len(p)) = p
  OBVIOUS
<1>4. data[c] \in Seq(Int) /\ data'[c] \in Seq(Int) /\ Len(data[c]) <= Len(data'[c])
  BY <1>1
<1> QED
  BY <1>1, <1>2, <1>3, <1>4

(***************************************************************************)
(* A spool only grows, and not once its chunk is finished: what drainTo    *)
(* read under the mutex is true for as long as it uses it.                 *)
(***************************************************************************)
THEOREM SpoolsOnlyGrow == Spec => SpoolAppendOnly
<1> DEFINE Grown(c) ==
      /\ Len(data[c]) <= Len(data'[c])
      /\ SubSeq(data'[c], 1, Len(data[c])) = data[c]
      /\ fin[c] => fin'[c] /\ data'[c] = data[c] /\ err'[c] = err[c]
<1>1. ASSUME Ownership, Next
      PROVE  \A c \in Slots : Grown(c)
  <2>1. ASSUME NEW c \in Slots, UNCHANGED <<data, fin, err>>
        PROVE  Grown(c)
    <3>1. data[c] \in Seq(Int)
      BY <1>1 DEF Ownership, TypeInv, TypeOK
    <3>2. \A p \in Seq(Int) : Len(p) <= Len(p) /\ SubSeq(p, 1, Len(p)) = p
      OBVIOUS
    <3> QED
      BY <2>1, <3>1, <3>2
  <2>2. CASE Handler
    <3>1. UNCHANGED <<data, fin, err>>
      BY <1>1, <2>2, HandlerStep DEF Ownership, cVars
    <3> QED
      BY <2>1, <3>1
  <2>3. CASE ClientLeaves \/ Rest
    <3>1. UNCHANGED <<data, fin, err>>
      BY <2>3 DEF ClientLeaves, Rest, vars, cVars
    <3> QED
      BY <2>1, <3>1
  <2>4. ASSUME NEW w \in Workers, Local(w) \/ Network(w), NEW c \in Slots
        PROVE  Grown(c)
    <3>1. TakesNext(w) \/ KeepsChunk(w) \/ FinishesChunk(w) \/ Stops(w)
      BY <1>1, <2>4, WorkerStep DEF Ownership
    <3>2. wpc[w] \in Working => job[w] \in Slots /\ ~fin[job[w]]
      <4>1. IsDecision(d) /\ (wpc[w] \in Working => job[w] \in Chunks)
        BY <1>1 DEF Ownership, TypeInv, TypeOK, JobsInPlan
      <4> QED
        BY <1>1, <4>1, PlanFacts DEF Ownership, OneFetcherPerChunk
    <3>3. fin[c] => fin'[c] /\ err'[c] = err[c]
      <4>1. fin \in [Slots -> BOOLEAN]
        BY <1>1 DEF Ownership, TypeInv, TypeOK
      <4> QED
        BY <3>1, <3>2, <4>1 DEF TakesNext, KeepsChunk, FinishesChunk, Stops
    <3>4. CASE data' = data
      <4>1. data[c] \in Seq(Int)
        BY <1>1 DEF Ownership, TypeInv, TypeOK
      <4>2. \A p \in Seq(Int) : Len(p) <= Len(p) /\ SubSeq(p, 1, Len(p)) = p
        OBVIOUS
      <4> QED
        BY <3>3, <3>4, <4>1, <4>2
    <3>5. CASE Appends(w)
      <4>1. PICK n \in Nat : data' = [data EXCEPT ![job[w]] = @ \o Units(job[w], n)]
        BY <3>5 DEF Appends
      <4>2. job[w] \in Slots /\ ~fin[job[w]]
        BY <3>2, <3>5 DEF Appends
      <4>3. /\ Len(data[c]) <= Len(data'[c])
            /\ SubSeq(data'[c], 1, Len(data[c])) = data[c]
            /\ c # job[w] => data'[c] = data[c]
        BY <1>1, <4>1, <4>2, AppendKeeps DEF Ownership
      <4> QED
        BY <3>3, <4>2, <4>3
    <3> QED
      BY <1>1, <2>4, <3>4, <3>5, WorkerAppends DEF Ownership
  <2> QED
    BY <1>1, <2>2, <2>3, <2>4 DEF Next
<1>2. Ownership /\ [Next]_vars => [\A c \in Slots : Grown(c)]_vars
  BY <1>1
<1> QED
  BY InitOwnership, NextOwnership, <1>2, PTL DEF Spec, SpoolAppendOnly

-----------------------------------------------------------------------------
(***************************************************************************)
(* The counter of a link.                                                  *)
(***************************************************************************)
AttemptsOn(l) == {w \in Workers : w[1] = l /\ wpc[w] \in InAttempt}

LEMMA AttemptsAreFinite ==
  ASSUME NEW l \in Links
  PROVE  IsFiniteSet(AttemptsOn(l)) /\ Cardinality(AttemptsOn(l)) \in Nat
<1>1. IsFiniteSet(1 .. WorkersPerLink)
  BY SplitAssumption, FS_Interval
<1>2. IsFiniteSet(Workers)
  BY <1>1, SplitAssumption, FS_Product DEF Workers
<1>3. IsFiniteSet(AttemptsOn(l))
  BY <1>2, FS_Subset DEF AttemptsOn
<1> QED
  BY <1>3, FS_CardinalityType

\* A worker begins an attempt and counts it, ends one and takes it off, or
\* does neither.
LEMMA WorkerCounts ==
  ASSUME TypeInv, NEW w \in Workers, Local(w) \/ Network(w)
  PROVE  \/ /\ wpc[w] \notin InAttempt /\ wpc'[w] \in InAttempt
            /\ active' = [active EXCEPT ![w[1]] = @ + 1]
         \/ /\ wpc[w] \in InAttempt /\ wpc'[w] \notin InAttempt
            /\ active' = [active EXCEPT ![w[1]] = @ - 1]
         \/ (wpc[w] \in InAttempt <=> wpc'[w] \in InAttempt) /\ active' = active
<1>a. wpc \in [Workers -> {"absent", "pull", "exit"} \cup Working]
  BY DEF TypeInv, TypeOK
<1>1. CASE BeginAttempt(w)
  BY <1>1, <1>a DEF BeginAttempt, InAttempt
<1>2. CASE Claim(w) \/ QueueEmpty(w) \/ Abandon(w) \/ EnterFetch(w) \/ GiveUp(w)
  BY <1>2, <1>a
     DEF Claim, QueueEmpty, Abandon, EnterFetch, GiveUp, Finish, InAttempt
<1>3. CASE Accepted(w) \/ ReadSlice(w) \/ Push(w)
  BY <1>3, <1>a DEF Accepted, ReadSlice, Push, InAttempt
<1>4. CASE ReadAll(w)
  BY <1>4, <1>a DEF ReadAll, Finish, InAttempt
<1>5. CASE Refused(w) \/ ReadFails(w) \/ PushToClosed(w) \/ PushFails(w)
  <2>1. wpc[w] \in InAttempt /\ AttemptFails(w)
    BY <1>5 DEF Refused, ReadFails, PushToClosed, PushFails, InAttempt
  <2> QED
    BY <2>1, <1>a DEF AttemptFails, LinkReleased, Finish, InAttempt
<1> QED
  BY <1>1, <1>2, <1>3, <1>4, <1>5 DEF Local, Network

LEMMA WorkerAccounts ==
  ASSUME TypeInv, ActiveIsAttempts, NEW w \in Workers, Local(w) \/ Network(w)
  PROVE  ActiveIsAttempts'
<1>a. \A v \in Workers : v # w => wpc'[v] = wpc[v]
  BY WorkerStep
<1>b. active \in [Links -> Int] /\ w[1] \in Links
  BY DEF TypeInv, TypeOK, Workers
<1>c. \A l \in Links : active[l] = Cardinality(AttemptsOn(l))
  BY DEF ActiveIsAttempts, AttemptsOn
<1>1. CASE /\ wpc[w] \notin InAttempt /\ wpc'[w] \in InAttempt
           /\ active' = [active EXCEPT ![w[1]] = @ + 1]
  <2>1. ASSUME NEW l \in Links
        PROVE  active'[l] = Cardinality(AttemptsOn(l)')
    <3>1. CASE l = w[1]
      <4>1. AttemptsOn(l)' = AttemptsOn(l) \cup {w} /\ w \notin AttemptsOn(l)
        BY <1>1, <1>a, <3>1 DEF AttemptsOn
      <4>2. IsFiniteSet(AttemptsOn(l)) /\ Cardinality(AttemptsOn(l)) \in Nat
        BY AttemptsAreFinite
      <4>3. Cardinality(AttemptsOn(l)') = Cardinality(AttemptsOn(l)) + 1
        BY <4>1, <4>2, FS_AddElement
      <4>4. active'[l] = active[l] + 1
        BY <1>1, <1>b, <3>1
      <4> QED
        BY <1>c, <4>3, <4>4
    <3>2. CASE l # w[1]
      <4>1. AttemptsOn(l)' = AttemptsOn(l)
        BY <1>a, <3>2 DEF AttemptsOn
      <4> QED
        BY <1>1, <1>b, <1>c, <3>2, <4>1
    <3> QED
      BY <3>1, <3>2
  <2> QED
    BY <2>1 DEF ActiveIsAttempts, AttemptsOn
<1>2. CASE /\ wpc[w] \in InAttempt /\ wpc'[w] \notin InAttempt
           /\ active' = [active EXCEPT ![w[1]] = @ - 1]
  <2>1. ASSUME NEW l \in Links
        PROVE  active'[l] = Cardinality(AttemptsOn(l)')
    <3>1. CASE l = w[1]
      <4>1. AttemptsOn(l)' = AttemptsOn(l) \ {w} /\ w \in AttemptsOn(l)
        BY <1>2, <1>a, <3>1 DEF AttemptsOn
      <4>2. IsFiniteSet(AttemptsOn(l)) /\ Cardinality(AttemptsOn(l)) \in Nat
        BY AttemptsAreFinite
      <4>3. Cardinality(AttemptsOn(l)') = Cardinality(AttemptsOn(l)) - 1
        BY <4>1, <4>2, FS_RemoveElement
      <4>4. active'[l] = active[l] - 1
        BY <1>2, <1>b, <3>1
      <4> QED
        BY <1>c, <4>3, <4>4
    <3>2. CASE l # w[1]
      <4>1. AttemptsOn(l)' = AttemptsOn(l)
        BY <1>a, <3>2 DEF AttemptsOn
      <4> QED
        BY <1>2, <1>b, <1>c, <3>2, <4>1
    <3> QED
      BY <3>1, <3>2
  <2> QED
    BY <2>1 DEF ActiveIsAttempts, AttemptsOn
<1>3. CASE (wpc[w] \in InAttempt <=> wpc'[w] \in InAttempt) /\ active' = active
  <2>1. \A l \in Links : AttemptsOn(l)' = AttemptsOn(l)
    BY <1>3, <1>a DEF AttemptsOn
  <2> QED
    BY <1>3, <1>c, <2>1 DEF ActiveIsAttempts, AttemptsOn
<1> QED
  BY <1>1, <1>2, <1>3, WorkerCounts

(***************************************************************************)
(* A link's counter is the number of attempts that run on it, whatever way *)
(* out of fetchChunkOnce they take.                                        *)
(***************************************************************************)
THEOREM LinkCountsAttempts == Spec => []ActiveIsAttempts
<1> DEFINE I == TypeInv /\ ActiveIsAttempts
<1>1. Init => I
  <2> SUFFICES ASSUME Init PROVE I
    OBVIOUS
  <2>1. \A l \in Links : active[l] = 0 /\ AttemptsOn(l) = {}
    BY DEF Init, AttemptsOn, InAttempt
  <2> QED
    BY <2>1, InitTypeInv, FS_EmptySet DEF ActiveIsAttempts, AttemptsOn
<1>2. I /\ [Next]_vars => I'
  <2> SUFFICES ASSUME I, [Next]_vars PROVE I'
    OBVIOUS
  <2>1. TypeInv'
    BY NextTypeInv
  <2>2. CASE \E w \in Workers : Local(w) \/ Network(w)
    BY <2>1, <2>2, WorkerAccounts
  <2>3. CASE Handler
    <3>1. active' = active /\ \A w \in Workers : wpc[w] \in InAttempt <=> wpc'[w] \in InAttempt
      BY <2>3, HandlerStep DEF InAttempt
    <3>2. \A l \in Links : AttemptsOn(l)' = AttemptsOn(l)
      BY <3>1 DEF AttemptsOn
    <3> QED
      BY <2>1, <3>1, <3>2 DEF ActiveIsAttempts, AttemptsOn
  <2>4. CASE ClientLeaves \/ UNCHANGED vars
    BY <2>1, <2>4 DEF ClientLeaves, vars, wVars, ActiveIsAttempts
  <2> QED
    BY <2>2, <2>3, <2>4 DEF Next, Rest
<1>3. I => ActiveIsAttempts
  OBVIOUS
<1> QED
  BY <1>1, <1>2, <1>3, PTL DEF Spec

-----------------------------------------------------------------------------
(***************************************************************************)
(* Only what the probe saw of the file is promised: one of the decisions,  *)
(* or a range that ends before the total it reported.                      *)
(***************************************************************************)
THEOREM OnlyWhatIsThere == Spec => []PromisedIsThere
<1> DEFINE I == TypeInv /\ PromisedIsThere
<1>1. Init => I
  BY InitTypeInv DEF Init, PromisedIsThere
<1>2. I /\ [Next]_vars => I'
  <2> SUFFICES ASSUME I, [Next]_vars PROVE I'
    OBVIOUS
  <2>1. TypeInv'
    BY NextTypeInv
  <2>2. d' = d \/ \E t \in Totals : d' = Adjusted(t)
    <3>1. CASE ProbeDiffers
      BY <3>1 DEF ProbeDiffers
    <3>2. CASE Handler /\ ~ProbeDiffers
      BY <3>2
         DEF Handler, Snapshot, ProbeAgrees, CreateSpool, CreateSpoolFails, StartWorkers,
             DrainWake, DrainWrite, DrainWriteFails, DrainReadFails, DrainMore, DrainNext,
             DrainFails, CloseSpool, Return, hVars
    <3>3. CASE \E w \in Workers : Local(w) \/ Network(w)
      BY <3>3, WorkerStep DEF hVars
    <3>4. CASE ClientLeaves \/ UNCHANGED vars
      BY <3>4 DEF ClientLeaves, vars, hVars
    <3> QED
      BY <3>1, <3>2, <3>3, <3>4 DEF Next, Rest
  <2>3. ASSUME NEW t \in Totals, d' = Adjusted(t)
        PROVE  d'.effEnd < d'.total
    <3> DEFINE e == Min2(d.effEnd, t - 1)
    <3>1. t \in Nat /\ d \in [effStart : Nat, effEnd : Nat, total : Nat]
      BY SplitAssumption DEF TypeInv, TypeOK, IsDecision
    <3>2. e < t
      BY <3>1 DEF Min2
    <3> HIDE DEF e
    <3>3. d' = [d EXCEPT !.effEnd = e, !.total = t]
      BY <2>3 DEF Adjusted, e
    <3> QED
      BY <3>1, <3>2, <3>3
  <2> QED
    BY <2>1, <2>2, <2>3 DEF PromisedIsThere
<1>3. I => PromisedIsThere
  OBVIOUS
<1> QED
  BY <1>1, <1>2, <1>3, PTL DEF Spec
=============================================================================
