--------------------------- MODULE DownloadProofs ---------------------------
(***************************************************************************)
(* What a range-split download ends in, and what it promises: DONE means   *)
(* exact, a body cut short has a cause, no temp file is left, and          *)
(* RangeSplit implements Download.  For every number of links, workers,    *)
(* attempts and chunks, and every range.                                   *)
(***************************************************************************)
EXTENDS RangeSplitProofs

(***************************************************************************)
(* DONE is exact, even when the disk fails.                                *)
(***************************************************************************)

\* What a step of a worker does to its attempt: begins one, pushes a slice,
\* or leaves windows and *pushed alone.  In the last case the spool may have
\* grown by a partial write, which ends the attempt, and a chunk that is
\* finished without an error was read to its end.
Begins(w) ==
  /\ wpc[w] \in Working /\ data' = data /\ UNCHANGED <<pushed, fin, err, job>>
  /\ from' = [from EXCEPT ![job[w]] = ResumeAt(job[w])]
  /\ fetched' = [fetched EXCEPT ![job[w]] = 0]

Pushes(w) ==
  LET c == job[w] IN
  /\ wpc[w] \in InAttempt /\ slice[w] \in Nat /\ UNCHANGED <<from, fin, err, job>>
  /\ data' = [data EXCEPT ![c] = @ \o Units(c, slice[w])]
  /\ fetched' = [fetched EXCEPT ![c] = @ + slice[w]]
  /\ pushed' = [pushed EXCEPT ![c] = @ + slice[w]]

LeavesWindow(w) ==
  /\ UNCHANGED <<pushed, from, fetched>>
  /\ wpc'[w] \in InAttempt => wpc[w] \in InAttempt /\ job'[w] = job[w]
  /\ FinishesChunk(w) /\ err'[job[w]] = "none" =>
       wpc[w] \in InAttempt /\ AllFetched(job[w])

LEMMA WorkerWindow ==
  ASSUME TypeInv, NEW w \in Workers, Local(w) \/ Network(w)
  PROVE  Begins(w) \/ Pushes(w) \/ LeavesWindow(w)
<1>a. /\ wpc \in [Workers -> {"absent", "pull", "exit"} \cup Working]
      /\ job \in [Workers -> Slots \cup {NoChunk}]
      /\ err \in [Slots -> {"none", "ctx", "exhausted"}]
      /\ wpc[w] \in Working => job[w] \in Slots
  <2>1. IsDecision(d) /\ (wpc[w] \in Working => job[w] \in Chunks)
    BY DEF TypeInv, TypeOK, JobsInPlan
  <2> QED
    BY <2>1, PlanFacts DEF TypeInv, TypeOK
<1>1. CASE BeginAttempt(w)
  BY <1>1 DEF BeginAttempt, Begins, Working
<1>2. CASE Push(w)
  <2>1. slice[w] \in Nat
    BY SplitAssumption DEF TypeInv, TypeOK
  <2> QED
    BY <1>2, <2>1 DEF Push, Pushes, InAttempt
<1>3. CASE Claim(w) \/ QueueEmpty(w) \/ Abandon(w) \/ EnterFetch(w)
  BY <1>3, <1>a
     DEF Claim, QueueEmpty, Abandon, EnterFetch, LeavesWindow, FinishesChunk, InAttempt,
         Working, cVars
<1>4. CASE Accepted(w) \/ ReadSlice(w)
  BY <1>4, <1>a
     DEF Accepted, ReadSlice, LeavesWindow, FinishesChunk, InAttempt, cVars
<1>5. CASE GiveUp(w)
  BY <1>5, <1>a DEF GiveUp, Finish, LeavesWindow, InAttempt, Working
<1>6. CASE ReadAll(w)
  BY <1>6, <1>a DEF ReadAll, Finish, LeavesWindow, InAttempt
<1>7. CASE Refused(w) \/ ReadFails(w) \/ PushToClosed(w) \/ PushFails(w)
  <2>1. AttemptFails(w) /\ wpc[w] \in Working /\ UNCHANGED <<pushed, from, fetched>>
    BY <1>7 DEF Refused, ReadFails, PushToClosed, PushFails, Working, InAttempt
  <2>2. ASSUME NEW e \in {"ctx", "exhausted"}, Finish(w, e)
        PROVE  LeavesWindow(w)
    <3>1. wpc'[w] = "pull" /\ err'[job[w]] = e
      BY <2>1, <2>2, <1>a DEF Finish
    <3> QED
      BY <2>1, <2>2, <3>1 DEF LeavesWindow, InAttempt
  <2>3. CASE wpc' = [wpc EXCEPT ![w] = "try"] /\ UNCHANGED <<fin, err, job>>
    BY <2>1, <2>3, <1>a DEF LeavesWindow, FinishesChunk, InAttempt
  <2> QED
    BY <2>1, <2>2, <2>3 DEF AttemptFails
<1> QED
  BY <1>1, <1>2, <1>3, <1>4, <1>5, <1>6, <1>7 DEF Local, Network

\* What ExactInv says of a worker and the chunk it holds.
LEMMA ExactHolds ==
  ASSUME Ownership, WorkExact, NEW w \in Workers, wpc[w] \in Working
  PROVE  /\ job[w] \in Chunks /\ job[w] \in Slots /\ ~fin[job[w]]
         /\ \A v \in Workers : v # w /\ wpc[v] \in Working => job[v] # job[w]
         /\ from[job[w]] \in Int /\ fetched[job[w]] \in Nat /\ pushed[job[w]] \in Nat
         /\ ChunkFirst(d, job[w]) \in Int /\ ChunkLast(d, job[w]) \in Int
         /\ wpc[w] \in InAttempt =>
              from[job[w]] + fetched[job[w]] = ChunkFirst(d, job[w]) + pushed[job[w]]
<1>1. IsDecision(d) /\ job[w] \in Chunks
  BY DEF Ownership, TypeInv, TypeOK, JobsInPlan
<1>2. /\ job[w] \in Slots
      /\ ChunkFirst(d, job[w]) \in Int /\ ChunkLast(d, job[w]) \in Int
  BY <1>1, PlanFacts
<1>3. from[job[w]] \in Int /\ fetched[job[w]] \in Nat /\ pushed[job[w]] \in Nat
  BY <1>2 DEF Ownership, TypeInv, TypeOK
<1>4. /\ ~fin[job[w]]
      /\ \A v \in Workers : v # w /\ wpc[v] \in Working => job[v] # job[w]
  BY DEF Ownership, OneFetcherPerChunk
<1> QED
  BY <1>1, <1>2, <1>3, <1>4 DEF WorkExact, AttemptAligned

LEMMA WorkerAligned ==
  ASSUME Ownership, WorkExact, NEW w \in Workers, Local(w) \/ Network(w)
  PROVE  AttemptAligned'
<1>a. /\ \A v \in Workers : v # w => wpc'[v] = wpc[v] /\ job'[v] = job[v]
      /\ d' = d
      /\ Begins(w) \/ Pushes(w) \/ LeavesWindow(w)
  BY WorkerStep, WorkerWindow DEF Ownership, hVars
<1>b. /\ from \in [Slots -> Int] /\ fetched \in [Slots -> Nat] /\ pushed \in [Slots -> Nat]
  BY DEF Ownership, TypeInv, TypeOK
<1>1. ASSUME NEW v \in Workers, v # w, wpc'[v] \in InAttempt
      PROVE  from'[job'[v]] + fetched'[job'[v]] = ChunkFirst(d', job'[v]) + pushed'[job'[v]]
  <2>1. wpc[v] \in InAttempt /\ wpc[v] \in Working /\ job'[v] = job[v]
    BY <1>1, <1>a DEF Working
  <2>2. /\ job[v] \in Slots
        /\ from[job[v]] + fetched[job[v]] = ChunkFirst(d, job[v]) + pushed[job[v]]
    BY <2>1, ExactHolds
  <2>3. wpc[w] \in Working => job[w] \in Slots /\ job[v] # job[w]
    BY <1>1, <2>1, ExactHolds
  <2>4. /\ from'[job[v]] = from[job[v]] /\ fetched'[job[v]] = fetched[job[v]]
        /\ pushed'[job[v]] = pushed[job[v]]
    BY <1>a, <1>b, <2>2, <2>3 DEF Begins, Pushes, LeavesWindow, Working
  <2> QED
    BY <1>a, <2>1, <2>2, <2>4
<1>2. ASSUME wpc'[w] \in InAttempt
      PROVE  from'[job'[w]] + fetched'[job'[w]] = ChunkFirst(d', job'[w]) + pushed'[job'[w]]
  <2>1. CASE Begins(w)
    <3>1. /\ job'[w] = job[w] /\ job[w] \in Slots /\ pushed' = pushed
          /\ ChunkFirst(d, job[w]) \in Int /\ pushed[job[w]] \in Nat
      BY <2>1, ExactHolds DEF Begins
    <3>2. from'[job[w]] = ChunkFirst(d, job[w]) + pushed[job[w]] /\ fetched'[job[w]] = 0
      BY <2>1, <1>b, <3>1 DEF Begins, ResumeAt
    <3> QED
      BY <1>a, <3>1, <3>2
  <2>2. CASE Pushes(w)
    <3> DEFINE c == job[w]
               n == slice[w]
    <3>1. wpc[w] \in InAttempt /\ wpc[w] \in Working /\ job'[w] = c /\ from' = from
      BY <2>2 DEF Pushes, Working
    <3>2. n \in Int
      BY <2>2 DEF Pushes
    <3>3. /\ c \in Slots /\ from[c] \in Int /\ fetched[c] \in Int /\ pushed[c] \in Int
          /\ ChunkFirst(d, c) \in Int
      BY <3>1, ExactHolds
    <3>4. from[c] + fetched[c] = ChunkFirst(d, c) + pushed[c]
      BY <3>1, ExactHolds
    <3>5. fetched'[c] = fetched[c] + n /\ pushed'[c] = pushed[c] + n
      BY <2>2, <1>b, <3>3 DEF Pushes
    <3> DEFINE f == from[c]
               p == fetched[c]
               g == ChunkFirst(d, c)
               q == pushed[c]
    <3> HIDE DEF c, n, f, p, g, q
    <3>6. f + (p + n) = g + (q + n)
      <4>1. f \in Int /\ p \in Int /\ g \in Int /\ q \in Int
        BY <3>3 DEF f, p, g, q
      <4>2. f + p = g + q
        BY <3>4 DEF f, p, g, q
      <4> QED
        BY <3>2, <4>1, <4>2
    <3>7. from'[c] + fetched'[c] = g + pushed'[c]
      BY <3>1, <3>5, <3>6 DEF f, p, q
    <3> QED
      BY <1>a, <3>1, <3>7 DEF g
  <2>3. CASE LeavesWindow(w)
    <3>1. wpc[w] \in InAttempt /\ wpc[w] \in Working /\ job'[w] = job[w]
          /\ UNCHANGED <<pushed, from, fetched>>
      BY <1>2, <2>3 DEF LeavesWindow, Working
    <3> QED
      BY <1>a, <3>1, ExactHolds
  <2> QED
    BY <1>a, <2>1, <2>2, <2>3
<1> QED
  BY <1>1, <1>2 DEF AttemptAligned

LEMMA WorkerCompletes ==
  ASSUME Ownership, WorkExact, NEW w \in Workers, Local(w) \/ Network(w)
  PROVE  FinishedComplete'
<1>a. /\ d' = d /\ Chunks' = Chunks
      /\ TakesNext(w) \/ KeepsChunk(w) \/ FinishesChunk(w) \/ Stops(w)
      /\ Begins(w) \/ Pushes(w) \/ LeavesWindow(w)
  BY WorkerStep, WorkerWindow DEF Ownership, hVars, Chunks
<1>b. /\ fin \in [Slots -> BOOLEAN] /\ pushed \in [Slots -> Nat] /\ IsDecision(d)
  BY DEF Ownership, TypeInv, TypeOK
<1>c. wpc[w] \in Working => job[w] \in Slots /\ ~fin[job[w]]
  BY ExactHolds
<1>1. ASSUME NEW c \in Chunks, fin'[c], err'[c] = "none"
      PROVE  pushed'[c] = ChunkLen(d, c)
  <2>0. c \in Slots
    BY <1>b, PlanFacts
  <2>1. CASE fin[c]
    <3>1. wpc[w] \in Working => c # job[w]
      BY <2>1, <1>c
    <3>2. err'[c] = err[c]
      BY <1>a, <2>0, <3>1 DEF TakesNext, KeepsChunk, FinishesChunk, Stops
    <3>3. pushed'[c] = pushed[c]
      BY <1>a, <1>b, <1>c, <2>0, <3>1 DEF Begins, Pushes, LeavesWindow, Working
    <3> QED
      BY <1>1, <2>1, <3>2, <3>3 DEF WorkExact, FinishedComplete
  <2>2. CASE ~fin[c]
    <3>1. FinishesChunk(w) /\ c = job[w] /\ wpc[w] \in Working
      BY <1>1, <1>a, <1>b, <2>0, <2>2
         DEF TakesNext, KeepsChunk, FinishesChunk, Stops
    <3>2. fin' # fin
      BY <1>1, <2>2
    <3>3. LeavesWindow(w)
      BY <1>a, <3>2 DEF Begins, Pushes
    <3>4. wpc[w] \in InAttempt /\ AllFetched(c) /\ pushed' = pushed
      BY <1>1, <3>1, <3>3 DEF LeavesWindow
    <3>5. /\ from[c] \in Int /\ fetched[c] \in Int /\ pushed[c] \in Int
          /\ ChunkFirst(d, c) \in Int /\ ChunkLast(d, c) \in Int
          /\ from[c] + fetched[c] = ChunkFirst(d, c) + pushed[c]
      BY <3>1, <3>4, ExactHolds
    <3>6. fetched[c] = ChunkLast(d, c) - from[c] + 1
      BY <3>4 DEF AllFetched, Expected
    <3>7. ChunkLen(d, c) = ChunkLast(d, c) - ChunkFirst(d, c) + 1
      BY <1>b, PlanSteps
    <3> QED
      BY <3>4, <3>5, <3>6, <3>7
  <2> QED
    BY <2>1, <2>2
<1> QED
  BY <1>1, <1>a DEF FinishedComplete

\* A step that appends n units where the window of the attempt stands.
LEMMA AppendSound ==
  ASSUME Ownership, WorkExact, NEW w \in Workers, wpc[w] \in InAttempt, NEW n \in Nat,
         data' = [data EXCEPT ![job[w]] = @ \o Units(job[w], n)], d' = d,
         pushed' = pushed \/ pushed' = [pushed EXCEPT ![job[w]] = @ + n]
  PROVE  /\ SpoolSound'
         /\ \A b \in Slots : Sound(b)' => Sound(b)
<1> DEFINE c == job[w]
<1>1. /\ c \in Slots /\ from[c] \in Int /\ fetched[c] \in Int /\ pushed[c] \in Nat
      /\ ChunkFirst(d, c) \in Int
      /\ from[c] + fetched[c] = ChunkFirst(d, c) + pushed[c]
  BY ExactHolds DEF Working
<1>2. pushed \in [Slots -> Nat] /\ data \in [Slots -> Seq(Int)] /\ TypeInv
  BY DEF Ownership, TypeInv, TypeOK
<1>3. /\ \A b \in Slots : b # c => data'[b] = data[b]
      /\ Len(data'[c]) = Len(data[c]) + n
      /\ \A j \in 1 .. Len(data[c]) : data'[c][j] = data[c][j]
      /\ \A j \in 1 .. n : data'[c][Len(data[c]) + j] = from[c] + fetched[c] + j - 1
  BY <1>1, <1>2, SpoolGrows
<1>4. /\ pushed'[c] = pushed[c] \/ pushed'[c] = pushed[c] + n
      /\ \A b \in Slots : b # c => pushed'[b] = pushed[b]
  BY <1>1, <1>2
<1>5. Len(data[c]) \in Nat /\ Len(data[c]) >= pushed[c]
  BY <1>1, <1>2 DEF WorkExact, SpoolSound
<1> HIDE DEF c
<1>6. Len(data'[c]) >= pushed'[c] /\ (Len(data'[c]) = pushed'[c] => Len(data[c]) = pushed[c])
  <2> DEFINE x == Len(data[c])
             y == Len(data'[c])
             p == pushed[c]
             q == pushed'[c]
  <2>1. x \in Nat /\ p \in Nat /\ x >= p /\ y = x + n /\ (q = p \/ q = p + n)
    BY <1>1, <1>3, <1>4, <1>5
  <2> HIDE DEF x, y, p, q
  <2>2. y >= q /\ (y = q => x = p)
    BY <2>1
  <2> QED
    BY <2>2 DEF x, y, p, q
<1>7. \A b \in Slots : Sound(b)' => Sound(b)
  BY <1>3, <1>4, <1>6 DEF Sound
<1>8. ASSUME Len(data'[c]) = pushed'[c], NEW j \in 1 .. Len(data'[c])
      PROVE  data'[c][j] = ChunkFirst(d, c) + j - 1
  <2>1. Len(data[c]) = pushed[c]
    BY <1>6, <1>8
  <2>2. CASE j \in 1 .. Len(data[c])
    BY <1>1, <1>3, <2>1, <2>2 DEF WorkExact, SpoolSound, Sound
  <2>3. CASE j \notin 1 .. Len(data[c])
    <3>1. j \in 1 .. pushed[c] + n /\ j \notin 1 .. pushed[c]
      BY <1>3, <1>8, <2>1, <2>3
    <3>2. j - pushed[c] \in 1 .. n /\ j = pushed[c] + (j - pushed[c])
      BY <1>1, <3>1
    <3>3. PICK i \in 1 .. n : j = pushed[c] + i
      BY <3>2
    <3>4. data'[c][j] = from[c] + fetched[c] + i - 1
      BY <1>3, <2>1, <3>3
    <3>5. from[c] + fetched[c] + i - 1 = ChunkFirst(d, c) + j - 1
      BY <1>1, <3>3
    <3> QED
      BY <3>4, <3>5
  <2> QED
    BY <2>2, <2>3
<1>9. ASSUME NEW b \in Slots, b # c
      PROVE  /\ Len(data'[b]) >= pushed'[b]
             /\ Sound(b)' => \A j \in 1 .. Len(data'[b]) : data'[b][j] = ChunkFirst(d, b) + j - 1
  <2>1. data'[b] = data[b] /\ pushed'[b] = pushed[b]
    BY <1>3, <1>4, <1>9
  <2> QED
    BY <2>1 DEF WorkExact, SpoolSound, Sound
<1>10. SpoolSound'
  <2> SUFFICES ASSUME NEW b \in Slots
               PROVE  /\ Len(data'[b]) >= pushed'[b]
                      /\ Len(data'[b]) = pushed'[b] =>
                           \A j \in 1 .. Len(data'[b]) :
                              data'[b][j] = ChunkFirst(d', b) + j - 1
    BY DEF SpoolSound, Sound
  <2>1. CASE b = c
    BY <2>1, <1>6, <1>8
  <2>2. CASE b # c
    BY <2>2, <1>9 DEF Sound
  <2> QED
    BY <2>1, <2>2
<1> QED
  BY <1>7, <1>10

LEMMA WorkerSound ==
  ASSUME Ownership, WorkExact, NEW w \in Workers, Local(w) \/ Network(w)
  PROVE  /\ SpoolSound'
         /\ \A b \in Slots : Sound(b)' => Sound(b)
<1>a. d' = d
  BY WorkerStep DEF Ownership, hVars
<1>1. CASE UNCHANGED <<data, pushed>>
  BY <1>1, <1>a DEF WorkExact, SpoolSound, Sound
<1>2. CASE Push(w)
  <2>1. /\ wpc[w] \in InAttempt /\ slice[w] \in Nat
        /\ data' = [data EXCEPT ![job[w]] = @ \o Units(job[w], slice[w])]
        /\ pushed' = [pushed EXCEPT ![job[w]] = @ + slice[w]]
    BY <1>2, SplitAssumption DEF Push, InAttempt, Ownership, TypeInv, TypeOK
  <2> QED
    BY <2>1, <1>a, AppendSound
<1>3. CASE PushFails(w)
  <2>1. PICK k \in 0 .. slice[w] - 1 : data' = [data EXCEPT ![job[w]] = @ \o Units(job[w], k)]
    BY <1>3 DEF PushFails
  <2>2. wpc[w] \in InAttempt /\ k \in Nat /\ pushed' = pushed
    BY <1>3 DEF PushFails, InAttempt
  <2> QED
    BY <2>1, <2>2, <1>a, AppendSound
<1>4. CASE Local(w) /\ ~Push(w) /\ ~PushFails(w)
  BY <1>1, <1>4
     DEF Local, Claim, QueueEmpty, Abandon, EnterFetch, BeginAttempt, GiveUp, PushToClosed,
         cVars
<1>5. CASE Network(w)
  BY <1>1, <1>5 DEF Network, Refused, Accepted, ReadSlice, ReadAll, ReadFails, cVars
<1> QED
  BY <1>2, <1>3, <1>4, <1>5

LEMMA WorkerExact ==
  ASSUME ExactInv, NEW w \in Workers, Local(w) \/ Network(w)
  PROVE  WorkExact' /\ DrainExact'
<1>a. Ownership /\ WorkExact /\ DrainExact
  BY DEF ExactInv
<1>1. WorkExact'
  BY <1>a, WorkerAligned, WorkerCompletes, WorkerSound DEF WorkExact
<1>2. UNCHANGED hVars
  BY <1>a, WorkerStep DEF Ownership
<1>3. cur \in Slots
  BY <1>a, DrainFacts DEF Ownership
<1>4. fin[cur] => fin'[cur] /\ err'[cur] = err[cur]
  <2>1. TakesNext(w) \/ KeepsChunk(w) \/ FinishesChunk(w) \/ Stops(w)
    BY <1>a, WorkerStep DEF Ownership
  <2>2. fin \in [Slots -> BOOLEAN] /\ (wpc[w] \in Working => ~fin[job[w]])
    BY <1>a DEF Ownership, TypeInv, TypeOK, OneFetcherPerChunk
  <2> QED
    BY <1>3, <2>1, <2>2 DEF TakesNext, KeepsChunk, FinishesChunk, Stops
<1>5. Sound(cur)' => Sound(cur)
  <2>1. cur' = cur /\ \A b \in Slots : Len(data'[b]) = pushed'[b] => Sound(b)
    BY <1>a, <1>2, WorkerSound DEF Sound, hVars
  <2> QED
    BY <1>3, <2>1 DEF Sound
<1>6. DrainExact'
  BY <1>a, <1>2, <1>4, <1>5
     DEF DrainExact, SnapTruth, DrainAhead, OutSound, DrainPosition, DoneTruth, DoneIsExact,
         hVars
<1> QED
  BY <1>1, <1>6

LEMMA InitExact == Init => ExactInv
<1> SUFFICES ASSUME Init PROVE ExactInv
  OBVIOUS
<1>1. Ownership
  BY InitOwnership
<1>2. /\ IsDecision(d) /\ cur = 0 /\ dlv = 0 /\ out = <<>> /\ cur \in Slots
      /\ \A c \in Slots : data[c] = <<>> /\ pushed[c] = 0 /\ ~fin[c]
      /\ \A w \in Workers : wpc[w] = "absent"
  BY <1>1, DrainFacts DEF Init, Ownership
<1>3. WorkExact
  <2>1. \A c \in Chunks : ~fin[c]
    BY <1>2, PlanFacts
  <2>2. AttemptAligned /\ FinishedComplete
    BY <1>2, <2>1 DEF AttemptAligned, FinishedComplete, InAttempt
  <2>3. SpoolSound
    BY <1>2 DEF SpoolSound
  <2> QED
    BY <2>2, <2>3 DEF WorkExact
<1>4. DrainExact
  BY <1>2, PlanSteps
     DEF Init, DrainExact, SnapTruth, DrainAhead, OutSound, DoneTruth, DoneIsExact
<1> QED
  BY <1>1, <1>3, <1>4 DEF ExactInv

\* Steps of the handler that deliver nothing.
LEMMA QuietExact ==
  ASSUME ExactInv, UNCHANGED <<d, cur, dlv, out, cVars, wVars>>,
         hpc' = "write" => (snap' = snap /\ hpc = "write")
                             \/ (snap'.done = fin[cur] /\ snap'.err = err[cur]),
         \/ result' = result /\ (hpc' \in {"closing", "returned"} \/ result = "none")
         \/ result' # "done" /\ hpc' \in {"closing", "returned"}
  PROVE  WorkExact' /\ DrainExact'
<1>1. WorkExact'
  BY DEF ExactInv, WorkExact, AttemptAligned, FinishedComplete, SpoolSound, Sound, Chunks,
         cVars, wVars
<1>2. SnapTruth'
  BY DEF ExactInv, DrainExact, SnapTruth, cVars
<1>3. DrainAhead' /\ OutSound'
  BY DEF ExactInv, DrainExact, DrainAhead, OutSound, DrainPosition, Sound, cVars
<1>4. DoneTruth'
  <2>1. CASE result' = result
    BY <2>1 DEF ExactInv, DrainExact, DoneTruth, DoneIsExact
  <2>2. CASE result' # "done"
    BY <2>2 DEF DoneTruth, DoneIsExact, ExactInv, DrainExact
  <2> QED
    BY <2>1, <2>2
<1> QED
  BY <1>1, <1>2, <1>3, <1>4 DEF DrainExact

\* The probe has the range adjusted before there is anything to deliver.
LEMMA ProbeExact ==
  ASSUME ExactInv, ProbeDiffers
  PROVE  WorkExact' /\ DrainExact'
<1>a. TypeInv /\ TypeInv' /\ result = "none"
  <2>1. TypeInv /\ Handler /\ hpc = "probe"
    BY DEF ExactInv, Ownership, Handler, ProbeDiffers
  <2>2. result = "none"
    BY <2>1 DEF ExactInv, DrainExact, DoneTruth
  <2> QED
    BY <2>1, <2>2, HandlerTypeInv
<1>1. /\ hpc = "probe" /\ UNCHANGED <<cur, dlv, snap, out, cVars, wVars>>
      /\ \/ hpc' = "returned" /\ result' = "unsatisfiable"
         \/ hpc' = "spool" /\ result' = result
  BY DEF ProbeDiffers
<1>2. /\ cur = 0 /\ dlv = 0 /\ out = <<>> /\ cur \in Slots
      /\ \A w \in Workers : wpc[w] = "absent"
      /\ \A c \in Slots : data[c] = <<>> /\ ~fin[c] /\ pushed[c] = 0
  BY <1>1, <1>a, DrainFacts DEF TypeInv, BeforeStart
<1>3. IsDecision(d')
  BY <1>a DEF TypeInv, TypeOK
<1>4. /\ ChunkFirst(d', 0) = d'.effStart /\ d'.effStart \in Nat
      /\ 0 .. NumChunks(d') - 1 \subseteq Slots
  <2>1. SplittableRange(d')
    BY <1>3 DEF IsDecision, SplittableRange
  <2> QED
    BY <2>1, <1>3, ChunksTile, PlanOf DEF SplittableRange
<1>5. WorkExact'
  <2>1. AttemptAligned' /\ SpoolSound'
    BY <1>1, <1>2 DEF AttemptAligned, SpoolSound, InAttempt, cVars, wVars
  <2>2. FinishedComplete'
    BY <1>1, <1>2, <1>4 DEF FinishedComplete, Chunks, cVars
  <2> QED
    BY <2>1, <2>2 DEF WorkExact
<1>6. DrainAhead' /\ OutSound'
  BY <1>1, <1>2, <1>4 DEF DrainAhead, OutSound
<1>7. SnapTruth' /\ DoneTruth'
  BY <1>1, <1>a DEF SnapTruth, DoneTruth, DoneIsExact
<1> QED
  BY <1>5, <1>6, <1>7 DEF DrainExact

\* A write of the drain: from a sound spool it continues what was delivered.
LEMMA WriteExact ==
  ASSUME ExactInv, DrainWrite
  PROVE  DrainExact'
<1> DEFINE k == WriteLen
           S == data[cur]
           T == SubSeq(S, dlv + 1, dlv + k)
           f == ChunkFirst(d, cur)
           s == d.effStart
           n == Len(out)
<1>1. /\ hpc = "write" /\ snap.avail \in Int /\ snap.avail > 0 /\ dlv \in Nat
      /\ S \in Seq(Int) /\ Len(S) \in Nat /\ dlv + snap.avail <= Len(S)
      /\ cur \in Slots /\ IsDecision(d)
  BY DrainFacts DEF DrainWrite, ExactInv, Ownership, TypeInv, DrainInSpool
<1>2. k \in Nat /\ k >= 1 /\ k <= snap.avail
  BY <1>1, SplitAssumption DEF WriteLen, Min2
<1>3. /\ UNCHANGED <<hpc, d, cur, result, data, pushed, fin, err>>
      /\ out' = out \o T /\ dlv' = dlv + k
  BY DEF DrainWrite, cVars
<1>4. snap'.done = snap.done /\ snap'.err = snap.err
  <2>1. snap \in [avail : Int, done : BOOLEAN, err : {"none", "ctx", "exhausted"}]
    BY DEF ExactInv, Ownership, TypeInv, TypeOK
  <2> QED
    BY <2>1 DEF DrainWrite
<1>5. f \in Int /\ s \in Int /\ n >= f - s + dlv
  BY <1>1, PlanFacts DEF IsDecision, ExactInv, DrainExact, DrainAhead
<1>6. out \in Seq(Int) /\ n \in Nat
  BY DEF ExactInv, Ownership, TypeInv, TypeOK
<1> HIDE DEF k, S
<1>7. T \in Seq(Int) /\ Len(T) = k /\ \A j \in 1 .. k : T[j] = S[dlv + j]
  BY <1>1, <1>2
<1> HIDE DEF T
<1>8. /\ Len(out') = n + k
      /\ \A j \in 1 .. n : out'[j] = out[j]
      /\ \A j \in 1 .. k : out'[n + j] = T[j]
  <2>1. \A p, q \in Seq(Int) :
          /\ Len(p) \in Nat /\ Len(p \o q) = Len(p) + Len(q)
          /\ \A j \in 1 .. Len(p) : (p \o q)[j] = p[j]
          /\ \A j \in 1 .. Len(q) : (p \o q)[Len(p) + j] = q[j]
    OBVIOUS
  <2> QED
    BY <2>1, <1>3, <1>6, <1>7
<1> HIDE DEF f, s, n
<1>9. DrainAhead'
  <2>1. n + k >= f - s + (dlv + k)
    BY <1>1, <1>2, <1>5, <1>6
  <2> QED
    BY <2>1, <1>3, <1>8 DEF DrainAhead, f, s
<1>10. ASSUME n + k = f - s + (dlv + k), Sound(cur), NEW i \in 1 .. n + k
       PROVE  out'[i] = s + i - 1
  <2>1. n = f - s + dlv
    BY <1>1, <1>2, <1>5, <1>6, <1>10
  <2>2. CASE i \in 1 .. n
    BY <1>8, <1>10, <2>1, <2>2 DEF ExactInv, DrainExact, OutSound, DrainPosition, f, s, n
  <2>3. CASE i \notin 1 .. n
    <3>1. i - n \in 1 .. k /\ i = n + (i - n)
      BY <1>2, <1>6, <2>3
    <3>2. PICK j \in 1 .. k : i = n + j
      BY <3>1
    <3>3. out'[i] = S[dlv + j]
      BY <1>7, <1>8, <3>2
    <3>4. dlv + j \in 1 .. Len(S)
      BY <1>1, <1>2
    <3>5. S[dlv + j] = f + (dlv + j) - 1
      BY <1>1, <1>10, <3>4 DEF ExactInv, WorkExact, SpoolSound, S, f
    <3>6. f + (dlv + j) - 1 = s + i - 1
      BY <1>1, <1>5, <1>6, <2>1, <3>2
    <3> QED
      BY <3>3, <3>5, <3>6
  <2> QED
    BY <2>2, <2>3
<1>11. OutSound'
  BY <1>3, <1>8, <1>10 DEF OutSound, DrainPosition, Sound, f, s
<1>12. SnapTruth' /\ DoneTruth'
  BY <1>1, <1>3, <1>4
     DEF ExactInv, DrainExact, SnapTruth, DoneTruth, DoneIsExact
<1> QED
  BY <1>9, <1>11, <1>12 DEF DrainExact

\* At the end of a chunk the drain has at least all of it; if it has no more
\* than that of this chunk and the ones before, what it delivered is exact.
LEMMA ChunkEndExact ==
  ASSUME ExactInv, DrainNext
  PROVE  /\ Len(out) >= ChunkLast(d, cur) + 1 - d.effStart
         /\ Len(out) = ChunkLast(d, cur) + 1 - d.effStart =>
              \A i \in 1 .. Len(out) : out[i] = d.effStart + i - 1
<1> DEFINE f == ChunkFirst(d, cur)
           z == ChunkLast(d, cur)
           s == d.effStart
           n == Len(out)
           p == pushed[cur]
           m == Len(data[cur])
<1>1. /\ hpc = "write" /\ snap.done /\ snap.err = "none" /\ dlv >= m
  BY DEF DrainNext, Drained, ChunkOK
<1>2. /\ IsDecision(d) /\ cur \in Chunks /\ cur \in Slots /\ dlv \in Nat /\ m \in Nat
      /\ dlv <= m
  BY DrainFacts DEF ExactInv, Ownership
<1>3. fin[cur] /\ err[cur] = "none"
  BY <1>1 DEF ExactInv, DrainExact, SnapTruth
<1>4. p = z - f + 1
  BY <1>2, <1>3, PlanSteps DEF ExactInv, WorkExact, FinishedComplete
<1>5. f \in Int /\ z \in Int /\ s \in Int /\ p \in Int /\ m >= p
  <2>1. p \in Nat
    BY <1>2 DEF ExactInv, Ownership, TypeInv, TypeOK
  <2> QED
    BY <1>2, <2>1, PlanSteps DEF ExactInv, WorkExact, SpoolSound
<1>6. n \in Nat /\ n >= f - s + dlv
  BY DEF ExactInv, Ownership, TypeInv, TypeOK, DrainExact, DrainAhead
<1>7. n = f - s + dlv /\ m = p => \A i \in 1 .. n : out[i] = s + i - 1
  BY DEF ExactInv, DrainExact, OutSound, DrainPosition, Sound
<1> HIDE DEF f, z, s, n, p, m
<1>8. dlv = m
  BY <1>1, <1>2
<1>9. n >= z + 1 - s
  BY <1>2, <1>4, <1>5, <1>6, <1>8
<1>10. n = z + 1 - s => n = f - s + dlv /\ m = p
  BY <1>2, <1>4, <1>5, <1>6, <1>8
<1> QED
  BY <1>7, <1>9, <1>10 DEF f, z, s, n

LEMMA DrainNextExact ==
  ASSUME ExactInv, DrainNext
  PROVE  DrainExact'
<1>1. UNCHANGED <<d, out>> /\ hpc = "write"
  BY DEF DrainNext
<1>2. /\ IsDecision(d) /\ cur \in Chunks /\ result = "none"
      /\ out \in Seq(Int) /\ Len(out) \in Nat
  BY <1>1, DrainFacts DEF ExactInv, Ownership, TypeInv, TypeOK, DrainExact, DoneTruth
<1>3. /\ Len(out) >= ChunkLast(d, cur) + 1 - d.effStart
      /\ Len(out) = ChunkLast(d, cur) + 1 - d.effStart =>
           \A i \in 1 .. Len(out) : out[i] = d.effStart + i - 1
  BY ChunkEndExact
<1>4. CASE cur + 1 \in Chunks
  <2>1. cur' = cur + 1 /\ dlv' = 0 /\ hpc' = "wait" /\ result' = result
    BY <1>4 DEF DrainNext
  <2>2. /\ ChunkFirst(d, cur + 1) = ChunkLast(d, cur) + 1
        /\ ChunkLast(d, cur) \in Int /\ d.effStart \in Int
    BY <1>2, <1>4, PlanSteps
  <2>3. ChunkFirst(d', cur') - d'.effStart + dlv' = ChunkLast(d, cur) + 1 - d.effStart
    BY <1>1, <2>1, <2>2
  <2>4. DrainAhead' /\ OutSound'
    BY <1>1, <1>3, <2>3 DEF DrainAhead, OutSound, DrainPosition
  <2>5. SnapTruth' /\ DoneTruth'
    BY <1>1, <1>2, <2>1 DEF SnapTruth, DoneTruth, DoneIsExact
  <2> QED
    BY <2>4, <2>5 DEF DrainExact
<1>5. CASE cur + 1 \notin Chunks
  <2>1. /\ hpc' = "closing" /\ UNCHANGED <<cur, dlv, data, pushed>>
        /\ result' = "done" => Len(out) = RangeSize(d)
    BY <1>5 DEF DrainNext, Leave, cVars
  <2>2. DrainAhead' /\ OutSound' /\ SnapTruth'
    BY <1>1, <2>1
       DEF ExactInv, DrainExact, DrainAhead, OutSound, DrainPosition, Sound, SnapTruth
  <2>3. RangeSize(d) = ChunkLast(d, cur) + 1 - d.effStart
    BY <1>2, <1>5, PlanSteps
  <2>4. ASSUME result' = "done"
        PROVE  out = [i \in 1 .. RangeSize(d) |-> d.effStart + i - 1]
    <3>1. Len(out) = RangeSize(d) /\ \A i \in 1 .. Len(out) : out[i] = d.effStart + i - 1
      BY <1>3, <2>1, <2>3, <2>4
    <3>2. out = [i \in 1 .. Len(out) |-> out[i]]
      BY <1>2
    <3> QED
      BY <3>1, <3>2
  <2>5. DoneTruth'
    BY <1>1, <2>1, <2>4 DEF DoneTruth, DoneIsExact
  <2> QED
    BY <2>2, <2>5 DEF DrainExact
<1> QED
  BY <1>4, <1>5

LEMMA HandlerExact ==
  ASSUME ExactInv, Handler
  PROVE  WorkExact' /\ DrainExact'
<1>a. WorkExact /\ (hpc \notin {"closing", "returned"} => result = "none")
  BY DEF ExactInv, DrainExact, DoneTruth
<1>b. ASSUME UNCHANGED <<d, cVars, wVars>>
      PROVE  WorkExact'
  BY <1>a, <1>b
     DEF WorkExact, AttemptAligned, FinishedComplete, SpoolSound, Sound, Chunks, cVars, wVars
<1>1. CASE Snapshot \/ ProbeAgrees \/ CreateSpool \/ CreateSpoolFails
  BY <1>1, <1>a, QuietExact
     DEF Snapshot, ProbeAgrees, CreateSpool, CreateSpoolFails, hVars
<1>2. CASE CloseSpool \/ Return
  BY <1>2, <1>a, QuietExact DEF CloseSpool, Return, hVars
<1>3. CASE DrainWake \/ DrainMore \/ DrainWriteFails \/ DrainReadFails \/ DrainFails
  <2>1. CASE DrainWake
    <3>1. snap'.done = fin[cur] /\ snap'.err = err[cur]
      BY <2>1 DEF DrainWake
    <3> QED
      BY <1>a, <2>1, <3>1, QuietExact DEF DrainWake
  <2>2. CASE DrainMore \/ DrainWriteFails \/ DrainReadFails \/ DrainFails
    BY <1>a, <2>2, QuietExact
       DEF DrainMore, DrainWriteFails, DrainReadFails, DrainFails, Truncate, Leave
  <2> QED
    BY <1>3, <2>1, <2>2
<1>4. CASE ProbeDiffers
  BY <1>4, ProbeExact
<1>5. CASE StartWorkers
  <2>1. WorkExact'
    BY <1>5, <1>a
       DEF StartWorkers, WorkExact, AttemptAligned, FinishedComplete, SpoolSound, Sound,
           InAttempt, Chunks, cVars
  <2>2. DrainExact'
    BY <1>5
       DEF StartWorkers, ExactInv, DrainExact, SnapTruth, DrainAhead, OutSound, DrainPosition,
           Sound, DoneTruth, DoneIsExact, cVars
  <2> QED
    BY <2>1, <2>2
<1>6. CASE DrainWrite
  BY <1>6, <1>b, WriteExact DEF DrainWrite
<1>7. CASE DrainNext
  BY <1>7, <1>b, DrainNextExact DEF DrainNext
<1> QED
  BY <1>1, <1>2, <1>3, <1>4, <1>5, <1>6, <1>7 DEF Handler

LEMMA NextExact == ExactInv /\ [Next]_vars => ExactInv'
<1> SUFFICES ASSUME ExactInv, [Next]_vars PROVE ExactInv'
  OBVIOUS
<1>1. Ownership'
  BY NextOwnership DEF ExactInv
<1>2. CASE Handler
  BY <1>1, <1>2, HandlerExact DEF ExactInv
<1>3. CASE \E w \in Workers : Local(w) \/ Network(w)
  BY <1>1, <1>3, WorkerExact DEF ExactInv
<1>4. CASE ClientLeaves \/ UNCHANGED vars
  <2>1. UNCHANGED <<hVars, cVars, wVars>>
    BY <1>4 DEF ClientLeaves, vars
  <2>2. result = "none" \/ hpc \in {"closing", "returned"}
    BY DEF ExactInv, DrainExact, DoneTruth
  <2> QED
    BY <1>1, <2>1, <2>2, QuietExact DEF ExactInv, hVars
<1> QED
  BY <1>2, <1>3, <1>4 DEF Next, Rest

(***************************************************************************)
(* A download that ends as DONE gave the client exactly its range, even    *)
(* when spool writes failed half way: what such a write left over makes    *)
(* the body too long, and never comes out as DONE.                         *)
(***************************************************************************)
THEOREM DoneMeansExact == Spec => []DoneIsExact
<1>1. ExactInv => DoneIsExact
  BY DEF ExactInv, DrainExact, DoneTruth
<1> QED
  BY InitExact, NextExact, <1>1, PTL DEF Spec

-----------------------------------------------------------------------------
(***************************************************************************)
(* A body cut short has a cause.                                           *)
(***************************************************************************)
ErrorHasCause ==
  \A c \in Slots :
    /\ ~fin[c] => err[c] = "none"
    /\ err[c] = "ctx" => CtxDone
    /\ err[c] = "exhausted" => tries[c] = MaxAttempts - 1
    /\ tries[c] <= MaxAttempts - 1

\* cancel() is called by nobody but a handler on its way out.
CancelIsLate == hpc \notin {"closing", "returned"} => ~cancelled

CauseInv == DeliveryInv /\ ErrorHasCause /\ CancelIsLate /\ TruncationHasCause

LEMMA InitCause == Init => CauseInv
<1> SUFFICES ASSUME Init PROVE CauseInv
  OBVIOUS
<1>1. DeliveryInv
  BY InitDelivery
<1>2. ErrorHasCause
  BY SplitAssumption DEF Init, ErrorHasCause
<1>3. CancelIsLate /\ TruncationHasCause
  BY DEF Init, CancelIsLate, TruncationHasCause
<1> QED
  BY <1>1, <1>2, <1>3 DEF CauseInv

\* A worker keeps the errors and may count an attempt, or finishes its chunk
\* with an error that has its cause.
CountsAttempt(w) ==
  /\ UNCHANGED <<fin, err>>
  /\ \/ tries' = tries
     \/ /\ wpc[w] \in Working /\ ~LastAttempt(job[w])
        /\ tries' = [tries EXCEPT ![job[w]] = @ + 1]

Settles(w) ==
  /\ wpc[w] \in Working /\ tries' = tries
  /\ fin' = [fin EXCEPT ![job[w]] = TRUE]
  /\ \/ err' = [err EXCEPT ![job[w]] = "none"]
     \/ err' = [err EXCEPT ![job[w]] = "ctx"] /\ CtxDone
     \/ err' = [err EXCEPT ![job[w]] = "exhausted"] /\ LastAttempt(job[w])

LEMMA WorkerErrors ==
  ASSUME NEW w \in Workers, Local(w) \/ Network(w)
  PROVE  CountsAttempt(w) \/ Settles(w)
<1>1. CASE GiveUp(w) \/ ReadAll(w)
  BY <1>1 DEF GiveUp, ReadAll, Finish, Settles, Working, InAttempt
<1>2. CASE Refused(w) \/ ReadFails(w) \/ PushToClosed(w) \/ PushFails(w)
  <2>1. AttemptFails(w) /\ wpc[w] \in Working
    BY <1>2 DEF Refused, ReadFails, PushToClosed, PushFails, Working, InAttempt
  <2> QED
    BY <2>1 DEF AttemptFails, Finish, CountsAttempt, Settles
<1>3. CASE BeginAttempt(w) \/ Push(w)
  BY <1>3 DEF BeginAttempt, Push, CountsAttempt
<1>4. CASE \/ Claim(w) \/ QueueEmpty(w) \/ Abandon(w) \/ EnterFetch(w)
           \/ Accepted(w) \/ ReadSlice(w)
  BY <1>4
     DEF Claim, QueueEmpty, Abandon, EnterFetch, Accepted, ReadSlice, CountsAttempt, cVars
<1> QED
  BY <1>1, <1>2, <1>3, <1>4 DEF Local, Network

\* An overlong spool stays overlong, and a settled error settled.
LEMMA WorkerCause ==
  ASSUME CauseInv, SpoolFaults = FALSE, NEW w \in Workers, Local(w) \/ Network(w)
  PROVE  ErrorHasCause' /\ CancelIsLate' /\ TruncationHasCause'
<1>a. /\ TypeInv /\ UNCHANGED <<hVars, gone>>
      /\ CountsAttempt(w) \/ Settles(w)
  BY WorkerStep, WorkerErrors DEF CauseInv, DeliveryInv
<1>b. /\ fin \in [Slots -> BOOLEAN] /\ err \in [Slots -> {"none", "ctx", "exhausted"}]
      /\ tries \in [Slots -> Nat] /\ IsDecision(d)
      /\ MaxAttempts \in Nat
  BY <1>a, SplitAssumption DEF TypeInv, TypeOK
<1>c. wpc[w] \in Working => job[w] \in Slots /\ ~fin[job[w]]
  BY WorkerHolds DEF CauseInv
<1>d. /\ CtxDone' = CtxDone /\ Chunks' = Chunks /\ Chunks \subseteq Slots
      /\ d' = d /\ hpc' = hpc /\ result' = result /\ cancelled' = cancelled /\ gone' = gone
  BY <1>a, <1>b, PlanFacts DEF CtxDone, Chunks, hVars
<1>1. ErrorHasCause'
  <2>1. CASE CountsAttempt(w)
    <3>1. ASSUME NEW c \in Slots
          PROVE  /\ tries'[c] <= MaxAttempts - 1
                 /\ err[c] = "exhausted" => tries'[c] = tries[c]
      <4>1. CASE tries'[c] = tries[c]
        BY <4>1 DEF CauseInv, ErrorHasCause
      <4>2. CASE tries'[c] # tries[c]
        <5>1. c = job[w] /\ wpc[w] \in Working /\ ~LastAttempt(c) /\ tries'[c] = tries[c] + 1
          BY <2>1, <4>2, <1>b DEF CountsAttempt
        <5>2. err[c] = "none"
          BY <5>1, <1>c DEF CauseInv, ErrorHasCause
        <5>3. tries[c] \in Nat /\ tries[c] + 1 < MaxAttempts
          BY <5>1, <1>b DEF LastAttempt
        <5> QED
          BY <5>1, <5>2, <5>3, <1>b
      <4> QED
        BY <4>1, <4>2
    <3> QED
      BY <2>1, <3>1, <1>d DEF CountsAttempt, CauseInv, ErrorHasCause
  <2>2. CASE Settles(w)
    <3>1. ASSUME NEW c \in Slots, c # job[w]
          PROVE  fin'[c] = fin[c] /\ err'[c] = err[c] /\ tries'[c] = tries[c]
      BY <2>2, <3>1, <1>b DEF Settles
    <3>2. /\ job[w] \in Slots /\ fin'[job[w]] /\ tries'[job[w]] = tries[job[w]]
          /\ err'[job[w]] = "ctx" => CtxDone
          /\ err'[job[w]] = "exhausted" => LastAttempt(job[w])
      BY <2>2, <1>b, <1>c DEF Settles
    <3>3. LastAttempt(job[w]) => tries[job[w]] = MaxAttempts - 1
      <4>1. tries[job[w]] \in Nat /\ tries[job[w]] <= MaxAttempts - 1
        BY <3>2, <1>b DEF CauseInv, ErrorHasCause
      <4> QED
        BY <4>1, <1>b DEF LastAttempt
    <3> QED
      BY <3>1, <3>2, <3>3, <1>d DEF CauseInv, ErrorHasCause
  <2> QED
    BY <1>a, <2>1, <2>2
<1>2. CancelIsLate'
  BY <1>d DEF CauseInv, CancelIsLate
<1>3. TruncationHasCause'
  <2>1. ASSUME NEW c \in Chunks, err[c] = "exhausted"
        PROVE  err'[c] = "exhausted" /\ tries'[c] = tries[c]
    <3>1. c \in Slots /\ fin[c]
      BY <2>1, <1>b, <1>d DEF CauseInv, ErrorHasCause
    <3>2. c # job[w] \/ wpc[w] \notin Working
      BY <3>1, <1>c
    <3> QED
      BY <2>1, <3>1, <3>2, <1>a, <1>b DEF CountsAttempt, Settles
  <2>2. ASSUME NEW c \in Chunks, Len(data[c]) > ChunkLen(d, c)
        PROVE  Len(data'[c]) > ChunkLen(d, c)
    <3>1. c \in Slots /\ Len(data[c]) \in Int /\ ChunkLen(d, c) \in Int
      BY <1>a, <1>b, <1>d, PlanSteps DEF TypeInv, TypeOK
    <3>2. Len(data'[c]) \in Int /\ Len(data'[c]) >= Len(data[c])
      <4>1. CASE data' = data
        BY <3>1, <4>1
      <4>2. CASE Appends(w)
        <5>1. PICK n \in Nat : data' = [data EXCEPT ![job[w]] = @ \o Units(job[w], n)]
          BY <4>2 DEF Appends
        <5>2. job[w] \in Slots
          BY <4>2, <1>c DEF Appends
        <5>3. /\ data' \in [Slots -> Seq(Int)]
              /\ \A b \in Slots : Len(data'[b]) >= Len(data[b])
          BY <5>1, <5>2, <1>a, SpoolGrows
        <5> QED
          BY <3>1, <5>3
      <4> QED
        BY <4>1, <4>2, <1>a, WorkerAppends
    <3> QED
      BY <2>2, <3>1, <3>2
  <2> QED
    BY <2>1, <2>2, <1>d DEF CauseInv, TruncationHasCause
<1> QED
  BY <1>1, <1>2, <1>3

\* The client's Write is refused for its length only if the spool is overlong.
LEMMA TooLongHasCause ==
  ASSUME DeliveryInv, hpc = "write", snap.avail > 0, ~Fits
  PROVE  cur \in Chunks /\ Len(data[cur]) > ChunkLen(d, cur)
<1> DEFINE f == ChunkFirst(d, cur)
           z == ChunkLast(d, cur)
           s == d.effStart
           e == d.effEnd
           n == Len(out)
           m == Len(data[cur])
           k == WriteLen
<1>1. /\ cur \in Chunks /\ IsDecision(d) /\ m \in Nat /\ dlv \in Nat
      /\ snap.avail \in Int /\ dlv + snap.avail <= m
  BY DrainFacts DEF DeliveryInv, TypeInv, DrainInSpool
<1>2. k \in Int /\ k <= snap.avail
  BY <1>1, SplitAssumption DEF WriteLen, Min2
<1>3. /\ f \in Int /\ z \in Int /\ s \in Int /\ e \in Int /\ z <= e
      /\ RangeSize(d) = e - s + 1 /\ ChunkLen(d, cur) = z - f + 1
  BY <1>1, PlanSteps
<1>4. n = f - s + dlv
  BY DEF DeliveryInv, DrainPosition
<1>5. ~(n + k <= RangeSize(d))
  BY DEF Fits
<1> HIDE DEF f, z, s, e, n, m, k
<1>6. m > z - f + 1
  BY <1>1, <1>2, <1>3, <1>4, <1>5
<1> QED
  BY <1>1, <1>3, <1>6 DEF m

LEMMA HandlerCause ==
  ASSUME CauseInv, SpoolFaults = FALSE, Handler
  PROVE  ErrorHasCause' /\ CancelIsLate' /\ TruncationHasCause'
<1>a. /\ TypeInv /\ UNCHANGED <<cVars, gone>> /\ (cancelled => cancelled')
      /\ IsDecision(d) /\ cur \in Slots
      /\ hpc \notin {"closing", "returned"} => result = "none" /\ ~cancelled
  BY HandlerStep, DrainFacts DEF CauseInv, DeliveryInv, ResultTruth, CancelIsLate
<1>1. ErrorHasCause'
  BY <1>a DEF CauseInv, ErrorHasCause, CtxDone, cVars
<1>b. ASSUME UNCHANGED d, result' = result \/ result' # "truncated"
      PROVE  TruncationHasCause'
  BY <1>a, <1>b DEF CauseInv, TruncationHasCause, Chunks, cVars
<1>2. CASE \/ Snapshot \/ ProbeAgrees \/ CreateSpool \/ StartWorkers
           \/ DrainWake \/ DrainWrite \/ DrainMore \/ CloseSpool \/ Return
  <2>1. UNCHANGED d /\ (cancelled' = cancelled \/ hpc' = "returned")
    BY <1>2
       DEF Snapshot, ProbeAgrees, CreateSpool, StartWorkers, DrainWake, DrainWrite, DrainMore,
           CloseSpool, Return, hVars
  <2>2. result' = result \/ result' = "panic"
    BY <1>2
       DEF Snapshot, ProbeAgrees, CreateSpool, StartWorkers, DrainWake, DrainWrite, DrainMore,
           CloseSpool, Return, hVars
  <2>3. hpc' \notin {"closing", "returned"} => hpc \notin {"closing", "returned"}
    BY <1>2
       DEF Snapshot, ProbeAgrees, CreateSpool, StartWorkers, DrainWake, DrainWrite, DrainMore,
           CloseSpool, Return, hVars
  <2> QED
    BY <1>a, <1>1, <1>b, <2>1, <2>2, <2>3 DEF CancelIsLate
<1>3. CASE ProbeDiffers
  <2>1. hpc = "probe" /\ UNCHANGED cancelled /\ result' \in {"unsatisfiable", result}
    BY <1>3 DEF ProbeDiffers
  <2> QED
    BY <1>a, <1>1, <2>1 DEF CancelIsLate, TruncationHasCause
<1>4. CASE CreateSpoolFails
  BY <1>4 DEF CreateSpoolFails
<1>5. CASE DrainNext
  <2>1. hpc = "write" /\ UNCHANGED <<d, cancelled>> /\ result' \in {result, "done", "mismatch"}
    BY <1>5 DEF DrainNext, Leave
  <2> QED
    BY <1>a, <1>1, <1>b, <2>1 DEF CancelIsLate
<1>6. CASE DrainWriteFails \/ DrainReadFails
  <2>1. hpc = "write" /\ snap.avail > 0 /\ hpc' = "closing" /\ UNCHANGED d /\ (gone \/ ~Fits)
    BY <1>6 DEF DrainWriteFails, DrainReadFails, Truncate, Leave
  <2>2. TruncationHasCause'
    BY <1>a, <2>1, TooLongHasCause DEF CauseInv, TruncationHasCause, Chunks, cVars
  <2> QED
    BY <1>1, <2>1, <2>2 DEF CancelIsLate
<1>7. CASE DrainFails
  <2>1. /\ hpc = "write" /\ snap.done /\ snap.err # "none" /\ hpc' = "closing" /\ UNCHANGED d
    BY <1>7 DEF DrainFails, Drained, ChunkOK, Truncate, Leave
  <2>2. err[cur] # "none" /\ err[cur] \in {"none", "ctx", "exhausted"}
    BY <1>a, <2>1 DEF CauseInv, DeliveryInv, SnapTruth, TypeInv, TypeOK
  <2>3. gone \/ (cur \in Chunks /\ err[cur] = "exhausted" /\ tries[cur] = MaxAttempts - 1)
    <3>1. err[cur] = "ctx" => CtxDone
      BY <1>a DEF CauseInv, ErrorHasCause
    <3>2. err[cur] = "exhausted" => tries[cur] = MaxAttempts - 1
      BY <1>a DEF CauseInv, ErrorHasCause
    <3>3. cur \in Chunks
      BY <1>a, DrainFacts
    <3> QED
      BY <1>a, <2>1, <2>2, <3>1, <3>2, <3>3 DEF CtxDone
  <2>4. TruncationHasCause'
    BY <1>a, <2>1, <2>3 DEF TruncationHasCause, Chunks, cVars
  <2> QED
    BY <1>1, <2>1, <2>4 DEF CancelIsLate
<1> QED
  BY <1>2, <1>3, <1>4, <1>5, <1>6, <1>7 DEF Handler

(***************************************************************************)
(* A body is cut short only if the client left, a chunk used its whole     *)
(* retry budget, or a spool holds more than its chunk.                     *)
(***************************************************************************)
THEOREM TruncationsAreExplained ==
  ASSUME SpoolFaults = FALSE
  PROVE  Spec => []TruncationHasCause
<1>1. CauseInv /\ [Next]_vars => CauseInv'
  <2> SUFFICES ASSUME CauseInv, [Next]_vars PROVE CauseInv'
    OBVIOUS
  <2>1. DeliveryInv'
    BY NextDelivery DEF CauseInv
  <2>2. CASE Handler
    BY <2>1, <2>2, HandlerCause DEF CauseInv
  <2>3. CASE \E w \in Workers : Local(w) \/ Network(w)
    BY <2>1, <2>3, WorkerCause DEF CauseInv
  <2>4. CASE ClientLeaves \/ UNCHANGED vars
    <3>1. UNCHANGED <<hVars, cVars>> /\ (gone => gone')
      BY <2>4 DEF ClientLeaves, vars
    <3> QED
      BY <2>1, <3>1
         DEF CauseInv, ErrorHasCause, CancelIsLate, TruncationHasCause, CtxDone, Chunks,
             hVars, cVars
  <2> QED
    BY <2>2, <2>3, <2>4 DEF Next, Rest
<1>2. CauseInv => TruncationHasCause
  BY DEF CauseInv
<1> QED
  BY InitCause, <1>1, <1>2, PTL DEF Spec

-----------------------------------------------------------------------------
(***************************************************************************)
(* A handler that returns has removed its temp files, if creating one does *)
(* not fail ("temp files are removed no matter how we exit", lines         *)
(* 334-335).                                                               *)
(***************************************************************************)
THEOREM ReturnsWithoutSpools ==
  ASSUME SpoolFaults = FALSE
  PROVE  Spec => []NoSpoolLeak
<1> DEFINE I == hpc \in {"snapshot", "probe", "returned"} => files = {}
<1>1. Init => I
  BY DEF Init
<1>2. TypeInv /\ I /\ [Next]_vars => I'
  <2> SUFFICES ASSUME TypeInv, I, [Next]_vars PROVE I'
    OBVIOUS
  <2>1. CASE Snapshot \/ ProbeAgrees \/ ProbeDiffers
    BY <2>1 DEF Snapshot, ProbeAgrees, ProbeDiffers
  <2>2. CASE CreateSpool \/ CreateSpoolFails \/ StartWorkers
    BY <2>2 DEF CreateSpool, CreateSpoolFails, StartWorkers, hVars
  <2>3. CASE \/ DrainWake \/ DrainWrite \/ DrainWriteFails \/ DrainReadFails
             \/ DrainMore \/ DrainNext \/ DrainFails
    BY <2>3
       DEF DrainWake, DrainWrite, DrainWriteFails, DrainReadFails, DrainMore, DrainNext,
           DrainFails, Truncate, Leave
  <2>4. CASE CloseSpool \/ Return
    BY <2>4 DEF CloseSpool, Return, ToClose, hVars
  <2>5. CASE \E w \in Workers : Local(w) \/ Network(w)
    <3>1. hpc' = hpc /\ files' = files
      BY <2>5
         DEF Local, Network, Claim, QueueEmpty, Abandon, EnterFetch, BeginAttempt, GiveUp,
             Push, PushToClosed, PushFails, Refused, Accepted, ReadSlice, ReadAll, ReadFails,
             hVars
    <3> QED
      BY <3>1
  <2>6. CASE ClientLeaves \/ UNCHANGED vars
    BY <2>6 DEF ClientLeaves, vars, hVars
  <2> QED
    BY <2>1, <2>2, <2>3, <2>4, <2>5, <2>6 DEF Next, Handler, Rest
<1>3. TypeInv /\ [Next]_vars => TypeInv'
  BY NextTypeInv
<1>4. I => NoSpoolLeak
  BY DEF NoSpoolLeak
<1> QED
  BY InitTypeInv, <1>1, <1>2, <1>3, <1>4, PTL DEF Spec

-----------------------------------------------------------------------------
(***************************************************************************)
(* The promise: RangeSplit implements Download.                            *)
(***************************************************************************)

\* The phase of the promise, by the handler's result and position.
LEMMA PhaseNow ==
  /\ result = "none" /\ hpc \in {"snapshot", "probe"} => AbstractPhase = "open"
  /\ result = "none" /\ hpc \notin {"snapshot", "probe"} => AbstractPhase = "flowing"
  /\ result = "done" => AbstractPhase = "complete"
  /\ result \in {"panic", "unsatisfiable", "truncated"} => AbstractPhase = "cut"
BY DEF AbstractPhase

\* The same after a step.
LEMMA PhaseNext ==
  /\ result' = "none" /\ hpc' \in {"snapshot", "probe"} => AbstractPhase' = "open"
  /\ result' = "none" /\ hpc' \notin {"snapshot", "probe"} => AbstractPhase' = "flowing"
  /\ result' = "done" => AbstractPhase' = "complete"
  /\ result' \in {"panic", "unsatisfiable", "truncated"} => AbstractPhase' = "cut"
BY DEF AbstractPhase

\* The promise sees neither the deferred calls nor the wait for a spool.
LEMMA UnseenSteps ==
  ASSUME UNCHANGED <<d, out, result>>,
         hpc' = hpc \/ result # "none"
           \/ (hpc = "snapshot" /\ hpc' = "probe")
           \/ (hpc \notin {"snapshot", "probe"} /\ hpc' \notin {"snapshot", "probe"})
  PROVE  UNCHANGED Promise!vars
<1>1. UNCHANGED <<AbstractRange(d), out>>
  BY DEF AbstractRange
<1>2. AbstractPhase' = AbstractPhase
  BY DEF AbstractPhase
<1> QED
  BY <1>1, <1>2 DEF Promise!vars

LEMMA PromiseInit == Init => Promise!Init
<1> SUFFICES ASSUME Init PROVE Promise!Init
  OBVIOUS
<1>1. AbstractRange(d) \in {AbstractRange(r) : r \in Decisions}
  BY DEF Init
<1>2. AbstractPhase = "open" /\ out = <<>>
  BY PhaseNow DEF Init
<1> QED
  BY <1>1, <1>2 DEF Promise!Init

\* However the handler leaves early, the promise is cut short.
LEMMA LeavingCuts ==
  ASSUME result = "none", hpc # "closing", hpc # "returned",
         UNCHANGED <<d, out>>, result' \in {"panic", "unsatisfiable", "truncated"}
  PROVE  Promise!Cut
<1>1. UNCHANGED <<AbstractRange(d), out>>
  BY DEF AbstractRange
<1>2. AbstractPhase \in {"open", "flowing"} /\ AbstractPhase' = "cut"
  BY PhaseNow, PhaseNext
<1> QED
  BY <1>1, <1>2 DEF Promise!Cut

\* When the probe is over the range is settled, with an end it had or an
\* earlier one.
LEMMA ProbeSettles ==
  ASSUME DeliveryInv, hpc = "probe", hpc' = "spool", UNCHANGED <<result, out>>,
         NEW e \in Int, d.effStart <= e, e <= d.effEnd,
         d'.effStart = d.effStart, d'.effEnd = e
  PROVE  Promise!Settle
<1>1. result = "none"
  BY DEF DeliveryInv, ResultTruth
<1>2. AbstractPhase = "open" /\ AbstractPhase' = "flowing"
  BY <1>1, PhaseNow, PhaseNext
<1>3. AbstractRange(d)' = [AbstractRange(d) EXCEPT !.last = e]
  BY DEF AbstractRange
<1>4. e \in AbstractRange(d).first .. AbstractRange(d).last
  <2>1. d.effStart \in Int /\ d.effEnd \in Int
    BY DrainFacts DEF DeliveryInv, IsDecision
  <2> QED
    BY <2>1 DEF AbstractRange
<1> QED
  BY <1>2, <1>3, <1>4 DEF Promise!Settle

\* What the drain writes is what comes next in the range.
LEMMA WriteDelivers ==
  ASSUME DeliveryInv, DrainWrite
  PROVE  Promise!Deliver
<1> DEFINE k == WriteLen
           S == data[cur]
           T == SubSeq(S, dlv + 1, dlv + k)
           f == ChunkFirst(d, cur)
           s == d.effStart
           m == Len(out)
<1>1. /\ hpc = "write" /\ snap.avail \in Int /\ snap.avail > 0 /\ dlv \in Nat
      /\ S \in Seq(Int) /\ Len(S) \in Nat /\ dlv + snap.avail <= Len(S)
  BY DrainFacts DEF DrainWrite, DeliveryInv, TypeInv, DrainInSpool
<1>2. k \in Nat /\ k >= 1 /\ k <= snap.avail
  BY <1>1, SplitAssumption DEF WriteLen, Min2
<1>3. UNCHANGED <<hpc, d, result>> /\ m + k <= RangeSize(d) /\ out' = out \o T
  BY DEF DrainWrite, Fits
<1>4. /\ \A j \in 1 .. Len(S) : S[j] = f + j - 1
      /\ f \in Int /\ s \in Int /\ RangeSize(d) = d.effEnd - s + 1 /\ d.effEnd \in Int
      /\ m = f - s + dlv
  BY DrainFacts, PlanSteps DEF DeliveryInv, SpoolContents, DrainPosition
<1>5. m \in Nat
  BY DEF DeliveryInv, TypeInv, TypeOK
<1> HIDE DEF k, S, f, s, m
<1>6. T = [j \in 1 .. k |-> s + m + j - 1]
  <2>1. T = [j \in 1 .. k |-> S[dlv + j]]
    BY <1>1, <1>2
  <2>2. \A j \in 1 .. k : S[dlv + j] = s + m + j - 1
    <3>1. \A j \in 1 .. k : dlv + j \in 1 .. Len(S)
      BY <1>1, <1>2
    <3>2. \A j \in 1 .. k : S[dlv + j] = f + (dlv + j) - 1
      BY <3>1, <1>4
    <3> QED
      BY <3>2, <1>1, <1>2, <1>4
  <2> QED
    BY <2>1, <2>2
<1> HIDE DEF T
<1>7. result = "none" /\ result' = "none" /\ hpc' = "write"
  BY <1>1, <1>3 DEF DeliveryInv, ResultTruth
<1>8. AbstractPhase = "flowing" /\ AbstractPhase' = "flowing"
  BY <1>1, <1>7, PhaseNow, PhaseNext
<1>9. UNCHANGED AbstractRange(d)
  BY <1>3 DEF AbstractRange
<1>10. AbstractRange(d).first = s /\ AbstractRange(d).last = d.effEnd
  BY DEF AbstractRange, s
<1>11. k \in 1 .. (AbstractRange(d).last - AbstractRange(d).first + 1) - m
  BY <1>2, <1>3, <1>4, <1>5, <1>10
<1>12. out' = out \o [j \in 1 .. k |-> AbstractRange(d).first + m + j - 1]
  BY <1>3, <1>6, <1>10
<1> QED
  BY <1>8, <1>9, <1>11, <1>12 DEF Promise!Deliver, Promise!Length, m

\* The drain goes on to the next chunk unseen; after the last one the client
\* has the whole range.
LEMMA LastChunkCompletes ==
  ASSUME DeliveryInv, DeliveryInv', DrainNext
  PROVE  Promise!Complete \/ UNCHANGED Promise!vars
<1>1. hpc = "write" /\ UNCHANGED <<d, out>> /\ result = "none"
  BY DEF DrainNext, DeliveryInv, ResultTruth
<1>2. CASE cur + 1 \in Chunks
  <2>1. hpc' = "wait" /\ UNCHANGED result
    BY <1>2 DEF DrainNext
  <2> QED
    BY <1>1, <2>1, UnseenSteps
<1>3. CASE cur + 1 \notin Chunks
  <2>1. result' = IF Len(out) = RangeSize(d) THEN "done" ELSE "mismatch"
    BY <1>3 DEF DrainNext, Leave
  <2>2. result' = "done" /\ Len(out) = RangeSize(d)
    BY <2>1 DEF DeliveryInv, ResultTruth
  <2>3. AbstractPhase = "flowing" /\ AbstractPhase' = "complete"
    BY <1>1, <2>2, PhaseNow, PhaseNext
  <2> QED
    BY <1>1, <2>2, <2>3
       DEF Promise!Complete, Promise!Length, AbstractRange, RangeSize
<1> QED
  BY <1>2, <1>3

LEMMA PromiseStep ==
  ASSUME SpoolFaults = FALSE, DeliveryInv, DeliveryInv', [Next]_vars
  PROVE  [Promise!Next]_(Promise!vars)
<1>a. IsDecision(d) /\ (hpc \notin {"closing", "returned"} => result = "none")
  BY DrainFacts DEF DeliveryInv, ResultTruth
<1>1. CASE Snapshot
  <2>1. CASE hpc' = "probe" /\ UNCHANGED result
    BY <1>1, <2>1, UnseenSteps DEF Snapshot
  <2>2. CASE hpc' = "returned" /\ result' = "panic"
    BY <1>1, <1>a, <2>2, LeavingCuts DEF Snapshot, Promise!Next
  <2> QED
    BY <1>1, <2>1, <2>2 DEF Snapshot
<1>2. CASE ProbeAgrees
  <2>1. d.effEnd \in Int /\ d.effStart <= d.effEnd
    BY <1>a DEF IsDecision
  <2> QED
    BY <1>2, <2>1, ProbeSettles DEF ProbeAgrees, Promise!Next
<1>3. CASE ProbeDiffers
  <2>1. PICK t \in Totals \ {0, d.total} :
          IF d.effStart >= t
          THEN hpc' = "returned" /\ result' = "unsatisfiable" /\ UNCHANGED d
          ELSE hpc' = "spool" /\ d' = Adjusted(t) /\ UNCHANGED result
    BY <1>3 DEF ProbeDiffers
  <2>2. hpc = "probe" /\ UNCHANGED out
    BY <1>3 DEF ProbeDiffers
  <2>3. CASE d.effStart >= t
    BY <1>a, <2>1, <2>2, <2>3, LeavingCuts DEF Promise!Next
  <2>4. CASE ~(d.effStart >= t)
    <3> DEFINE e == Min2(d.effEnd, t - 1)
    <3>1. t \in Nat /\ d \in [effStart : Nat, effEnd : Nat, total : Nat]
          /\ d.effStart <= d.effEnd
      BY <1>a, SplitAssumption DEF IsDecision
    <3>2. e \in Int /\ d.effStart <= e /\ e <= d.effEnd
      BY <2>4, <3>1 DEF Min2
    <3> HIDE DEF e
    <3>3. d' = [d EXCEPT !.effEnd = e, !.total = t]
      BY <2>1, <2>4 DEF Adjusted, e
    <3>4. d'.effStart = d.effStart /\ d'.effEnd = e
      BY <3>1, <3>3
    <3>5. hpc' = "spool" /\ UNCHANGED result
      BY <2>1, <2>4
    <3> QED
      BY <2>2, <3>2, <3>4, <3>5, ProbeSettles DEF Promise!Next
  <2> QED
    BY <2>3, <2>4
<1>4. CASE CreateSpool \/ StartWorkers \/ DrainWake \/ DrainMore \/ CloseSpool \/ Return
  BY <1>4, UnseenSteps
     DEF CreateSpool, StartWorkers, DrainWake, DrainMore, CloseSpool, Return, hVars
<1>5. CASE CreateSpoolFails
  BY <1>5 DEF CreateSpoolFails
<1>6. CASE DrainWrite
  BY <1>6, WriteDelivers DEF Promise!Next
<1>7. CASE DrainWriteFails \/ DrainReadFails \/ DrainFails
  <2>1. hpc = "write" /\ result' = "truncated" /\ UNCHANGED <<d, out>>
    BY <1>7 DEF DrainWriteFails, DrainReadFails, DrainFails, Truncate, Leave
  <2> QED
    BY <1>a, <2>1, LeavingCuts DEF Promise!Next
<1>8. CASE DrainNext
  BY <1>8, LastChunkCompletes DEF Promise!Next
<1>9. CASE \E w \in Workers : Local(w) \/ Network(w)
  <2>1. UNCHANGED hVars
    BY <1>9
       DEF Local, Network, Claim, QueueEmpty, Abandon, EnterFetch, BeginAttempt, GiveUp,
           Push, PushToClosed, PushFails, Refused, Accepted, ReadSlice, ReadAll, ReadFails
  <2> QED
    BY <2>1, UnseenSteps DEF hVars
<1>10. CASE ClientLeaves \/ UNCHANGED vars
  BY <1>10, UnseenSteps DEF ClientLeaves, vars, hVars
<1> QED
  BY <1>1, <1>2, <1>3, <1>4, <1>5, <1>6, <1>7, <1>8, <1>9, <1>10 DEF Next, Handler, Rest

(***************************************************************************)
(* As long as the spools do not fail, what the client sees of              *)
(* splitAcrossLinks is a download: a range settled once, its bytes in      *)
(* order, complete only when all are there, and otherwise cut short.       *)
(***************************************************************************)
THEOREM SplitKeepsPromise ==
  ASSUME SpoolFaults = FALSE
  PROVE  Spec => KeepsPromise
<1>1. DeliveryInv /\ DeliveryInv' /\ [Next]_vars => [Promise!Next]_(Promise!vars)
  BY PromiseStep
<1> QED
  BY PromiseInit, DeliveryInvariant, <1>1, PTL DEF Spec, KeepsPromise, Promise!Spec
=============================================================================
