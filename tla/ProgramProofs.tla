---------------------------- MODULE ProgramProofs ----------------------------
(***************************************************************************)
(* What becomes of the lines of the log, whoever flushes and whenever the  *)
(* program ends (LogSink, Program), for any number of lines.               *)
(***************************************************************************)
EXTENDS Program, TLAPS

Lines == Seq(Nat)

TypeInv ==
  /\ lines \in Nat /\ writing \in BOOLEAN
  /\ buf \in Lines /\ file \in Lines
  /\ batch \in [Flushers -> Lines]
  /\ lost \subseteq Nat

\* When main has restored stderr nobody writes; from its flush on the buffer
\* stays empty.
Closing ==
  /\ main \in {"tui", "restored", "flushing", "leaving", "gone"}
  /\ main # "tui" => ~writing
  /\ main \in {"flushing", "leaving", "gone"} => buf = <<>>
  /\ main # "flushing" => batch["main"] = <<>>

Apart(s, t) == \A i \in DOMAIN s, j \in DOMAIN t : s[i] # t[j]
Below(s, t) == \A i \in DOMAIN s, j \in DOMAIN t : s[i] < t[j]
Rising(s)   == \A i, j \in DOMAIN s : i < j => s[i] < s[j]

\* No line is in two places.
Once ==
  /\ IsInjective(file) /\ IsInjective(buf) /\ Apart(file, buf)
  /\ \A f \in Flushers :
       /\ IsInjective(batch[f]) /\ Apart(file, batch[f]) /\ Apart(batch[f], buf)
       /\ ToSet(batch[f]) \cap lost = {}
  /\ Apart(batch["ticker"], batch["main"])
  /\ ToSet(file) \cap lost = {} /\ ToSet(buf) \cap lost = {}

\* Every line is in one.
Placed ==
  ToSet(file) \cup ToSet(batch["ticker"]) \cup ToSet(batch["main"]) \cup ToSet(buf) \cup lost
    = 1 .. lines

\* While only the ticker flushes, its batch lies between the file and the
\* buffer.
Ordered ==
  main \in {"tui", "restored"} =>
    /\ Rising(file) /\ Rising(batch["ticker"]) /\ Rising(buf)
    /\ Below(file, batch["ticker"]) /\ Below(file, buf) /\ Below(batch["ticker"], buf)

ProgramInv == TypeInv /\ Closing /\ Once /\ Placed /\ Ordered

-----------------------------------------------------------------------------
(***************************************************************************)
(* Sequences of lines.                                                     *)
(***************************************************************************)

\* c is s followed by t: its lines are theirs, those of s in front.
Joins(c, s, t) ==
  /\ c \in Lines /\ s \in Lines /\ t \in Lines
  /\ Len(c) = Len(s) + Len(t)
  /\ \A i \in 1 .. Len(s) : c[i] = s[i]
  /\ \A i \in 1 .. Len(t) : c[Len(s) + i] = t[i]

\* The concatenation of two sequences of lines joins them.
LEMMA Cat == ASSUME NEW s \in Lines, NEW t \in Lines PROVE Joins(s \o t, s, t)
BY DEF Joins, Lines

\* Whose the i-th line is.
LEMMA JoinAt ==
  ASSUME NEW c, NEW s, NEW t, Joins(c, s, t), NEW i \in DOMAIN c
  PROVE  \/ i \in 1 .. Len(s) /\ i \in DOMAIN s /\ c[i] = s[i]
         \/ \E k \in 1 .. Len(t) : i = Len(s) + k /\ k \in DOMAIN t /\ c[i] = t[k]
<1>1. /\ Len(s) \in Nat /\ Len(t) \in Nat /\ Len(c) \in Nat
      /\ DOMAIN s = 1 .. Len(s) /\ DOMAIN t = 1 .. Len(t) /\ DOMAIN c = 1 .. Len(c)
  BY DEF Joins, Lines
<1>2. CASE i <= Len(s)
  BY <1>1, <1>2 DEF Joins
<1>3. CASE ~(i <= Len(s))
  <2>1. i - Len(s) \in 1 .. Len(t) /\ i = Len(s) + (i - Len(s))
    BY <1>1, <1>3 DEF Joins
  <2>2. PICK k \in 1 .. Len(t) : i = Len(s) + k
    BY <2>1
  <2> QED
    BY <1>1, <2>2 DEF Joins
<1> QED
  BY <1>2, <1>3

\* A join has every line of either part.
LEMMA JoinHas ==
  ASSUME NEW c, NEW s, NEW t, Joins(c, s, t)
  PROVE  /\ \A i \in DOMAIN s : \E j \in DOMAIN c : c[j] = s[i]
         /\ \A i \in DOMAIN t : \E j \in DOMAIN c : c[j] = t[i]
<1>1. /\ Len(s) \in Nat /\ Len(t) \in Nat /\ Len(c) = Len(s) + Len(t)
      /\ DOMAIN s = 1 .. Len(s) /\ DOMAIN t = 1 .. Len(t) /\ DOMAIN c = 1 .. Len(c)
  BY DEF Joins, Lines
<1>2. ASSUME NEW i \in DOMAIN s PROVE \E j \in DOMAIN c : c[j] = s[i]
  BY <1>1, <1>2 DEF Joins
<1>3. ASSUME NEW i \in DOMAIN t PROVE \E j \in DOMAIN c : c[j] = t[i]
  <2>1. PICK j \in DOMAIN c : j = Len(s) + i
    BY <1>1
  <2> QED
    BY <1>1, <2>1 DEF Joins
<1> QED
  BY <1>2, <1>3

\* What the order, the distinctness and the members of the parts say of the
\* whole.
LEMMA JoinSet ==
  ASSUME NEW c, NEW s, NEW t, Joins(c, s, t)
  PROVE  ToSet(c) = ToSet(s) \cup ToSet(t)
<1>1. ToSet(c) \subseteq ToSet(s) \cup ToSet(t)
  BY JoinAt DEF ToSet
<1>2. ToSet(s) \subseteq ToSet(c) /\ ToSet(t) \subseteq ToSet(c)
  BY JoinHas DEF ToSet
<1> QED
  BY <1>1, <1>2

\* A join shares no line with a third sequence when its parts do not.
LEMMA JoinApart ==
  ASSUME NEW c, NEW s, NEW t, NEW u, Joins(c, s, t), Apart(s, u), Apart(t, u)
  PROVE  Apart(c, u)
BY JoinAt DEF Apart

\* A join is older than a third sequence when its parts are.
LEMMA JoinBelow ==
  ASSUME NEW c, NEW s, NEW t, NEW u, Joins(c, s, t), Below(s, u), Below(t, u)
  PROVE  Below(c, u)
BY JoinAt DEF Below

\* A join of two sequences without repetition that share no line.
LEMMA JoinInjective ==
  ASSUME NEW c, NEW s, NEW t, Joins(c, s, t), IsInjective(s), IsInjective(t), Apart(s, t)
  PROVE  IsInjective(c)
<1> SUFFICES ASSUME NEW i \in DOMAIN c, NEW j \in DOMAIN c, c[i] = c[j] PROVE i = j
  BY DEF IsInjective
<1>1. \/ i \in 1 .. Len(s) /\ i \in DOMAIN s /\ c[i] = s[i]
      \/ \E k \in 1 .. Len(t) : i = Len(s) + k /\ k \in DOMAIN t /\ c[i] = t[k]
  BY JoinAt
<1>2. \/ j \in 1 .. Len(s) /\ j \in DOMAIN s /\ c[j] = s[j]
      \/ \E k \in 1 .. Len(t) : j = Len(s) + k /\ k \in DOMAIN t /\ c[j] = t[k]
  BY JoinAt
<1> QED
  BY <1>1, <1>2 DEF IsInjective, Apart

\* A join of two sorted sequences, the first older than the second.
LEMMA JoinRising ==
  ASSUME NEW c, NEW s, NEW t, Joins(c, s, t), Rising(s), Rising(t), Below(s, t)
  PROVE  Rising(c)
<1> SUFFICES ASSUME NEW i \in DOMAIN c, NEW j \in DOMAIN c, i < j PROVE c[i] < c[j]
  BY DEF Rising
<1>1. \/ i \in 1 .. Len(s) /\ i \in DOMAIN s /\ c[i] = s[i]
      \/ \E k \in 1 .. Len(t) : i = Len(s) + k /\ k \in DOMAIN t /\ c[i] = t[k]
  BY JoinAt
<1>2. \/ j \in 1 .. Len(s) /\ j \in DOMAIN s /\ c[j] = s[j]
      \/ \E k \in 1 .. Len(t) : j = Len(s) + k /\ k \in DOMAIN t /\ c[j] = t[k]
  BY JoinAt
<1>3. Len(s) \in Nat /\ Len(t) \in Nat
  BY DEF Joins, Lines
<1>4. CASE i \in DOMAIN s /\ c[i] = s[i]
  BY <1>2, <1>4 DEF Rising, Below
<1>5. ASSUME NEW k \in 1 .. Len(t), i = Len(s) + k, k \in DOMAIN t, c[i] = t[k]
      PROVE  c[i] < c[j]
  <2>1. PICK l \in 1 .. Len(t) : j = Len(s) + l /\ l \in DOMAIN t /\ c[j] = t[l]
    BY <1>2, <1>3, <1>5
  <2>2. k < l
    BY <1>3, <1>5, <2>1
  <2> QED
    BY <1>5, <2>1, <2>2 DEF Rising
<1> QED
  BY <1>1, <1>4, <1>5

\* What a failed append leaves of a batch: its first k lines.
LEMMA Prefix ==
  ASSUME NEW s \in Lines, NEW k \in 0 .. Len(s)
  PROVE  LET p == SubSeq(s, 1, k) IN
           /\ p \in Lines /\ DOMAIN p = 1 .. k
           /\ \A i \in 1 .. k : p[i] = s[i] /\ i \in DOMAIN s
BY DEF Lines

\* One line more.
LEMMA OneMore ==
  ASSUME NEW s \in Lines, NEW n \in Nat
  PROVE  Joins(Append(s, n), s, <<n>>)
BY DEF Joins, Lines

\* A line of a sequence is in its set.
LEMMA InSet == ASSUME NEW s, NEW i \in DOMAIN s PROVE s[i] \in ToSet(s)
BY DEF ToSet

-----------------------------------------------------------------------------
(***************************************************************************)
(* The buffer, the batches and the file.                                   *)
(***************************************************************************)

LogInv == TypeInv /\ Once /\ Placed

\* EndWrite: Write appends under the mutex (log_sink.go lines 55 to 66).
LEMMA EndWriteKeeps == LogInv /\ EndWrite => LogInv'
<1> SUFFICES ASSUME LogInv, EndWrite PROVE LogInv'
  OBVIOUS
<1> DEFINE n == lines + 1
<1>1. /\ n \in Nat /\ lines' = n /\ buf' = Append(buf, n)
      /\ UNCHANGED <<batch, file, lost>> /\ writing' = FALSE /\ buf \in Lines
      /\ lines \in Nat /\ n = lines + 1
  BY DEF LogInv, TypeInv, EndWrite
<1> HIDE DEF n
<1>2. Joins(buf', buf, <<n>>)
  BY <1>1, OneMore
<1>3. \A m \in ToSet(file) \cup ToSet(buf) \cup ToSet(batch["ticker"]) \cup ToSet(batch["main"])
              \cup lost : m # n
  BY <1>1 DEF LogInv, Placed
<1>4. DOMAIN <<n>> = {1} /\ <<n>>[1] = n /\ ToSet(<<n>>) = {n}
  BY DEF ToSet
<1>5. /\ Apart(buf, <<n>>) /\ Apart(<<n>>, file) /\ IsInjective(<<n>>)
      /\ \A f \in Flushers : Apart(<<n>>, batch[f])
  BY <1>3, <1>4, InSet DEF Apart, IsInjective, Flushers
<1>6. Once'
  <2>1. IsInjective(buf)'
    BY <1>2, <1>5, JoinInjective DEF LogInv, Once
  <2>2. Apart(buf', file) /\ \A f \in Flushers : Apart(buf', batch[f])
    <3>1. Apart(buf, file) /\ \A f \in Flushers : Apart(buf, batch[f])
      BY DEF LogInv, Once, Apart
    <3> QED
      BY <1>2, <1>5, <3>1, JoinApart
  <2>3. Apart(file, buf') /\ \A f \in Flushers : Apart(batch[f], buf')
    BY <2>2 DEF Apart
  <2>4. ToSet(buf') \cap lost = {}
    BY <1>2, <1>3, <1>4, JoinSet DEF LogInv, Once
  <2> QED
    BY <1>1, <2>1, <2>3, <2>4 DEF LogInv, Once
<1>7. Placed'
  <2>1. ToSet(buf') = ToSet(buf) \cup {n} /\ 1 .. lines' = (1 .. lines) \cup {n}
    BY <1>1, <1>2, <1>4, JoinSet
  <2> QED
    BY <1>1, <2>1 DEF LogInv, Placed
<1>8. TypeInv'
  BY <1>1, <1>2 DEF LogInv, TypeInv, Joins
<1> QED
  BY <1>6, <1>7, <1>8 DEF LogInv

\* Take: Flush copies and resets the buffer (log_sink.go lines 75 to 82).
LEMMA TakeKeeps == ASSUME LogInv, NEW f \in Flushers, Take(f) PROVE LogInv'
<1>1. /\ batch[f] = <<>> /\ batch'[f] = buf /\ buf' = <<>>
      /\ \A g \in Flushers \ {f} : batch'[g] = batch[g]
      /\ batch' \in [Flushers -> Lines] /\ UNCHANGED <<writing, lines, file, lost>>
  BY DEF LogInv, TypeInv, Take, AfterTake
<1>2. /\ DOMAIN <<>> = {} /\ ToSet(<<>>) = {} /\ IsInjective(<<>>)
      /\ \A s : Apart(s, <<>>) /\ Apart(<<>>, s)
  BY DEF ToSet, IsInjective, Apart
<1>3. TypeInv'
  BY <1>1 DEF LogInv, TypeInv, Lines
<1>4. Placed'
  BY <1>1, <1>2 DEF LogInv, Placed, Flushers
<1>5. Once'
  <2>1. \A g \in Flushers :
          /\ IsInjective(batch'[g]) /\ Apart(file', batch'[g]) /\ Apart(batch'[g], buf')
          /\ ToSet(batch'[g]) \cap lost' = {}
    BY <1>1, <1>2 DEF LogInv, Once
  <2>2. Apart(batch'["ticker"], batch'["main"])
    BY <1>1 DEF LogInv, Once, Apart, Flushers
  <2> QED
    BY <1>1, <1>2, <2>1, <2>2 DEF LogInv, Once
<1> QED
  BY <1>3, <1>4, <1>5 DEF LogInv

\* Store: a batch is appended whole, or in part with an error (log_sink.go
\* lines 84 to 94).
LEMMA StoreKeeps == ASSUME LogInv, NEW f \in Flushers, Store(f) PROVE LogInv'
<1> DEFINE b == batch[f]
<1>1. PICK k \in 0 .. Len(b) :
        /\ file' = file \o SubSeq(b, 1, k)
        /\ lost' = lost \cup {b[i] : i \in k + 1 .. Len(b)}
  BY DEF Store
<1> DEFINE p == SubSeq(b, 1, k)
           r == {b[i] : i \in k + 1 .. Len(b)}
<1>2. /\ b \in Lines /\ DOMAIN b = 1 .. Len(b) /\ Len(b) \in Nat
      /\ p \in Lines /\ DOMAIN p = 1 .. k /\ \A i \in 1 .. k : p[i] = b[i]
  BY Prefix DEF LogInv, TypeInv, Lines
<1>3. Joins(file', file, p) /\ lost' = lost \cup r
  BY <1>1, <1>2, Cat DEF LogInv, TypeInv
<1>4. /\ batch'[f] = <<>> /\ \A g \in Flushers \ {f} : batch'[g] = batch[g]
      /\ batch' \in [Flushers -> Lines] /\ UNCHANGED <<writing, lines, buf>>
  BY DEF LogInv, TypeInv, Store, Lines
<1>5. /\ IsInjective(b) /\ Apart(file, b) /\ Apart(b, buf) /\ ToSet(b) \cap lost = {}
      /\ \A g \in Flushers \ {f} : Apart(b, batch[g])
  BY DEF LogInv, Once, Apart, Flushers
<1>6. /\ ToSet(p) \cup r = ToSet(b)
  BY <1>2 DEF ToSet
<1>7. ToSet(p) \cap r = {}
  BY <1>2, <1>5 DEF ToSet, IsInjective
<1>8. /\ IsInjective(p) /\ Apart(file, p) /\ Apart(p, buf)
      /\ \A g \in Flushers \ {f} : Apart(p, batch[g])
  BY <1>2, <1>5 DEF IsInjective, Apart
<1>9. ASSUME NEW s, Apart(b, s) PROVE ToSet(s) \cap r = {}
  <2>1. ASSUME NEW x \in r, NEW j \in DOMAIN s PROVE s[j] # x
    BY <1>2, <1>9 DEF Apart
  <2> QED
    BY <2>1 DEF ToSet
<1>10. /\ DOMAIN <<>> = {} /\ ToSet(<<>>) = {} /\ IsInjective(<<>>)
       /\ \A s : Apart(s, <<>>) /\ Apart(<<>>, s)
  BY DEF ToSet, IsInjective, Apart
<1> HIDE DEF b, p, r
<1>11. TypeInv'
  <2>1. r \subseteq Nat
    BY <1>2 DEF r, Lines
  <2> QED
    BY <1>3, <1>4, <2>1 DEF LogInv, TypeInv, Joins
<1>12. ToSet(file') = ToSet(file) \cup ToSet(p)
  BY <1>3, JoinSet
<1>13. Placed'
  BY <1>3, <1>4, <1>6, <1>10, <1>12 DEF LogInv, Placed, Flushers, b
<1>14. Once'
  <2>1. IsInjective(file') /\ Apart(file', buf')
    BY <1>3, <1>4, <1>8, JoinInjective, JoinApart DEF LogInv, Once
  <2>2. ASSUME NEW g \in Flushers
        PROVE  /\ IsInjective(batch'[g]) /\ Apart(file', batch'[g])
               /\ Apart(batch'[g], buf') /\ ToSet(batch'[g]) \cap lost' = {}
    <3>1. CASE g = f
      BY <1>4, <1>10, <3>1
    <3>2. CASE g # f
      <4>1. /\ batch'[g] = batch[g] /\ IsInjective(batch[g]) /\ Apart(file, batch[g])
            /\ Apart(batch[g], buf) /\ ToSet(batch[g]) \cap lost = {} /\ Apart(p, batch[g])
        BY <1>4, <1>8, <3>2 DEF LogInv, Once
      <4>2. ToSet(batch[g]) \cap r = {}
        BY <1>5, <1>9, <3>2
      <4> QED
        BY <1>3, <1>4, <4>1, <4>2, JoinApart
    <3> QED
      BY <3>1, <3>2
  <2>3. Apart(batch'["ticker"], batch'["main"])
    BY <1>4, <1>10 DEF LogInv, Once, Flushers
  <2>4. ToSet(file') \cap lost' = {}
    <3>1. ToSet(file) \cap r = {}
      BY <1>5, <1>9 DEF Apart
    <3>2. ToSet(p) \cap lost = {}
      BY <1>5, <1>6
    <3> QED
      BY <1>3, <1>7, <1>12, <3>1, <3>2 DEF LogInv, Once
  <2>5. ToSet(buf') \cap lost' = {}
    BY <1>3, <1>4, <1>5, <1>9 DEF LogInv, Once
  <2>6. IsInjective(buf')
    BY <1>4 DEF LogInv, Once
  <2> QED
    BY <2>1, <2>2, <2>3, <2>4, <2>5, <2>6 DEF Once
<1> QED
  BY <1>11, <1>13, <1>14 DEF LogInv

-----------------------------------------------------------------------------
(***************************************************************************)
(* The order of the lines, while only the ticker flushes.                  *)
(***************************************************************************)

Sorted ==
  /\ Rising(file) /\ Rising(batch["ticker"]) /\ Rising(buf)
  /\ Below(file, batch["ticker"]) /\ Below(file, buf) /\ Below(batch["ticker"], buf)

\* A line that enters the buffer has the highest number.
LEMMA EndWriteSorts == LogInv /\ Sorted /\ EndWrite => Sorted'
<1> SUFFICES ASSUME LogInv, Sorted, EndWrite PROVE Sorted'
  OBVIOUS
<1> DEFINE n == lines + 1
<1>1. /\ n \in Nat /\ buf' = Append(buf, n) /\ UNCHANGED <<batch, file>>
      /\ buf \in Lines /\ lines \in Nat /\ n = lines + 1
  BY DEF LogInv, TypeInv, EndWrite
<1> HIDE DEF n
<1>2. Joins(buf', buf, <<n>>)
  BY <1>1, OneMore
<1>3. \A m \in ToSet(file) \cup ToSet(buf) \cup ToSet(batch["ticker"]) : m < n
  BY <1>1 DEF LogInv, Placed
<1>4. DOMAIN <<n>> = {1} /\ <<n>>[1] = n
  OBVIOUS
<1>5. Below(file, <<n>>) /\ Below(buf, <<n>>) /\ Below(batch["ticker"], <<n>>)
  BY <1>3, <1>4, InSet DEF Below
<1>6. Rising(<<n>>)
  BY <1>4 DEF Rising
<1>7. Rising(buf')
  BY <1>2, <1>5, <1>6, JoinRising DEF Sorted
<1>8. ASSUME NEW s, Below(s, buf), Below(s, <<n>>) PROVE Below(s, buf')
  BY <1>2, <1>8, JoinAt DEF Below
<1> QED
  BY <1>1, <1>5, <1>7, <1>8 DEF Sorted

\* The ticker's batch is what the buffer was; the file grows by its front.
LEMMA TickSorts ==
  ASSUME LogInv, Sorted, Take("ticker") \/ Store("ticker") PROVE Sorted'
<1> DEFINE b == batch["ticker"]
<1>1. /\ DOMAIN <<>> = {} /\ Rising(<<>>)
      /\ \A s : Below(s, <<>>) /\ Below(<<>>, s)
  BY DEF Rising, Below
<1>2. CASE Take("ticker")
  <2>1. batch'["ticker"] = buf /\ buf' = <<>> /\ file' = file
    BY <1>2 DEF LogInv, TypeInv, Take, AfterTake, Flushers
  <2> QED
    BY <1>1, <2>1 DEF Sorted
<1>3. CASE Store("ticker")
  <2>1. PICK k \in 0 .. Len(b) : file' = file \o SubSeq(b, 1, k)
    BY <1>3 DEF Store
  <2> DEFINE p == SubSeq(b, 1, k)
  <2>2. /\ b \in Lines /\ DOMAIN b = 1 .. Len(b) /\ Len(b) \in Nat
        /\ p \in Lines /\ DOMAIN p = 1 .. k /\ \A i \in 1 .. k : p[i] = b[i] /\ i \in DOMAIN b
    BY Prefix DEF LogInv, TypeInv, Lines, Flushers
  <2>3. Joins(file', file, p)
    BY <2>1, <2>2, Cat DEF LogInv, TypeInv
  <2>4. batch'["ticker"] = <<>> /\ buf' = buf
    BY <1>3 DEF LogInv, TypeInv, Store, Flushers
  <2>5. Rising(p) /\ Below(file, p) /\ Below(p, buf)
    BY <2>2 DEF Sorted, Rising, Below
  <2> HIDE DEF b, p
  <2> QED
    BY <1>1, <2>3, <2>4, <2>5, JoinRising, JoinBelow DEF Sorted
<1> QED
  BY <1>2, <1>3

-----------------------------------------------------------------------------
(***************************************************************************)
(* The program.                                                            *)
(***************************************************************************)

\* The program starts with an empty log (main.go lines 222 to 264).
LEMMA ProgramInvInit == ProgramInit => ProgramInv
<1> SUFFICES ASSUME ProgramInit PROVE ProgramInv
  OBVIOUS
<1>1. /\ DOMAIN <<>> = {} /\ ToSet(<<>>) = {} /\ IsInjective(<<>>) /\ Rising(<<>>)
      /\ Apart(<<>>, <<>>) /\ Below(<<>>, <<>>) /\ <<>> \in Lines
  BY DEF ToSet, IsInjective, Rising, Apart, Below, Lines
<1>2. /\ lines = 0 /\ writing = FALSE /\ lost = {} /\ main = "tui"
      /\ file = <<>> /\ buf = <<>> /\ batch = [f \in Flushers |-> <<>>]
  BY DEF ProgramInit, NewLogSink
<1>3. batch["ticker"] = <<>> /\ batch["main"] = <<>> /\ \A f \in Flushers : batch[f] = <<>>
  BY <1>2 DEF Flushers
<1>4. TypeInv
  BY <1>1, <1>2 DEF TypeInv
<1>5. Once
  BY <1>1, <1>2, <1>3 DEF Once
<1>6. Placed
  BY <1>1, <1>2, <1>3 DEF Placed
<1>7. Ordered /\ Closing
  BY <1>1, <1>2, <1>3 DEF Ordered, Closing
<1> QED
  BY <1>4, <1>5, <1>6, <1>7 DEF ProgramInv

\* A step that leaves the lines where they are.
LEMMA LinesStay ==
  ASSUME ProgramInv, UNCHANGED <<lines, buf, batch, file, lost>>, writing' \in BOOLEAN,
         main' \in {"tui", "restored"} => main \in {"tui", "restored"}
  PROVE  LogInv' /\ Ordered'
BY DEF ProgramInv, LogInv, TypeInv, Once, Placed, Ordered

\* Every step of main, of the flushers and of the goroutines that log.
LEMMA ProgramInvNext == ProgramInv /\ [ProgramNext]_programVars => ProgramInv'
<1> SUFFICES ASSUME ProgramInv, [ProgramNext]_programVars PROVE ProgramInv'
  OBVIOUS
<1>0. LogInv /\ Closing /\ Ordered /\ (main \in {"tui", "restored"} => Sorted)
      /\ batch \in [Flushers -> Lines] /\ writing \in BOOLEAN
  BY DEF ProgramInv, LogInv, TypeInv, Ordered, Sorted
<1>1. CASE UNCHANGED programVars \/ Signal \/ Key \/ KeysEnd \/ AcceptFails
  <2>1. UNCHANGED <<lines, writing, buf, batch, file, lost, main>>
    BY <1>1 DEF programVars, logVars, Signal, Key, Toggle, KeysEnd, AcceptFails
  <2> QED
    BY <1>0, <2>1, LinesStay DEF ProgramInv, LogInv, Closing
<1>2. CASE LogLine
  <2>1. main = "tui" /\ main' = main
    BY <1>2 DEF LogLine, LogsToSink
  <2>2. CASE BeginWrite
    <3>1. UNCHANGED <<lines, buf, batch, file, lost>> /\ writing' = TRUE
      BY <2>2 DEF BeginWrite
    <3> QED
      BY <1>0, <2>1, <3>1, LinesStay DEF ProgramInv, LogInv, Closing
  <2>3. CASE EndWrite
    <3>1. LogInv' /\ Sorted'
      BY <1>0, <2>1, <2>3, EndWriteKeeps, EndWriteSorts
    <3>2. Closing'
      BY <1>0, <2>1, <2>3 DEF Closing, EndWrite
    <3> QED
      BY <3>1, <3>2 DEF ProgramInv, LogInv, Ordered, Sorted
  <2> QED
    BY <1>2, <2>2, <2>3 DEF LogLine, LogWrite
<1>3. CASE Tick
  <2>1. "ticker" \in Flushers /\ main' = main
    BY <1>3 DEF Tick, Flushers
  <2>2. LogInv'
    BY <1>0, <1>3, <2>1, TakeKeeps, StoreKeeps DEF Tick
  <2>3. Ordered'
    BY <1>0, <1>3, <2>1, TickSorts DEF Tick, Ordered, Sorted
  <2>4. writing' = writing /\ batch'["main"] = batch["main"] /\ (buf = <<>> => buf' = <<>>)
    BY <1>0, <1>3 DEF Tick, Take, Store, AfterTake, Flushers
  <2> QED
    BY <1>0, <2>1, <2>2, <2>3, <2>4 DEF ProgramInv, LogInv, Closing
<1>4. CASE Restore \/ Exit
  <2>1. UNCHANGED <<lines, writing, buf, batch, file, lost>>
    BY <1>4 DEF Restore, Exit, logVars
  <2>2. /\ \/ main = "tui" /\ main' = "restored" /\ ~writing
           \/ main = "leaving" /\ main' = "gone"
    BY <1>4 DEF Restore, Exit
  <2> QED
    BY <1>0, <2>1, <2>2, LinesStay DEF ProgramInv, LogInv, Closing
<1>5. CASE Flush
  <2>1. CASE Pending
    <3>1. Take("main") /\ main = "restored" /\ main' = "flushing" /\ "main" \in Flushers
      BY <1>5, <2>1 DEF Flush, Flushers
    <3>2. LogInv'
      BY <1>0, <3>1, TakeKeeps
    <3>3. writing' = writing /\ buf' = <<>>
      BY <3>1 DEF Take, AfterTake
    <3> QED
      BY <1>0, <3>1, <3>2, <3>3 DEF ProgramInv, LogInv, Closing, Ordered
  <2>2. CASE ~Pending
    <3>1. /\ UNCHANGED <<lines, writing, buf, batch, file, lost>> /\ buf = <<>>
          /\ main = "restored" /\ main' = "leaving"
      BY <1>5, <2>2 DEF Flush, Pending, logVars
    <3> QED
      BY <1>0, <3>1, LinesStay DEF ProgramInv, LogInv, Closing
  <2> QED
    BY <2>1, <2>2
<1>6. CASE Flushed
  <2>1. /\ Store("main") /\ main = "flushing" /\ main' = "leaving" /\ "main" \in Flushers
    BY <1>6 DEF Flushed, Flushers
  <2>2. LogInv'
    BY <1>0, <2>1, StoreKeeps
  <2>3. writing' = writing /\ buf' = buf /\ batch'["main"] = <<>>
    BY <1>0, <2>1 DEF Store
  <2> QED
    BY <1>0, <2>1, <2>2, <2>3 DEF ProgramInv, LogInv, Closing, Ordered
<1> QED
  BY <1>1, <1>2, <1>3, <1>4, <1>5, <1>6 DEF ProgramNext

ProgramSpec == ProgramInit /\ [][ProgramNext]_programVars

\* The inductive invariant holds in every reachable state: the lines are in
\* one place each, the file is sorted while only the ticker flushes, and main's
\* last flush leaves nothing (log_sink.go, main.go lines 266 to 288).
THEOREM ProgramInvariant == ProgramSpec => []ProgramInv
BY ProgramInvInit, ProgramInvNext, PTL DEF ProgramSpec

\* Every line is in one place, whoever writes and flushes (log_sink.go lines
\* 55 to 95).
THEOREM EveryLineOnce == ProgramSpec => []EachLineOnce
<1>1. ASSUME ProgramInv PROVE EachLineOnce
  <2> DEFINE one == file \o batch["ticker"]
             two == one \o batch["main"]
  <2>1. /\ file \in Lines /\ batch["ticker"] \in Lines /\ batch["main"] \in Lines /\ buf \in Lines
    BY <1>1 DEF ProgramInv, TypeInv, Flushers
  <2>2. Joins(one, file, batch["ticker"]) /\ one \in Lines
    BY <2>1, Cat DEF Joins
  <2>3. Joins(two, one, batch["main"]) /\ two \in Lines
    BY <2>1, <2>2, Cat DEF Joins
  <2>4. Joins(Held, two, buf)
    BY <2>1, <2>3, Cat DEF Held
  <2> HIDE DEF one, two
  <2>5. /\ IsInjective(file) /\ IsInjective(buf) /\ IsInjective(batch["ticker"])
        /\ IsInjective(batch["main"])
        /\ Apart(file, batch["ticker"]) /\ Apart(file, batch["main"]) /\ Apart(file, buf)
        /\ Apart(batch["ticker"], batch["main"]) /\ Apart(batch["ticker"], buf)
        /\ Apart(batch["main"], buf)
        /\ ToSet(file) \cap lost = {} /\ ToSet(buf) \cap lost = {}
        /\ ToSet(batch["ticker"]) \cap lost = {} /\ ToSet(batch["main"]) \cap lost = {}
    BY <1>1 DEF ProgramInv, Once, Flushers
  <2>6. IsInjective(one) /\ Apart(one, batch["main"]) /\ Apart(one, buf)
    BY <2>2, <2>5, JoinInjective, JoinApart
  <2>7. IsInjective(two) /\ Apart(two, buf)
    BY <2>3, <2>5, <2>6, JoinInjective, JoinApart
  <2>8. IsInjective(Held)
    BY <2>4, <2>5, <2>7, JoinInjective
  <2>9. ToSet(Held) = ToSet(file) \cup ToSet(batch["ticker"]) \cup ToSet(batch["main"]) \cup ToSet(buf)
    BY <2>2, <2>3, <2>4, JoinSet
  <2> QED
    BY <1>1, <2>5, <2>8, <2>9 DEF ProgramInv, Placed, EachLineOnce
<1> QED
  BY <1>1, ProgramInvariant, PTL

\* The ticker alone stores the lines in their order (RunFlusher).
THEOREM TickerKeepsOrder == ProgramSpec => []FileInOrder
<1>1. ProgramInv => FileInOrder
  BY DEF ProgramInv, Ordered, Rising, FileInOrder
<1> QED
  BY <1>1, ProgramInvariant, PTL

\* What is not in the file at the end, a flush dropped or had in its hands
\* (main.go lines 266 to 288).
THEOREM NothingStaysBehind == ProgramSpec => []ExitKeeps
<1>1. ASSUME ProgramInv, main = "gone"
      PROVE  1 .. lines = Stored \cup lost \cup ToSet(batch["ticker"])
  <2>1. buf = <<>> /\ batch["main"] = <<>> /\ ToSet(<<>>) = {}
    BY <1>1 DEF ProgramInv, Closing, ToSet
  <2> QED
    BY <1>1, <2>1 DEF ProgramInv, Placed, Stored
<1>2. ProgramInv => ExitKeeps
  BY <1>1 DEF ExitKeeps
<1> QED
  BY <1>2, ProgramInvariant, PTL
=============================================================================
