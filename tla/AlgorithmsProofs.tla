-------------------------- MODULE AlgorithmsProofs --------------------------
(***************************************************************************)
(* The sequential parts, for every input: the ring of the last connections *)
(* keeps exactly the last ones in order (RecentConns implements            *)
(* LastRecords); a cycle of round-robin picks gives every link its weight  *)
(* (RoundRobin); the chunks laid down tile a range, and what shouldSplit   *)
(* says of an answer has a cause (SplitPlan, SplitDecision).               *)
(***************************************************************************)
EXTENDS MCAlgorithms, SplitPlanProofs, FiniteSetTheorems, WellFoundedInduction

RingValue == Records \cup {NoRecord}

\* Until the ring is full the oldest record stays in the first slot.
RingInv ==
  /\ recs \in [RingSlots -> RingValue]
  /\ head \in RingSlots /\ count \in 0 .. Capacity
  /\ count < Capacity => head = 0

-----------------------------------------------------------------------------
Around(a) == a % Capacity

\* One turn around the ring: what % does to a sum of two slots.
LEMMA Turn ==
  ASSUME NEW a \in 0 .. 2 * Capacity - 1
  PROVE  Around(a) = IF a < Capacity THEN a ELSE a - Capacity
<1> DEFINE N == Capacity
<1> SUFFICES a % N = IF a < N THEN a ELSE a - N
  BY DEF Around
<1>1. N \in Nat \ {0} /\ a \in 0 .. 2 * N - 1
  BY RecentAssumption
<1> HIDE DEF N
<1>2. /\ a % N \in 0 .. N - 1 /\ a = N * (a \div N) + (a % N)
      /\ a \div N \in Int
  BY <1>1
<1>3. CASE a < N
  <2>1. a \div N = 0
    BY <1>1, <1>3
  <2> QED
    BY <1>1, <1>2, <1>3, <2>1
<1>4. CASE ~(a < N)
  <2>1. a \div N = 1
    BY <1>1, <1>2, <1>4
  <2> QED
    BY <1>1, <1>2, <1>4, <2>1
<1> QED
  BY <1>3, <1>4

\* The slot of any place, by the slot of the first.
LEMMA PlaceInRing ==
  ASSUME NEW h \in RingSlots, NEW n \in 0 .. Capacity
  PROVE  /\ h + n < Capacity => Around(h + n) = h + n
         /\ ~(h + n < Capacity) => Around(h + n) = h + n - Capacity
         /\ Around(h + n) \in RingSlots
<1>1. PICK a \in Int : a = h + n
  BY RecentAssumption DEF RingSlots
<1>2. a \in 0 .. 2 * Capacity - 1 /\ Capacity \in Nat
  BY <1>1, RecentAssumption DEF RingSlots
<1>3. /\ a < Capacity => Around(a) = a
      /\ ~(a < Capacity) => Around(a) = a - Capacity
      /\ Around(a) \in RingSlots
  BY <1>2, Turn DEF RingSlots
<1>4. Around(a) = Around(h + n)
  BY <1>1 DEF Around
<1>5. Capacity \in Int /\ h \in Int /\ n \in Int
  BY RecentAssumption DEF RingSlots
<1> QED
  BY <1>1, <1>3, <1>4, <1>5

\* The slot of a place, before and after a step.
LEMMA PlaceIsWrap ==
  ASSUME NEW n PROVE Place(n) = Around(head + n) /\ (Place(n) = Around(head + n))'
BY DEF Place, Around

\* A snapshot is a sequence of records, one for each slot in use.
LEMMA SnapshotType ==
  ASSUME RingInv
  PROVE  /\ Snapshot \in Seq(RingValue) /\ Len(Snapshot) = count
         /\ \A i \in 1 .. count : Snapshot[i] = recs[Place(i - 1)]
<1>1. \A i \in 1 .. count : Place(i - 1) \in RingSlots
  BY PlaceInRing, PlaceIsWrap, RecentAssumption DEF RingInv
<1>2. \A i \in 1 .. count : recs[Place(i - 1)] \in RingValue
  BY <1>1 DEF RingInv
<1> QED
  BY <1>2, RecentAssumption DEF Snapshot, RingInv

\* Two sequences of one length with the same elements are one.
LEMMA SameSequence ==
  ASSUME NEW S, NEW s \in Seq(S), NEW t \in Seq(S), Len(s) = Len(t),
         \A i \in 1 .. Len(s) : s[i] = t[i]
  PROVE  s = t
OBVIOUS

-----------------------------------------------------------------------------
\* NewRecentConns (stats.go line 22) is an empty ring.
LEMMA RingInvInit == NewRecentConns => RingInv
BY RecentAssumption DEF NewRecentConns, RingInv, RingSlots, RingValue

\* Add keeps head and count within the ring (stats.go lines 26 to 36).
LEMMA RingInvNext == RingInv /\ [RingNext]_ring => RingInv'
<1> SUFFICES ASSUME RingInv, [RingNext]_ring PROVE RingInv'
  OBVIOUS
<1>1. CASE UNCHANGED ring
  BY <1>1 DEF RingInv, RingSlots, ring
<1>2. ASSUME NEW rec \in Records, Add(rec) PROVE RingInv'
  <2>1. CASE count < Capacity
    <3>1. Place(count) \in RingSlots
      BY <2>1, PlaceInRing, PlaceIsWrap DEF RingInv
    <3> QED
      BY <1>2, <2>1, <3>1, RecentAssumption DEF Add, RingInv, RingSlots, RingValue
  <2>2. CASE ~(count < Capacity)
    <3>1. Around(head + 1) \in RingSlots
      BY PlaceInRing, RecentAssumption DEF RingInv
    <3> QED
      BY <1>2, <2>2, <3>1, RecentAssumption DEF Add, Around, RingInv, RingSlots, RingValue
  <2> QED
    BY <2>1, <2>2
<1> QED
  BY <1>1, <1>2 DEF RingNext

\* What Add does to the next snapshot: the record is its last, and a full one
\* loses its first.
LEMMA AddRecords ==
  ASSUME RingInv, RingInv', NEW rec \in Records, Add(rec)
  PROVE  Recent!Record(rec)
<1> DEFINE before == IF Len(Snapshot) < Capacity THEN Snapshot ELSE Tail(Snapshot)
<1>1. /\ Snapshot \in Seq(RingValue) /\ Len(Snapshot) = count
      /\ \A i \in 1 .. count : Snapshot[i] = recs[Place(i - 1)]
  BY SnapshotType
<1>2. /\ Snapshot' \in Seq(RingValue) /\ Len(Snapshot') = count'
      /\ \A i \in 1 .. count' : Snapshot'[i] = recs'[Place(i - 1)']
  <2>1. (RingInv => /\ Snapshot \in Seq(RingValue) /\ Len(Snapshot) = count
                    /\ \A i \in 1 .. count : Snapshot[i] = recs[Place(i - 1)])'
    BY SnapshotType, PTL
  <2> QED
    BY <2>1 DEF RingValue
<1>3. Snapshot' = Append(before, rec)
  <2>1. CASE count < Capacity
    <3>1. before = Snapshot
      BY <1>1, <2>1
    <3>2. /\ recs' = [recs EXCEPT ![count] = rec] /\ recs \in [RingSlots -> RingValue]
          /\ count' = count + 1 /\ head = 0 /\ head' = 0 /\ count \in RingSlots
      <4>1. head = 0 /\ count \in RingSlots
        BY <2>1, RecentAssumption DEF RingInv, RingSlots
      <4>2. Place(count) = count
        <5>1. count \in 0 .. 2 * Capacity - 1 /\ head + count = count
          BY <4>1, RecentAssumption DEF RingSlots
        <5>2. Around(count) = count
          BY <5>1, <2>1, Turn
        <5> QED
          BY <5>1, <5>2, PlaceIsWrap
      <4> QED
        BY <4>1, <4>2, <2>1 DEF Add, RingInv
    <3>3. \A i \in 1 .. count + 1 : Place(i - 1) = i - 1 /\ Place(i - 1)' = i - 1
      <4>1. \A n \in RingSlots : Around(0 + n) = n
        BY <3>2, PlaceInRing, RecentAssumption DEF RingSlots
      <4> QED
        BY <4>1, <3>2, PlaceIsWrap, RecentAssumption DEF RingSlots
    <3>4. \A i \in 1 .. count : Snapshot'[i] = Snapshot[i]
      BY <1>1, <1>2, <3>2, <3>3, RecentAssumption DEF RingSlots
    <3>5. Snapshot'[count + 1] = rec
      BY <1>2, <3>2, <3>3, RecentAssumption DEF RingSlots
    <3>6. /\ Append(Snapshot, rec) \in Seq(RingValue) /\ Len(Append(Snapshot, rec)) = count + 1
          /\ \A i \in 1 .. count : Append(Snapshot, rec)[i] = Snapshot[i]
          /\ Append(Snapshot, rec)[count + 1] = rec
      BY <1>1, <3>2 DEF RingSlots, RingValue
    <3>7. \A i \in 1 .. count + 1 : Snapshot'[i] = Append(Snapshot, rec)[i]
      BY <3>4, <3>5, <3>6, <3>2 DEF RingSlots
    <3> HIDE DEF before
    <3> QED
      BY <3>1, <3>2, <3>6, <3>7, <1>2, SameSequence
  <2>2. CASE ~(count < Capacity)
    <3>1. before = Tail(Snapshot) /\ count = Capacity /\ Capacity \in Nat \ {0}
      BY <1>1, <2>2, RecentAssumption DEF RingInv
    <3>2. /\ recs' = [recs EXCEPT ![head] = rec] /\ recs \in [RingSlots -> RingValue]
          /\ head' = Around(head + 1) /\ head \in RingSlots /\ count' = count
      BY <2>2 DEF Add, Around, RingInv
    <3>3. head' = IF head + 1 < Capacity THEN head + 1 ELSE 0
      <4>1. 1 \in 0 .. Capacity /\ Capacity \in Nat /\ head \in 0 .. Capacity - 1
        BY <3>1, <3>2 DEF RingSlots
      <4>2. head' = IF head + 1 < Capacity THEN head + 1 ELSE head + 1 - Capacity
        BY <3>2, <4>1, PlaceInRing
      <4> QED
        BY <4>1, <4>2
    <3>4. /\ \A n \in RingSlots :
               Place(n) = IF head + n < Capacity THEN head + n ELSE head + n - Capacity
          /\ \A n \in RingSlots :
               Place(n)' = IF head' + n < Capacity THEN head' + n ELSE head' + n - Capacity
      <4>1. head \in RingSlots /\ head' \in RingSlots
        BY <3>1, <3>2, <3>3 DEF RingSlots
      <4>2. \A n \in RingSlots : n \in 0 .. Capacity
        BY <3>1 DEF RingSlots
      <4> QED
        BY <4>1, <4>2, PlaceInRing, PlaceIsWrap
    <3>5. \A i \in 1 .. count - 1 :
            /\ i - 1 \in RingSlots /\ i \in RingSlots
            /\ Place(i - 1)' = Place(i) /\ Place(i) \in RingSlots /\ Place(i) # head
      <4> TAKE i \in 1 .. count - 1
      <4> DEFINE j == i - 1
      <4>1. j \in RingSlots /\ i \in RingSlots /\ j = i - 1 /\ i \in Int
        BY <3>1 DEF RingSlots
      <4> HIDE DEF j
      <4>2. /\ Place(i) = IF head + i < Capacity THEN head + i ELSE head + i - Capacity
            /\ Place(j)' = IF head' + j < Capacity THEN head' + j ELSE head' + j - Capacity
        BY <4>1, <3>4
      <4>3. Place(j)' = Place(i) /\ Place(i) \in RingSlots /\ Place(i) # head
        BY <4>1, <4>2, <3>1, <3>2, <3>3 DEF RingSlots
      <4> QED
        BY <4>1, <4>3 DEF j
    <3>6. \A i \in 1 .. count - 1 : Snapshot'[i] = Snapshot[i + 1]
      <4> TAKE i \in 1 .. count - 1
      <4>1. Snapshot'[i] = recs'[Place(i - 1)'] /\ Snapshot[i + 1] = recs[Place(i)]
        BY <1>1, <1>2, <3>1, <3>2
      <4> QED
        BY <4>1, <3>5, <3>2
    <3>7. Snapshot'[count] = rec
      <4>1. Place(count - 1)' = head /\ count \in 1 .. count'
        BY <3>1, <3>2, <3>3, <3>4 DEF RingSlots
      <4> QED
        BY <4>1, <1>2, <3>2
    <3>8. /\ Append(before, rec) \in Seq(RingValue) /\ Len(Append(before, rec)) = count
          /\ \A i \in 1 .. count - 1 : Append(before, rec)[i] = Snapshot[i + 1]
          /\ Append(before, rec)[count] = rec
      <4>1. /\ before \in Seq(RingValue) /\ Len(before) = count - 1
            /\ \A i \in 1 .. count - 1 : before[i] = Snapshot[i + 1]
        BY <1>1, <3>1
      <4> HIDE DEF before
      <4> QED
        BY <4>1, <3>1 DEF RingValue
    <3>9. \A i \in 1 .. count : Snapshot'[i] = Append(before, rec)[i]
      <4> HIDE DEF before
      <4> QED
        BY <3>6, <3>7, <3>8, <3>1
    <3> HIDE DEF before
    <3> QED
      BY <3>2, <3>8, <3>9, <1>2, SameSequence
  <2> QED
    BY <2>1, <2>2
<1> QED
  BY <1>3 DEF Recent!Record

\* A new ring shows an empty history.
LEMMA EmptySnapshot == NewRecentConns => Recent!Init
BY DEF NewRecentConns, Recent!Init, Snapshot

\* A step of the ring is a step of the history, or none.
LEMMA RingStep ==
  ASSUME RingInv, RingInv', [RingNext]_ring
  PROVE  [Recent!Next]_Snapshot
<1>1. CASE UNCHANGED ring
  BY <1>1 DEF ring, Snapshot, Place
<1>2. ASSUME NEW rec \in Records, Add(rec) PROVE Recent!Next
  BY <1>2, AddRecords DEF Recent!Next
<1> QED
  BY <1>1, <1>2 DEF RingNext

\* Whatever is added and however often the ring wraps, what the TUI shows is
\* the last records in their order (stats.go lines 26 to 46).
THEOREM RingKeepsLast == RingSpec => SnapshotIsRecent
<1>1. RingSpec => []RingInv
  BY RingInvInit, RingInvNext, PTL DEF RingSpec
<1> QED
  BY <1>1, EmptySnapshot, RingStep, PTL DEF RingSpec, SnapshotIsRecent, Recent!Spec

-----------------------------------------------------------------------------
\* Every nonempty set of naturals has a least element.
LEMMA LeastNatural ==
  ASSUME NEW S \in SUBSET Nat, S # {}
  PROVE  \E x \in S : \A y \in S : x <= y
<1> DEFINE R == OpToRel(<, Nat)
<1>1. IsWellFoundedOn(R, Nat)
  BY NatLessThanWellFounded
<1>2. \A x, y \in Nat : y < x => <<y, x>> \in R
  BY DEF OpToRel
<1> HIDE DEF R
<1>3. \E x \in S : \A y \in S : ~ (<<y, x>> \in R)
  BY <1>1, WFMin
<1>4. PICK x \in S : \A y \in S : ~ (<<y, x>> \in R)
  BY <1>3
<1>5. ASSUME NEW y \in S PROVE x <= y
  <2>1. x \in Nat /\ y \in Nat
    BY <1>4
  <2>2. ~ (y < x)
    BY <2>1, <1>2, <1>4
  <2> QED
    BY <2>1, <2>2
<1> QED
  BY <1>4, <1>5

\* Induction, stated of a set.
LEMMA SetInduction ==
  ASSUME NEW S \in SUBSET Nat, 0 \in S, \A n \in S : n + 1 \in S
  PROVE  S = Nat
<1> SUFFICES ASSUME Nat \ S # {} PROVE FALSE
  OBVIOUS
<1>1. PICK x \in Nat \ S : \A y \in Nat \ S : x <= y
  BY LeastNatural, Nat \ S \in SUBSET Nat
<1>2. x # 0 /\ x - 1 \in Nat /\ x - 1 \in S
  BY <1>1
<1> QED
  BY <1>1, <1>2

Sums(f, wts, n) ==
  f[0] = 0 /\ \A k \in 1 .. n : f[k] = f[k - 1] + Share(wts[k])

\* A share is at least one.
LEMMA ShareType == \A w \in Int : Share(w) \in Nat /\ Share(w) >= 1
BY DEF Share

\* The sums exist.
LEMMA SumsExist ==
  ASSUME NEW wts \in Seq(Int)
  PROVE  \E f \in [0 .. Len(wts) -> Nat] : Sums(f, wts, Len(wts))
<1> DEFINE P(n) == \E f \in [0 .. n -> Nat] : Sums(f, wts, n)
           S == {n \in Nat : n <= Len(wts) => P(n)}
<1>1. P(0)
  <2>1. [k \in 0 .. 0 |-> 0] \in [0 .. 0 -> Nat] /\ Sums([k \in 0 .. 0 |-> 0], wts, 0)
    BY DEF Sums
  <2> QED
    BY <2>1
<1>2. ASSUME NEW n \in Nat, P(n), n + 1 <= Len(wts) PROVE P(n + 1)
  <2>1. PICK f \in [0 .. n -> Nat] : Sums(f, wts, n)
    BY <1>2
  <2> DEFINE g == [k \in 0 .. n + 1 |-> IF k = n + 1 THEN f[n] + Share(wts[n + 1]) ELSE f[k]]
  <2>2. Share(wts[n + 1]) \in Nat /\ f[n] \in Nat
    <3>1. wts[n + 1] \in Int /\ n \in 0 .. n
      BY <1>2
    <3> QED
      BY <3>1, ShareType
  <2>3. g \in [0 .. n + 1 -> Nat]
    <3>1. ASSUME NEW k \in 0 .. n + 1
          PROVE  (IF k = n + 1 THEN f[n] + Share(wts[n + 1]) ELSE f[k]) \in Nat
      BY <1>2, <2>2
    <3> QED
      BY <3>1
  <2>4. g[0] = 0
    BY <2>1 DEF Sums
  <2>5. ASSUME NEW k \in 1 .. n + 1 PROVE g[k] = g[k - 1] + Share(wts[k])
    <3>1. CASE k = n + 1
      BY <3>1, <2>2
    <3>2. CASE k # n + 1
      <4>1. k \in 1 .. n /\ k - 1 \in 0 .. n + 1 /\ k - 1 # n + 1 /\ k \in 0 .. n + 1
        BY <3>2
      <4>2. f[k] = f[k - 1] + Share(wts[k])
        BY <4>1, <2>1 DEF Sums
      <4> QED
        BY <4>1, <4>2, <3>2
    <3> QED
      BY <3>1, <3>2
  <2> HIDE DEF g
  <2>6. Sums(g, wts, n + 1)
    BY <2>4, <2>5 DEF Sums
  <2> QED
    BY <2>3, <2>6
<1> HIDE DEF P
<1>3. S = Nat
  <2>1. S \in SUBSET Nat /\ 0 \in S
    BY <1>1
  <2>2. ASSUME NEW n \in S PROVE n + 1 \in S
    BY <1>2
  <2> HIDE DEF S
  <2> QED
    BY <2>1, <2>2, SetInduction
<1>4. Len(wts) \in S
  BY <1>3
<1> QED
  BY <1>4 DEF P

\* The recursion of UpTo.
LEMMA UpToUnfolds ==
  ASSUME NEW wts \in Seq(Int)
  PROVE  UpTo(wts) = [k \in 0 .. Len(wts) |->
                       IF k = 0 THEN 0 ELSE UpTo(wts)[k - 1] + Share(wts[k])]
<1> DEFINE Eq(f) == f = [k \in 0 .. Len(wts) |-> IF k = 0 THEN 0 ELSE f[k - 1] + Share(wts[k])]
<1>1. PICK f \in [0 .. Len(wts) -> Nat] : Sums(f, wts, Len(wts))
  BY SumsExist
<1>2. Eq(f)
  BY <1>1 DEF Sums
<1>3. UpTo(wts) = CHOOSE g : Eq(g)
  BY DEF UpTo
<1>4. Eq(CHOOSE g : Eq(g))
  <2> HIDE DEF Eq
  <2> QED BY <1>2
<1> QED
  BY <1>3, <1>4
\* What is read off the recursion.
LEMMA UpToSums ==
  ASSUME NEW wts \in Seq(Int)
  PROVE  /\ UpTo(wts)[0] = 0
         /\ \A k \in 1 .. Len(wts) : UpTo(wts)[k] = UpTo(wts)[k - 1] + Share(wts[k])
<1> DEFINE f == UpTo(wts)
<1>1. f = [k \in 0 .. Len(wts) |-> IF k = 0 THEN 0 ELSE f[k - 1] + Share(wts[k])]
  BY UpToUnfolds
<1>2. 0 \in 0 .. Len(wts) /\ \A k \in 1 .. Len(wts) : k \in 0 .. Len(wts) /\ k # 0
  OBVIOUS
<1> HIDE DEF f
<1>3. f[0] = 0 /\ \A k \in 1 .. Len(wts) : f[k] = f[k - 1] + Share(wts[k])
  BY <1>1, <1>2
<1> QED
  BY <1>3 DEF f

\* The sums are naturals and grow.
LEMMA UpToGrows ==
  ASSUME NEW wts \in Seq(Int)
  PROVE  \A k \in 0 .. Len(wts) : /\ UpTo(wts)[k] \in Nat
                                  /\ \A j \in 0 .. k : UpTo(wts)[j] <= UpTo(wts)[k]
<1> DEFINE f == UpTo(wts)
           Good(k) == f[k] \in Nat /\ \A j \in 0 .. k : f[j] <= f[k]
           S == {k \in Nat : k <= Len(wts) => \A j \in 0 .. k : Good(j)}
<1>1. f[0] = 0 /\ \A k \in 1 .. Len(wts) : f[k] = f[k - 1] + Share(wts[k])
  BY UpToSums
<1>2. \A k \in 1 .. Len(wts) : Share(wts[k]) \in Nat
  <2>1. \A k \in 1 .. Len(wts) : wts[k] \in Int
    OBVIOUS
  <2> QED
    BY <2>1, ShareType
<1> HIDE DEF f
<1>3. S \in SUBSET Nat /\ 0 \in S
  <2>1. \A j \in 0 .. 0 : j = 0
    OBVIOUS
  <2>2. \A j \in 0 .. 0 : Good(j)
    BY <1>1, <2>1
  <2> HIDE DEF Good
  <2> QED
    BY <2>2
<1>4. ASSUME NEW n \in S PROVE n + 1 \in S
  <2>1. SUFFICES ASSUME n + 1 <= Len(wts), NEW j \in 0 .. n + 1 PROVE Good(j)
    OBVIOUS
  <2>2. \A l \in 0 .. n : Good(l)
    BY <2>1
  <2>3. f[n + 1] = f[n] + Share(wts[n + 1]) /\ Share(wts[n + 1]) \in Nat /\ f[n] \in Nat
    BY <1>1, <1>2, <2>1, <2>2
  <2>4. \A l \in 0 .. n : f[l] \in Nat /\ f[l] <= f[n]
    BY <2>2
  <2>5. Good(n + 1)
    BY <2>3, <2>4
  <2> QED
    BY <2>2, <2>5
<1> HIDE DEF S
<1>5. S = Nat
  BY <1>3, <1>4, SetInduction
<1>6. Len(wts) \in S
  BY <1>5
<1>7. \A j \in 0 .. Len(wts) : Good(j)
  BY <1>6 DEF S
<1> QED
  BY <1>7 DEF f

\* Every number of a call has one link, the one that holds its slot.
LEMMA SlotHolds ==
  ASSUME NEW wts \in Seq(Int), wts # <<>>, NEW n \in Nat
  PROVE  /\ Total(wts) \in Nat \ {0}
         /\ Slot(wts, n) \in 1 .. Len(wts)
         /\ \A l \in 1 .. Len(wts) :
              l = Slot(wts, n) <=>
                UpTo(wts)[l - 1] <= n % Total(wts) /\ n % Total(wts) < UpTo(wts)[l]
<1> DEFINE f == UpTo(wts)
           t == Total(wts)
           idx == n % t
           Holds(l) == f[l - 1] <= idx /\ idx < f[l]
           S == {k \in 0 .. Len(wts) : idx < f[k]}
<1>1. /\ f[0] = 0 /\ \A k \in 1 .. Len(wts) : f[k] = f[k - 1] + Share(wts[k])
      /\ t = f[Len(wts)]
  BY UpToSums DEF Total
<1>2. \A k \in 1 .. Len(wts) : Share(wts[k]) \in Nat /\ Share(wts[k]) >= 1
  <2>1. \A k \in 1 .. Len(wts) : wts[k] \in Int
    OBVIOUS
  <2> QED
    BY <2>1, ShareType
<1>3. \A k \in 0 .. Len(wts) : f[k] \in Nat /\ \A j \in 0 .. k : f[j] <= f[k]
  <2> HIDE DEF f
  <2>1. \A k \in 0 .. Len(wts) : /\ UpTo(wts)[k] \in Nat
                               /\ \A j \in 0 .. k : UpTo(wts)[j] <= UpTo(wts)[k]
    BY UpToGrows
  <2> QED
    BY <2>1 DEF f
<1>4. Slot(wts, n) = CHOOSE l \in 1 .. Len(wts) : Holds(l)
  BY DEF Slot
<1> HIDE DEF f, t
<1>5. t \in Nat \ {0}
  <2>1. Len(wts) \in 1 .. Len(wts) /\ Len(wts) - 1 \in 0 .. Len(wts)
    OBVIOUS
  <2> QED
    BY <1>1, <1>2, <1>3, <2>1
<1>6. idx \in 0 .. t - 1
  BY <1>5
<1> HIDE DEF idx
<1>7. PICK x \in S : \A y \in S : x <= y
  <2>1. Len(wts) \in 0 .. Len(wts) /\ 0 .. Len(wts) \subseteq Nat
    OBVIOUS
  <2>2. S \in SUBSET Nat /\ Len(wts) \in S
    BY <1>1, <1>5, <1>6, <2>1
  <2> HIDE DEF S
  <2> QED
    BY <2>2, LeastNatural
<1>8. x \in 1 .. Len(wts) /\ Holds(x)
  <2>1. x \in 0 .. Len(wts) /\ idx < f[x]
    OBVIOUS
  <2>3. x # 0
    BY <2>1, <1>1, <1>6
  <2>2. x - 1 \notin S
    BY <1>7, <2>1, <2>3
  <2> QED
    BY <2>1, <2>2, <2>3, <1>3, <1>6
<1>9. ASSUME NEW k \in 1 .. Len(wts), NEW l \in 1 .. Len(wts), Holds(k), Holds(l), k < l
      PROVE  FALSE
  <2>1. k \in 0 .. l - 1 /\ l - 1 \in 0 .. Len(wts) /\ k \in 0 .. Len(wts)
    BY <1>9
  <2>2. f[k] <= f[l - 1] /\ f[k] \in Nat /\ f[l - 1] \in Nat
    BY <1>3, <2>1
  <2> QED
    BY <1>9, <2>2, <1>6
<1>10. \A k, l \in 1 .. Len(wts) : Holds(k) /\ Holds(l) => k = l
  <2> HIDE DEF Holds
  <2>1. \A k, l \in 1 .. Len(wts) : Holds(k) /\ Holds(l) => ~ (k < l) /\ ~ (l < k)
    BY <1>9
  <2> QED
    BY <2>1
<1> HIDE DEF Holds
<1>11. Slot(wts, n) \in 1 .. Len(wts) /\ Holds(Slot(wts, n))
  BY <1>4, <1>8
<1>12. \A l \in 1 .. Len(wts) : l = Slot(wts, n) <=> Holds(l)
  BY <1>10, <1>11
<1> QED
  BY <1>5, <1>11, <1>12 DEF Holds, idx, t, f

\* The range of a remainder.
LEMMA ModType == \A a \in Nat : \A t \in Nat \ {0} : (a % t) \in 0 .. t - 1
OBVIOUS

\* What % does to a sum of at most one turn.
LEMMA RemainderMoves ==
  ASSUME NEW t \in Nat \ {0}, NEW a \in Nat, NEW b \in 0 .. t
  PROVE  (a + b) % t = IF (a % t) + b < t THEN (a % t) + b ELSE (a % t) + b - t
<1> DEFINE p == (a + b) \div t
           q == a \div t
           r == a % t
           s == (a + b) % t
<1>1. /\ p \in Int /\ q \in Int /\ r \in 0 .. t - 1 /\ s \in 0 .. t - 1
      /\ a + b = t * p + s /\ a = t * q + r
  OBVIOUS
<1> HIDE DEF p, q, r, s
<1>2. t * (p - q) = r + b - s
  BY <1>1
<1>3. p - q \in {0, 1}
  <2>1. PICK k \in Int : k = p - q
    BY <1>1
  <2>2. t * k = r + b - s /\ r + b - s > -t /\ r + b - s < 2 * t
    BY <2>1, <1>1, <1>2
  <2>3. ~ (k <= -1)
    <3>1. k <= -1 => t * k <= -t
      BY <2>1
    <3> QED
      BY <2>1, <2>2, <3>1, <1>1
  <2>4. ~ (k >= 2)
    <3>1. k >= 2 => t * k >= 2 * t
      BY <2>1
    <3> QED
      BY <2>1, <2>2, <3>1, <1>1
  <2> QED
    BY <2>1, <2>3, <2>4
<1>4. CASE p - q = 0
  BY <1>1, <1>2, <1>4 DEF r, s
<1>5. CASE p - q = 1
  BY <1>1, <1>2, <1>5 DEF r, s
<1> QED
  BY <1>3, <1>4, <1>5

\* How much of a stretch of w slots lies below x.
Clip(x, w) == IF x < 0 THEN 0 ELSE IF x > w THEN w ELSE x

\* How many of the calls numbered below y, in two turns of t slots, a link with
\* the w slots from lo on takes.
Given(y, lo, w, t) == Clip(y - lo, w) + Clip(y - t - lo, w)

\* One more call, one more for the link that holds its slot.
LEMMA GivenMoves ==
  ASSUME NEW t \in Nat, NEW lo \in Nat, NEW w \in Nat, lo + w <= t,
         NEW y \in 0 .. 2 * t - 1, NEW idx \in Nat, idx = IF y < t THEN y ELSE y - t
  PROVE  Given(y + 1, lo, w, t) = Given(y, lo, w, t) + (IF lo <= idx /\ idx < lo + w THEN 1 ELSE 0)
BY DEF Given, Clip

\* Within a turn a link is given its share at most, and after it exactly.
LEMMA GivenInTurn ==
  ASSUME NEW t \in Nat, NEW lo \in Nat, NEW w \in Nat, lo + w <= t,
         NEW s \in 0 .. t - 1, NEW n \in 0 .. t
  PROVE  /\ Given(s + n, lo, w, t) - Given(s, lo, w, t) <= w
         /\ Given(s + t, lo, w, t) - Given(s, lo, w, t) = w
BY DEF Given, Clip

-----------------------------------------------------------------------------
\* What a link has been given follows from how many calls there were.
TurnInv ==
  /\ ws \in Seq(Int) /\ first \in Nat /\ calls \in Nat
  /\ taken \in [1 .. Len(ws) -> Int]
  /\ ws # <<>> =>
       LET t == Total(ws)
           s == first % t
       IN  /\ calls <= t
           /\ \A l \in 1 .. Len(ws) :
                taken[l] = Given(s + calls, UpTo(ws)[l - 1], Share(ws[l]), t)
                             - Given(s, UpTo(ws)[l - 1], Share(ws[l]), t)

\* The slots of a link lie within the turn.
LEMMA LinkSlots ==
  ASSUME NEW wts \in Seq(Int), NEW l \in 1 .. Len(wts)
  PROVE  /\ UpTo(wts)[l - 1] \in Nat /\ Share(wts[l]) \in Nat
         /\ UpTo(wts)[l] = UpTo(wts)[l - 1] + Share(wts[l])
         /\ UpTo(wts)[l - 1] + Share(wts[l]) <= Total(wts)
<1>1. l - 1 \in 0 .. Len(wts) /\ Len(wts) \in 0 .. Len(wts) /\ l \in 0 .. Len(wts) /\ wts[l] \in Int
  OBVIOUS
<1>2. Share(wts[l]) \in Nat
  BY <1>1, ShareType
<1>3. UpTo(wts)[l] = UpTo(wts)[l - 1] + Share(wts[l])
  BY UpToSums
<1>4. UpTo(wts)[l - 1] \in Nat
  BY <1>1, UpToGrows
<1>5. UpTo(wts)[l] <= UpTo(wts)[Len(wts)]
  BY <1>1, UpToGrows
<1> QED
  BY <1>2, <1>3, <1>4, <1>5 DEF Total

\* No call yet, nothing taken.
LEMMA TurnInvInit == Init => TurnInv
<1> SUFFICES ASSUME Init PROVE TurnInv
  OBVIOUS
<1>1. ws \in Seq(Int) /\ first \in Nat /\ calls = 0 /\ taken = [l \in 1 .. Len(ws) |-> 0]
  BY AlgorithmsAssumption DEF Init
<1>2. ASSUME ws # <<>>
      PROVE  /\ calls <= Total(ws)
             /\ \A l \in 1 .. Len(ws) :
                  taken[l] = Given((first % Total(ws)) + calls, UpTo(ws)[l - 1], Share(ws[l]), Total(ws))
                               - Given(first % Total(ws), UpTo(ws)[l - 1], Share(ws[l]), Total(ws))
  <2>1. Total(ws) \in Nat \ {0}
    BY <1>1, <1>2, SlotHolds
  <2>2. ASSUME NEW l \in 1 .. Len(ws)
        PROVE  Given(first % Total(ws), UpTo(ws)[l - 1], Share(ws[l]), Total(ws)) \in Int
    <3>1. PICK t \in Nat \ {0} : t = Total(ws)
      BY <2>1
    <3>2. PICK s \in 0 .. t - 1 : s = first % t
      BY <1>1, ModType
    <3>3. PICK lo \in Nat, w \in Nat : lo = UpTo(ws)[l - 1] /\ w = Share(ws[l])
      BY <1>1, LinkSlots
    <3>4. Given(s, lo, w, t) \in Int
      BY DEF Given, Clip
    <3> QED
      BY <3>1, <3>2, <3>3, <3>4
  <2> QED
    BY <1>1, <2>1, <2>2
<1> QED
  BY <1>1, <1>2 DEF TurnInv

\* A call is taken by the link whose slot it is (pickRoundRobin, balancer.go
\* lines 212 to 244).
LEMMA TurnInvNext == TurnInv /\ [Next]_vars => TurnInv'
<1> SUFFICES ASSUME TurnInv, [Next]_vars PROVE TurnInv'
  OBVIOUS
<1>1. CASE UNCHANGED turnVars
  BY <1>1 DEF TurnInv, turnVars
<1>2. CASE Call
  <2>1. /\ ws # <<>> /\ ws \in Seq(Int) /\ first \in Nat /\ calls \in Nat
        /\ calls < Total(ws) /\ taken \in [1 .. Len(ws) -> Int]
        /\ ws' = ws /\ first' = first /\ calls' = calls + 1
        /\ taken' = [taken EXCEPT ![Slot(ws, first + calls)] = @ + 1]
    BY <1>2 DEF TurnInv, Call
  <2>2. /\ first + calls \in Nat /\ Total(ws) \in Nat \ {0}
        /\ Slot(ws, first + calls) \in 1 .. Len(ws)
    <3>1. first + calls \in Nat
      BY <2>1
    <3> QED
      BY <2>1, <3>1, SlotHolds
  <2>3. PICK t \in Nat \ {0} : t = Total(ws)
    BY <2>2
  <2>4. PICK s \in 0 .. t - 1 : s = first % t
    <3>1. first \in Nat
      BY <2>1
    <3> QED
      BY <3>1, ModType
  <2>5. PICK idx \in 0 .. t - 1 : idx = (first + calls) % t
    BY <2>2
  <2>6. idx = IF s + calls < t THEN s + calls ELSE s + calls - t
    <3>1. first \in Nat /\ calls \in 0 .. t
      BY <2>1, <2>3
    <3>2. PICK a \in Nat, b \in 0 .. t : a = first /\ b = calls
      BY <3>1
    <3>3. (a + b) % t = IF (a % t) + b < t THEN (a % t) + b ELSE (a % t) + b - t
      BY RemainderMoves
    <3> QED
      BY <2>4, <2>5, <3>2, <3>3
  <2>7. PICK y \in 0 .. 2 * t - 1 : y = s + calls
    <3>1. s + calls \in 0 .. 2 * t - 1
      BY <2>1, <2>3
    <3> QED
      BY <3>1
  <2>8. ASSUME NEW l \in 1 .. Len(ws)
        PROVE  taken'[l] = Given(s + calls', UpTo(ws)[l - 1], Share(ws[l]), t)
                             - Given(s, UpTo(ws)[l - 1], Share(ws[l]), t)
    <3>1. /\ UpTo(ws)[l - 1] \in Nat /\ Share(ws[l]) \in Nat
          /\ UpTo(ws)[l] = UpTo(ws)[l - 1] + Share(ws[l])
          /\ UpTo(ws)[l - 1] + Share(ws[l]) <= Total(ws)
      BY <2>1, LinkSlots
    <3>2. (l = Slot(ws, first + calls)) <=>
            (UpTo(ws)[l - 1] <= (first + calls) % Total(ws) /\ (first + calls) % Total(ws) < UpTo(ws)[l])
      BY <2>1, <2>2, SlotHolds
    <3>3. taken[l] = Given((first % Total(ws)) + calls, UpTo(ws)[l - 1], Share(ws[l]), Total(ws))
                       - Given(first % Total(ws), UpTo(ws)[l - 1], Share(ws[l]), Total(ws))
      BY <2>1 DEF TurnInv
    <3>4. PICK lo \in Nat, w \in Nat : lo = UpTo(ws)[l - 1] /\ w = Share(ws[l])
      BY <3>1
    <3>5. lo + w <= t /\ ((l = Slot(ws, first + calls)) <=> (lo <= idx /\ idx < lo + w))
      BY <2>3, <2>5, <3>1, <3>2, <3>4
    <3>6. taken[l] = Given(y, lo, w, t) - Given(s, lo, w, t)
      BY <2>3, <2>4, <2>7, <3>3, <3>4
    <3>7. taken'[l] = taken[l] + (IF l = Slot(ws, first + calls) THEN 1 ELSE 0)
      <4>1. PICK k \in 1 .. Len(ws) : k = Slot(ws, first + calls)
        BY <2>2
      <4>2. taken[l] \in Int /\ taken' = [taken EXCEPT ![k] = @ + 1]
        BY <2>1, <4>1
      <4>3. taken'[l] = IF l = k THEN taken[l] + 1 ELSE taken[l]
        BY <2>1, <4>2
      <4> QED
        BY <4>1, <4>2, <4>3
    <3>8. Given(y + 1, lo, w, t)
            = Given(y, lo, w, t) + (IF lo <= idx /\ idx < lo + w THEN 1 ELSE 0)
      <4>1. calls \in Nat
        BY <2>1
      <4>2. idx \in Nat /\ idx = IF y < t THEN y ELSE y - t
        BY <2>6, <2>7, <4>1
      <4> QED
        BY <3>5, <4>2 DEF Given, Clip
    <3>9. Given(y, lo, w, t) \in Int /\ Given(s, lo, w, t) \in Int
      BY <2>7 DEF Given, Clip
    <3>10. y + 1 = s + calls'
      BY <2>1, <2>7
    <3> QED
      BY <3>4, <3>5, <3>6, <3>7, <3>8, <3>9, <3>10
  <2>9. calls' \in Nat /\ calls' <= t
    BY <2>1, <2>3
  <2>10. taken' \in [1 .. Len(ws) -> Int]
    BY <2>1, <2>2
  <2> QED
    BY <2>1, <2>3, <2>4, <2>8, <2>9, <2>10 DEF TurnInv
<1>3. CASE Lay \/ AddRecord \/ Ask
  BY <1>1, <1>3 DEF Lay, AddRecord, Ask, turnVars
<1> QED
  BY <1>1, <1>2, <1>3 DEF Next, vars, turnVars

\* Whatever the weights, the number of links and b.next ("weighted
\* round-robin", balancer.go line 148).
THEOREM CyclesAreFair == Spec => []FairShare
<1>1. ASSUME TurnInv, ws # <<>>, NEW l \in 1 .. Len(ws)
      PROVE  taken[l] <= Share(ws[l]) /\ (calls = Total(ws) => taken[l] = Share(ws[l]))
  <2>1. ws \in Seq(Int) /\ first \in Nat
    BY <1>1 DEF TurnInv
  <2>2. Total(ws) \in Nat \ {0}
    BY <1>1, <2>1, SlotHolds
  <2>3. PICK t \in Nat \ {0} : t = Total(ws)
    BY <2>2
  <2>4. PICK s \in 0 .. t - 1 : s = first % t
    BY <2>1, ModType
  <2>5. PICK lo \in Nat, w \in Nat :
          lo = UpTo(ws)[l - 1] /\ w = Share(ws[l]) /\ lo + w <= t
    BY <1>1, <2>1, <2>3, LinkSlots
  <2>6. calls \in 0 .. t /\ taken[l] = Given(s + calls, lo, w, t) - Given(s, lo, w, t)
    BY <1>1, <2>3, <2>4, <2>5 DEF TurnInv
  <2>7. /\ Given(s + calls, lo, w, t) - Given(s, lo, w, t) <= w
        /\ Given(s + t, lo, w, t) - Given(s, lo, w, t) = w
    <3>1. PICK n \in 0 .. t : n = calls
      BY <2>6
    <3>2. lo + w <= t
      BY <2>5
    <3>3. /\ Given(s + n, lo, w, t) - Given(s, lo, w, t) <= w
          /\ Given(s + t, lo, w, t) - Given(s, lo, w, t) = w
      BY <3>2, GivenInTurn
    <3> QED
      BY <3>1, <3>3
  <2> QED
    BY <2>3, <2>5, <2>6, <2>7
<1>2. TurnInv => FairShare
  BY <1>1 DEF FairShare, TurnInv
<1> QED
  BY <1>2, TurnInvInit, TurnInvNext, PTL DEF Spec

-----------------------------------------------------------------------------
\* Below the cap a chunk is no larger than its target.
LEMMA BelowTarget ==
  ASSUME NEW size \in Nat, ComputeChunks(size) < MaxChunks
  PROVE  size \div ComputeChunks(size) <= ChunkTarget
<1> DEFINE n == ComputeChunks(size)
           w == size \div ChunkTarget
           r == size % ChunkTarget
           q == size \div n
<1>1. ChunkTarget \in Nat \ {0} /\ MaxChunks \in Nat
  BY PlanAssumption
<1>2. w \in Nat /\ r \in 0 .. ChunkTarget - 1 /\ size = ChunkTarget * w + r
  BY <1>1
<1>3. n \in Nat \ {0} /\ n >= 2
  BY ChunkCountBounds
<1>4. n = IF w + (IF r # 0 THEN 1 ELSE 0) < 2 THEN 2 ELSE w + (IF r # 0 THEN 1 ELSE 0)
  BY <1>1 DEF ComputeChunks, CeilDiv
<1> HIDE DEF n, w, r
<1>5. q \in Nat /\ n * q <= size
  BY <1>3, DivBounds
<1>6. size <= n * ChunkTarget
  <2>1. PICK k \in Nat : n = w + k
    BY <1>2, <1>3, <1>4
  <2>2. n * ChunkTarget = ChunkTarget * w + k * ChunkTarget
    BY <2>1, <1>1, <1>2
  <2>3. r # 0 => k >= 1
    BY <2>1, <1>2, <1>4
  <2>4. k >= 1 => k * ChunkTarget >= ChunkTarget
    BY <1>1
  <2>5. k * ChunkTarget \in Nat
    BY <1>1
  <2> QED
    BY <1>1, <1>2, <2>2, <2>3, <2>4, <2>5
<1> HIDE DEF q
<1>7. ~ (q >= ChunkTarget + 1)
  <2>1. q >= ChunkTarget + 1 => n * q >= n * (ChunkTarget + 1)
    BY <1>1, <1>3, <1>5
  <2>2. n * (ChunkTarget + 1) = n * ChunkTarget + n
    BY <1>1, <1>3
  <2>3. n * ChunkTarget \in Nat /\ n * q \in Nat
    BY <1>1, <1>3, <1>5
  <2> QED
    BY <1>3, <1>5, <1>6, <2>1, <2>2, <2>3
<1> QED
  BY <1>1, <1>5, <1>7 DEF q, n

\* Where the first k chunks end.
Edge(r, k) == IF k = NumChunks(r) THEN r.effEnd + 1 ELSE ChunkFirst(r, k)

\* The chunks fill the stretches between the edges.
LEMMA EdgesTile ==
  ASSUME NEW r, SplittableRange(r)
  PROVE  /\ NumChunks(r) \in 2 .. MaxChunks
         /\ Edge(r, 0) = r.effStart
         /\ \A k \in 0 .. NumChunks(r) - 1 :
              /\ Edge(r, k) \in Nat /\ Edge(r, k + 1) \in Nat
              /\ r.effStart <= Edge(r, k) /\ Edge(r, k) <= Edge(r, k + 1)
              /\ ChunkFirst(r, k) = Edge(r, k) /\ ChunkLast(r, k) = Edge(r, k + 1) - 1
<1>1. NumChunks(r) \in 2 .. MaxChunks
  BY ChunksTile, PlanAssumption
<1>2. Edge(r, 0) = r.effStart
  BY <1>1, ChunksTile DEF Edge
<1>3. ASSUME NEW k \in 0 .. NumChunks(r) - 1
      PROVE  /\ Edge(r, k) \in Nat /\ Edge(r, k + 1) \in Nat
             /\ r.effStart <= Edge(r, k) /\ Edge(r, k) <= Edge(r, k + 1)
             /\ ChunkFirst(r, k) = Edge(r, k) /\ ChunkLast(r, k) = Edge(r, k + 1) - 1
  <2>1. /\ r.effStart \in Nat /\ r.effEnd \in Nat
        /\ ChunkFirst(r, k) \in Int /\ ChunkLast(r, k) \in Int
        /\ r.effStart <= ChunkFirst(r, k) /\ ChunkFirst(r, k) <= ChunkLast(r, k) + 1
    BY ChunksTile DEF SplittableRange
  <2>2. ChunkFirst(r, k) = Edge(r, k)
    BY <1>1 DEF Edge
  <2>3. CASE k = NumChunks(r) - 1
    <3>1. k + 1 = NumChunks(r)
      BY <1>1, <2>3
    <3>2. ChunkLast(r, k) = r.effEnd
      BY <2>3, ChunksTile
    <3>3. Edge(r, k + 1) = r.effEnd + 1
      BY <3>1 DEF Edge
    <3> QED
      BY <2>1, <2>2, <3>2, <3>3
  <2>4. CASE k # NumChunks(r) - 1
    <3>1. k \in 0 .. NumChunks(r) - 2 /\ k + 1 # NumChunks(r)
      BY <1>1, <2>4
    <3>2. ChunkFirst(r, k + 1) = ChunkLast(r, k) + 1
      BY <3>1, ChunksTile
    <3>3. Edge(r, k + 1) = ChunkFirst(r, k + 1)
      BY <3>1 DEF Edge
    <3> QED
      BY <2>1, <2>2, <3>2, <3>3
  <2> QED
    BY <2>3, <2>4
<1> QED
  BY <1>1, <1>2, <1>3

\* The chunks laid down are the range up to an edge, each offset once.
LaidInv ==
  RangeSize(range) > 0 =>
    /\ SplittableRange(range)
    /\ nlaid \in 0 .. NumChunks(range)
    /\ laid \subseteq (range.effStart .. Edge(range, nlaid) - 1) \X Nat
    /\ \A x \in range.effStart .. Edge(range, nlaid) - 1 : \E p \in laid : p[1] = x
    /\ \A p, q \in laid : p[1] = q[1] => p = q

\* Nothing is laid down of a range that has an offset.
LEMMA LaidInvInit == Init => LaidInv
<1> SUFFICES ASSUME Init, RangeSize(range) > 0
             PROVE  /\ SplittableRange(range)
                    /\ nlaid \in 0 .. NumChunks(range)
                    /\ laid \subseteq (range.effStart .. Edge(range, nlaid) - 1) \X Nat
                    /\ \A x \in range.effStart .. Edge(range, nlaid) - 1 : \E p \in laid : p[1] = x
                    /\ \A p, q \in laid : p[1] = q[1] => p = q
  BY DEF LaidInv
<1>1. PICK s \in Nat, n \in Nat : range = RangeOf(s, n)
  <2>1. range \in {RangeOf(s, n) : s \in Starts, n \in Sizes} \/ range = RangeOf(0, 0)
    BY DEF Init
  <2>2. Starts \subseteq Nat /\ Sizes \subseteq Nat /\ 0 \in Nat
    BY AlgorithmsAssumption
  <2> QED
    BY <2>1, <2>2
<1>2. nlaid = 0 /\ laid = {}
  BY DEF Init
<1>3. SplittableRange(range)
  BY <1>1 DEF RangeOf, RangeSize, SplittableRange
<1>4. NumChunks(range) \in 2 .. MaxChunks /\ Edge(range, 0) = range.effStart
  BY <1>3, EdgesTile
<1>5. range.effStart .. range.effStart - 1 = {}
  BY <1>3 DEF SplittableRange
<1> QED
  BY <1>2, <1>3, <1>4, <1>5, PlanAssumption

\* A chunk begins where the last one ended.
LEMMA LaidInvNext == LaidInv /\ [Next]_vars => LaidInv'
<1> SUFFICES ASSUME LaidInv, [Next]_vars PROVE LaidInv'
  OBVIOUS
<1>1. CASE UNCHANGED planVars
  BY <1>1 DEF LaidInv, planVars
<1>2. CASE Lay
  <2>1. PICK r : r = range
    OBVIOUS
  <2>2. PICK k \in 0 .. NumChunks(r) - 1 : k = nlaid
    BY <1>2, <2>1, EdgesTile, PlanAssumption DEF Lay, LaidInv
  <2>3. /\ SplittableRange(r) /\ range' = r /\ nlaid' = k + 1
        /\ laid' = laid \cup ((ChunkFirst(r, k) .. ChunkLast(r, k)) \X {k})
        /\ laid \subseteq (r.effStart .. Edge(r, k) - 1) \X Nat
        /\ \A x \in r.effStart .. Edge(r, k) - 1 : \E p \in laid : p[1] = x
        /\ \A p, q \in laid : p[1] = q[1] => p = q
    BY <1>2, <2>1, <2>2 DEF Lay, LaidInv
  <2>4. PICK a \in Nat, b \in Nat : a = Edge(r, k) /\ b = Edge(r, k + 1)
    BY <2>3, EdgesTile
  <2>5. /\ r.effStart \in Nat /\ r.effStart <= a /\ a <= b
        /\ ChunkFirst(r, k) = a /\ ChunkLast(r, k) = b - 1
    BY <2>3, <2>4, EdgesTile DEF SplittableRange
  <2>6. nlaid' \in 0 .. NumChunks(r)
    BY <2>3, EdgesTile, PlanAssumption
  <2>7. laid' \subseteq (r.effStart .. b - 1) \X Nat
    BY <2>3, <2>4, <2>5
  <2>8. ASSUME NEW x \in r.effStart .. b - 1 PROVE \E p \in laid' : p[1] = x
    <3>1. CASE x <= a - 1
      BY <2>3, <2>4, <2>5, <3>1
    <3>2. CASE x >= a
      <4>1. <<x, k>> \in laid'
        BY <2>3, <2>5, <3>2
      <4> QED
        BY <4>1
    <3> QED
      BY <3>1, <3>2, <2>5
  <2>9. ASSUME NEW p \in laid', NEW q \in laid', p[1] = q[1] PROVE p = q
    <3> DEFINE new == (a .. b - 1) \X {k}
    <3>1. laid' = laid \cup new
      BY <2>3, <2>5
    <3>2. \A u \in laid : u[1] \in Int /\ u[1] < a
      BY <2>3, <2>4, <2>5
    <3>3. \A u \in new : u[1] \in Int /\ u[1] >= a /\ u = <<u[1], k>>
      OBVIOUS
    <3> HIDE DEF new
    <3>4. CASE p \in laid /\ q \in laid
      BY <2>3, <2>9, <3>4
    <3>5. CASE p \in new /\ q \in new
      BY <2>9, <3>3, <3>5
    <3>6. ~ (p \in laid /\ q \in new) /\ ~ (p \in new /\ q \in laid)
      BY <2>9, <3>2, <3>3
    <3> QED
      BY <3>1, <3>4, <3>5, <3>6
  <2> QED
    BY <2>3, <2>4, <2>6, <2>7, <2>8, <2>9 DEF LaidInv
<1>3. CASE Call \/ AddRecord \/ Ask
  BY <1>1, <1>3 DEF Call, AddRecord, Ask, planVars
<1> QED
  BY <1>1, <1>2, <1>3 DEF Next, vars, planVars

\* Whatever the range, the target and the cap: starts[] and ends[]
\* (rangesplit.go lines 347 to 355) lose no byte of a download and fetch none
\* twice.
THEOREM ChunksCover == Spec => []Tiling
<1>1. ASSUME LaidInv, RangeSize(range) > 0
      PROVE  /\ Cardinality(laid) = Cardinality(Covered)
             /\ Covered = range.effStart .. (IF nlaid = NumChunks(range) THEN range.effEnd
                                             ELSE ChunkFirst(range, nlaid) - 1)
             /\ NumChunks(range) \in 2 .. MaxChunks
             /\ NumChunks(range) < MaxChunks => ChunkSize(range) <= ChunkTarget
             /\ RangeSize(range) >= 2 =>
                  \A c \in 0 .. NumChunks(range) - 1 : ChunkFirst(range, c) <= ChunkLast(range, c)
  <2>1. /\ SplittableRange(range) /\ nlaid \in 0 .. NumChunks(range)
        /\ laid \subseteq (range.effStart .. Edge(range, nlaid) - 1) \X Nat
        /\ \A x \in range.effStart .. Edge(range, nlaid) - 1 : \E p \in laid : p[1] = x
        /\ \A p, q \in laid : p[1] = q[1] => p = q
    BY <1>1 DEF LaidInv
  <2>2. /\ range.effStart \in Nat /\ range.effEnd \in Nat /\ RangeSize(range) \in Nat
        /\ NumChunks(range) \in 2 .. MaxChunks
    BY <2>1, EdgesTile DEF SplittableRange, RangeSize
  <2>3. Edge(range, nlaid) - 1 = IF nlaid = NumChunks(range) THEN range.effEnd
                                 ELSE ChunkFirst(range, nlaid) - 1
    BY <2>2 DEF Edge
  <2>4. Edge(range, nlaid) \in Int
    <3>1. CASE nlaid = NumChunks(range)
      BY <3>1, <2>2 DEF Edge
    <3>2. CASE nlaid # NumChunks(range)
      <4>1. nlaid \in 0 .. NumChunks(range) - 1
        BY <3>2, <2>1, <2>2, PlanAssumption
      <4> QED
        BY <4>1, <2>1, EdgesTile
    <3> QED
      BY <3>1, <3>2
  <2>5. Covered = range.effStart .. Edge(range, nlaid) - 1
    BY <2>1 DEF Covered
  <2>6. Cardinality(laid) = Cardinality(Covered)
    <3> DEFINE f == [p \in laid |-> p[1]]
    <3>1. IsFiniteSet(Covered)
      <4>1. PICK a \in Int, b \in Int : a = range.effStart /\ b = Edge(range, nlaid) - 1
        BY <2>2, <2>4
      <4>2. IsFiniteSet(a .. b)
        BY FS_Interval
      <4> QED
        BY <2>5, <4>1, <4>2
    <3>2. f \in [laid -> Covered]
      BY DEF Covered
    <3>3. f \in Injection(laid, Covered)
      BY <3>2, <2>1 DEF Injection, IsInjective
    <3>4. f \in Surjection(laid, Covered)
      BY <3>2 DEF Surjection, Covered
    <3> HIDE DEF f
    <3> QED
      BY <3>1, <3>3, <3>4, FS_Injection
  <2>7. NumChunks(range) < MaxChunks => ChunkSize(range) <= ChunkTarget
    BY <2>2, BelowTarget DEF NumChunks, ChunkSize
  <2>8. RangeSize(range) >= 2 =>
          \A c \in 0 .. NumChunks(range) - 1 : ChunkFirst(range, c) <= ChunkLast(range, c)
    BY <2>1, ChunksNonempty
  <2> QED
    BY <2>2, <2>3, <2>5, <2>6, <2>7, <2>8
<1>2. LaidInv => Tiling
  BY <1>1 DEF Tiling
<1> QED
  BY <1>2, LaidInvInit, LaidInvNext, PTL DEF Spec

-----------------------------------------------------------------------------
\* The verdict is shouldSplit's; an answer that is no part has no such header.
AskInv ==
  /\ answer \in Answers /\ nlinks \in Nat
  /\ answer.status \notin {200, 206} => answer.first = Malformed
  /\ verdict = "split" => ShouldSplit(answer, nlinks)
  /\ verdict = "stream" => ~ShouldSplit(answer, nlinks)

\* An answer that fails one of the four tests is of the same kind.
LEMMA FlagsMayChange ==
  ASSUME NEW S, NEW L, NEW F, NEW T, NEW O,
         NEW b \in [get : BOOLEAN, status : S, length : L, first : F, last : T, outOf : O,
                    acceptsRanges : BOOLEAN, encoded : BOOLEAN, streaming : BOOLEAN]
  PROVE  {[b EXCEPT !.get = FALSE], [b EXCEPT !.acceptsRanges = FALSE],
          [b EXCEPT !.encoded = TRUE], [b EXCEPT !.streaming = TRUE]} \subseteq
           [get : BOOLEAN, status : S, length : L, first : F, last : T, outOf : O,
            acceptsRanges : BOOLEAN, encoded : BOOLEAN, streaming : BOOLEAN]
<1> DEFINE A == [get : BOOLEAN, status : S, length : L, first : F, last : T, outOf : O,
                 acceptsRanges : BOOLEAN, encoded : BOOLEAN, streaming : BOOLEAN]
<1>1. [b EXCEPT !.get = FALSE] \in A
  OBVIOUS
<1>2. [b EXCEPT !.acceptsRanges = FALSE] \in A
  OBVIOUS
<1>3. [b EXCEPT !.encoded = TRUE] \in A
  OBVIOUS
<1>4. [b EXCEPT !.streaming = TRUE] \in A
  OBVIOUS
<1> QED
  BY <1>1, <1>2, <1>3, <1>4

\* The answers looked at are answers.
LEMMA SmallAreAnswers ==
  ASSUME NEW a \in SmallAnswers
  PROVE  a \in Answers /\ (a.status \notin {200, 206} => a.first = Malformed)
<1>1. MaxInt \in Nat /\ 1 \in Int64 /\ 0 \in Int64 /\ -1 \in Int64 /\ MaxInt \in Int64
  BY DecisionAssumption DEF Int64
<1>2. Plain \in Answers /\ Plain.status = 404 /\ Plain.first = Malformed
  BY <1>1 DEF Plain, Answers
<1>3. ASSUME NEW b \in Whole PROVE b \in Answers /\ b.status = 200
  <2>1. PICK n \in -1 .. MaxInt : b = WholeOf(n)
    BY DEF Whole
  <2>2. b = [get |-> TRUE, status |-> 200, length |-> n,
             first |-> Malformed, last |-> Malformed, outOf |-> Malformed,
             acceptsRanges |-> TRUE, encoded |-> FALSE, streaming |-> FALSE]
    BY <2>1, ZenonT(40) DEF WholeOf, Plain
  <2> QED
    BY <2>2 DEF Answers
<1>4. ASSUME NEW b \in Partial PROVE b \in Answers /\ b.status = 206
  <2>1. PICK f \in (0 .. MaxInt) \cup {Malformed}, l \in Int64 \cup {Malformed},
             t \in {-1, 0, 1, MaxInt, Malformed, Star} :
          b = PartOf(f, l, t)
    BY DEF Partial
  <2>2. t \in Int64 \cup {Malformed, Star}
    BY <1>1
  <2>3. b = [get |-> TRUE, status |-> 206, length |-> -1,
             first |-> f, last |-> l, outOf |-> t,
             acceptsRanges |-> TRUE, encoded |-> FALSE, streaming |-> FALSE]
    BY <2>1, ZenonT(40) DEF PartOf, Plain
  <2>4. f \in (0 .. MaxInt) \cup {Malformed} /\ l \in Int64 \cup {Malformed} /\ -1 \in -1 .. MaxInt
    BY <1>1
  <2> QED
    BY <2>2, <2>3, <2>4 DEF Answers
<1>5. PICK b \in Whole \cup Partial \cup {Plain} :
        a \in {b, [b EXCEPT !.get = FALSE], [b EXCEPT !.acceptsRanges = FALSE],
               [b EXCEPT !.encoded = TRUE], [b EXCEPT !.streaming = TRUE]}
  BY DEF SmallAnswers
<1>6. b \in Answers /\ (b.status \notin {200, 206} => b.first = Malformed)
  BY <1>2, <1>3, <1>4
<1>7. /\ [b EXCEPT !.get = FALSE] \in Answers
      /\ [b EXCEPT !.acceptsRanges = FALSE] \in Answers
      /\ [b EXCEPT !.encoded = TRUE] \in Answers
      /\ [b EXCEPT !.streaming = TRUE] \in Answers
  <2>1. PICK S, L, F, T, O :
          Answers = [get : BOOLEAN, status : S, length : L, first : F, last : T, outOf : O,
                     acceptsRanges : BOOLEAN, encoded : BOOLEAN, streaming : BOOLEAN]
    BY ZenonT(40) DEF Answers
  <2> QED
    BY <1>6, <2>1, FlagsMayChange
<1>8. a.status = b.status /\ a.first = b.first
  BY <1>5, <1>6 DEF Answers
<1> QED
  BY <1>5, <1>6, <1>7, <1>8

\* No verdict yet, or none asked for.
LEMMA AskInvInit == Init => AskInv
<1> SUFFICES ASSUME Init PROVE AskInv
  OBVIOUS
<1>1. \/ answer = Plain /\ nlinks = 0 /\ verdict = "none"
      \/ answer \in SmallAnswers /\ nlinks \in 1 .. 2 /\ verdict = "asked"
  BY DEF Init, NoAnswer
<1>2. Plain \in SmallAnswers
  BY DEF SmallAnswers
<1>3. answer \in Answers /\ (answer.status \notin {200, 206} => answer.first = Malformed)
  BY <1>1, <1>2, SmallAreAnswers
<1> QED
  BY <1>1, <1>3 DEF AskInv

\* A verdict is given once, on the answer it stands beside.
LEMMA AskInvNext == AskInv /\ [Next]_vars => AskInv'
<1> SUFFICES ASSUME AskInv, [Next]_vars PROVE AskInv'
  OBVIOUS
<1>1. CASE UNCHANGED answerVars
  BY <1>1 DEF AskInv, answerVars
<1>2. CASE Ask
  BY <1>2 DEF AskInv, Ask
<1>3. CASE Lay \/ Call \/ AddRecord
  BY <1>1, <1>3 DEF Lay, Call, AddRecord, answerVars
<1> QED
  BY <1>1, <1>2, <1>3 DEF Next, vars, answerVars

\* How many bytes an answer holds.
LEMMA BytesCount ==
  ASSUME NEW a \in Answers
  PROVE  /\ a.status = 200 => Cardinality(Bytes(a)) = IF a.length > 0 THEN a.length ELSE 0
         /\ a.status # 200 /\ (a.first = Malformed \/ a.last = Malformed) => Cardinality(Bytes(a)) = 0
         /\ a.status # 200 /\ a.first # Malformed /\ a.last # Malformed =>
              Cardinality(Bytes(a)) = IF a.first > a.last THEN 0 ELSE a.last - a.first + 1
<1>1. CASE a.status = 200
  <2>1. PICK n \in Int : n = a.length - 1
    BY DecisionAssumption DEF Answers
  <2>2. Bytes(a) = 0 .. n
    BY <1>1, <2>1 DEF Bytes
  <2>3. Cardinality(0 .. n) = IF 0 > n THEN 0 ELSE n - 0 + 1
    BY FS_Interval
  <2>4. a.length \in Int
    BY DecisionAssumption DEF Answers
  <2> QED
    BY <1>1, <2>1, <2>2, <2>3, <2>4
<1>2. CASE a.status # 200 /\ (a.first = Malformed \/ a.last = Malformed)
  BY <1>2, FS_EmptySet DEF Bytes
<1>3. CASE a.status # 200 /\ a.first # Malformed /\ a.last # Malformed
  <2>1. PICK f \in Int, l \in Int : f = a.first /\ l = a.last
    BY <1>3, DecisionAssumption DEF Answers, Int64
  <2>2. Bytes(a) = f .. l
    BY <1>3, <2>1 DEF Bytes
  <2>3. Cardinality(f .. l) = IF f > l THEN 0 ELSE l - f + 1
    BY FS_Interval
  <2> QED
    BY <1>3, <2>1, <2>2, <2>3
<1> QED
  BY <1>1, <1>2, <1>3

\* A range that ends at an int64 has borders that are.
LEMMA BordersFit ==
  ASSUME NEW r, IsDecision(r), r.effEnd <= MaxInt, RangeSize(r) >= 2,
         NEW c \in 0 .. NumChunks(r) - 1
  PROVE  {c * ChunkSize(r), ChunkFirst(r, c), ChunkLast(r, c)} \subseteq Int64
<1>1. SplittableRange(r) /\ r.effStart \in Nat /\ r.effEnd \in Nat
  BY DEF IsDecision, SplittableRange
<1>2. PICK n \in Nat, z \in Nat, s \in Nat :
        n = NumChunks(r) /\ z = ChunkSize(r) /\ s = r.effStart
  BY <1>1, ChunksTile
<1>3. /\ c \in 0 .. n - 1 /\ ChunkFirst(r, c) \in Int /\ ChunkLast(r, c) \in Int
      /\ s <= ChunkFirst(r, c) /\ ChunkFirst(r, c) <= ChunkLast(r, c)
      /\ ChunkLast(r, c) <= r.effEnd
  BY <1>1, <1>2, ChunksTile, ChunksNonempty
<1>4. ChunkFirst(r, c) = s + c * z
  BY <1>2 DEF ChunkFirst
<1>5. c * z \in Nat
  BY <1>3
<1> QED
  BY <1>1, <1>2, <1>3, <1>4, <1>5, DecisionAssumption DEF Int64

\* An answer that is split holds the range the decision names.
LEMMA SplitIsSound ==
  ASSUME NEW a \in Answers, NEW n \in Nat, ShouldSplit(a, n)
  PROVE  LET r == DecisionOf(a) IN
         /\ IsDecision(r) /\ RangeSize(r) = Cardinality(Bytes(a))
         /\ RangeSize(r) >= Threshold
         /\ \A c \in 0 .. NumChunks(r) - 1 :
              {c * ChunkSize(r), ChunkFirst(r, c), ChunkLast(r, c)} \subseteq Int64
<1>1. PICK r : r = DecisionOf(a)
  OBVIOUS
<1>2. IsDecision(r) /\ r.effEnd <= MaxInt /\ RangeSize(r) >= Threshold
  BY <1>1, SplitsAreDecisions
<1>3. RangeSize(r) = Cardinality(Bytes(a))
  <2>1. CASE a.status = 200 /\ a.length > 0
    <3>1. a.length \in Int /\ Cardinality(Bytes(a)) = a.length
      BY <2>1, BytesCount, DecisionAssumption DEF Answers
    <3> QED
      BY <1>1, <2>1, <3>1 DEF DecisionOf, RangeSize
  <2>2. CASE a.status = 206 /\ Parses(a)
    <3>1. PICK f \in Int, l \in Int : f = a.first /\ l = a.last /\ f <= l
      BY <2>2, DecisionAssumption DEF Parses, Int64
    <3>2. a.first # Malformed /\ a.last # Malformed
      BY <2>2, DecisionAssumption DEF Parses
    <3>3. Cardinality(Bytes(a)) = l - f + 1
      BY <2>2, <3>1, <3>2, BytesCount
    <3> QED
      BY <1>1, <2>2, <3>1, <3>3 DEF DecisionOf, RangeSize
  <2> QED
    BY <2>1, <2>2 DEF ShouldSplit, Sized
<1>4. RangeSize(r) >= 2
  BY <1>2, DecisionAssumption DEF IsDecision, RangeSize
<1>5. \A c \in 0 .. NumChunks(r) - 1 :
        {c * ChunkSize(r), ChunkFirst(r, c), ChunkLast(r, c)} \subseteq Int64
  BY <1>2, <1>4, BordersFit
<1> QED
  BY <1>1, <1>2, <1>3, <1>5

\* An answer with enough bytes, links and proofs of range support is split.
LEMMA StreamHasCause ==
  ASSUME NEW a \in Answers, NEW n \in Nat,
         a.status \notin {200, 206} => a.first = Malformed,
         Cardinality(Bytes(a)) \in Threshold .. MaxInt,
         n >= 2, a.get, ~a.encoded, ~a.streaming,
         a.status = 200 => a.acceptsRanges,
         a.status = 206 => a.outOf \in 1 .. MaxInt
  PROVE  ShouldSplit(a, n)
<1>1. Threshold \in Nat /\ Threshold >= 2 /\ MaxInt \in Nat
  BY DecisionAssumption
<1>2. CASE a.status = 200
  <2>1. a.length \in Threshold .. MaxInt
    BY <1>1, <1>2, BytesCount DEF Answers
  <2>2. PICK r : r = DecisionOf(a)
    OBVIOUS
  <2>3. r.effStart = 0 /\ r.effEnd = a.length - 1
    BY <1>2, <2>2 DEF DecisionOf
  <2>4. CandidateSize(r) >= Threshold
    BY <1>1, <2>1, <2>3 DEF CandidateSize, Wrap
  <2>5. Sized(a)
    BY <1>1, <1>2, <2>1 DEF Sized
  <2> QED
    BY <1>2, <2>2, <2>4, <2>5 DEF ShouldSplit
<1>3. CASE a.status # 200
  <2>1. a.first # Malformed /\ a.last # Malformed
    BY <1>1, <1>3, BytesCount
  <2>2. a.status = 206
    BY <1>3, <2>1
  <2>3. PICK f \in 0 .. MaxInt, l \in Int64 : f = a.first /\ l = a.last
    BY <2>1 DEF Answers
  <2>4. f <= l /\ l - f + 1 \in Threshold .. MaxInt
    BY <1>1, <1>3, <2>1, <2>3, BytesCount DEF Int64
  <2>5. Parses(a)
    <3>1. a.first \in Int64 /\ a.last \in Int64 /\ a.last >= a.first
      BY <1>1, <2>3, <2>4 DEF Int64
    <3>2. a.outOf \in Int64
      BY <1>1, <2>2 DEF Int64
    <3> QED
      BY <3>1, <3>2 DEF Parses
  <2>6. Sized(a)
    BY <1>1, <2>2, <2>5, DecisionAssumption DEF Sized, Int64
  <2>7. PICK r : r = DecisionOf(a)
    OBVIOUS
  <2>8. r.effStart = f /\ r.effEnd = l
    BY <1>3, <2>3, <2>7 DEF DecisionOf
  <2>9. CandidateSize(r) >= Threshold
    BY <1>1, <2>3, <2>4, <2>8 DEF CandidateSize, Wrap, Int64
  <2> QED
    BY <1>3, <2>6, <2>7, <2>9 DEF ShouldSplit
<1> QED
  BY <1>2, <1>3

\* Whatever the widths, the threshold and the answer: shouldSplit
\* (rangesplit.go lines 67 to 128).
THEOREM DecisionsAreSound == Spec => []DecisionIsSound
<1>1. ASSUME AskInv PROVE DecisionIsSound
  <2>1. /\ answer \in Answers /\ nlinks \in Nat
        /\ answer.status \notin {200, 206} => answer.first = Malformed
    BY <1>1 DEF AskInv
  <2>2. CASE verdict = "split"
    <3>1. ShouldSplit(answer, nlinks) /\ verdict # "stream"
      BY <1>1, <2>2 DEF AskInv
    <3> QED
      BY <2>1, <3>1, SplitIsSound DEF DecisionIsSound
  <2>3. CASE verdict = "stream"
    <3>1. ~ShouldSplit(answer, nlinks) /\ verdict # "split"
      BY <1>1, <2>3 DEF AskInv
    <3> QED
      BY <2>1, <3>1, StreamHasCause DEF DecisionIsSound, Answers
  <2> QED
    BY <2>2, <2>3 DEF DecisionIsSound
<1> QED
  BY <1>1, AskInvInit, AskInvNext, PTL DEF Spec
=============================================================================
