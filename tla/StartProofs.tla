---------------------------- MODULE StartProofs ----------------------------
(***************************************************************************)
(* What the run `start` checks, for any accounts, starts, callers, names   *)
(* and numbers of values: a CA in use is a whole pair, and trusted, but    *)
(* for the causes named (CAStore); every caller of a lazily filled cache   *)
(* gets the same value for a name (LazyCache).                             *)
(***************************************************************************)
EXTENDS CAStore, LazyCache, TLAPS

Making == Writing \cup {"generate"}

Spots == Making \cup {"off", "look", "stat", "loadCert", "loadKey", "check", "install",
                      "elevate", "recheck", "run"}

StoreType ==
  /\ cert \in [Accounts -> Int] /\ key \in [Accounts -> Int]
  /\ trust \subseteq Nat \ {0} /\ owner \in Seq(Accounts)
  /\ at \in [Procs -> Spots]
  /\ job \in [Procs -> {"admin", "user", "setup", "install"}]
  /\ home \in [Procs -> Accounts] /\ acct \in [Procs -> Accounts]
  /\ mem \in [Procs -> [cert : Int, key : Int]]
  /\ armed \in [Procs -> BOOLEAN] /\ failed \in [Procs -> BOOLEAN]
  /\ crossed \subseteq Accounts /\ disturbed \subseteq Accounts

\* Where a start can be, by what it does: a child alone works in another
\* account's directory, only --install-cert looks before it loads, and a user's
\* start loads or makes a CA only after it found one installed.
InPlace(p) ==
  /\ at[p] = "look"    => job[p] = "install"
  /\ at[p] = "check"   => job[p] # "install"
  /\ at[p] = "elevate" => job[p] = "user"
  /\ at[p] = "recheck" => job[p] \in {"user", "setup"}
  /\ at[p] = "run"     => job[p] \in {"admin", "user"}
  /\ job[p] # "setup"  => acct[p] = home[p]
  /\ armed[p]  => at[p] = "run" /\ trust # {}
  /\ failed[p] => at[p] \in {"off", "run", "recheck"} /\ acct[p] \in disturbed
  /\ job[p] = "user" /\ at[p] \in Making \cup {"stat", "loadCert", "loadKey"} => trust # {}

\* A new CA is a pair, and the maker's own.
NewPair(p) ==
  at[p] \in Writing => /\ mem[p].cert = mem[p].key
                       /\ mem[p].cert \in 1 .. Len(owner)
                       /\ owner[mem[p].cert] = acct[p]

\* Where no two made one at once, the files are as the only maker left them.
MakerAlone(p) ==
  at[p] \in Making /\ acct[p] \notin crossed =>
    /\ \A q \in Procs : at[q] \in Making /\ acct[q] = acct[p] => q = p
    /\ at[p] \in {"generate", "cert"} => cert[acct[p]] = NoFile
    /\ at[p] = "fillCert"             => cert[acct[p]] = Torn
    /\ at[p] \in {"key", "fillKey"}   => cert[acct[p]] = mem[p].cert
    /\ key[acct[p]] = IF at[p] = "fillKey" THEN Torn ELSE NoFile

\* What a start keeps of the files: until the key is read, of the certificate;
\* from then on, of both.
Keeps(p) ==
  acct[p] \notin crossed =>
    /\ at[p] = "loadKey" /\ mem[p].cert > 0 => cert[acct[p]] = mem[p].cert
    /\ armed[p] \/ (at[p] \in {"check", "install"} /\ job[p] = "admin") =>
         mem[p].cert > 0 /\ mem[p].cert = cert[acct[p]] /\ mem[p].key = mem[p].cert

\* A loader of an account whose CA was made in peace finds all of it.
FindsAll(p) ==
  at[p] \in {"loadCert", "loadKey"} =>
    /\ Exists(acct[p])
    /\ acct[p] \notin disturbed =>
         /\ cert[acct[p]] > 0 /\ key[acct[p]] > 0
         /\ at[p] = "loadKey" => mem[p].cert > 0

Pairs(a) ==
  /\ cert[a] > 0 => cert[a] \in 1 .. Len(owner) /\ owner[cert[a]] = a
  /\ a \notin crossed => /\ key[a] # NoFile => cert[a] > 0
                         /\ key[a] > 0 => key[a] = cert[a]
  /\ a \notin disturbed /\ (\A p \in Procs : at[p] \in Making => acct[p] # a) =>
       (cert[a] = NoFile /\ key[a] = NoFile) \/ (cert[a] > 0 /\ key[a] > 0)

\* A trusted CA is the one in its owner's file.
TrustedIsKept ==
  \A n \in trust : /\ n \in 1 .. Len(owner)
                   /\ owner[n] \in crossed \/ cert[owner[n]] = n

StoreInv ==
  /\ StoreType /\ crossed \subseteq disturbed /\ TrustedIsKept
  /\ \A p \in Procs : InPlace(p) /\ NewPair(p) /\ MakerAlone(p) /\ Keeps(p) /\ FindsAll(p)
  /\ \A a \in Accounts : Pairs(a)

-----------------------------------------------------------------------------
\* Nobody has started yet.
LEMMA StoreInvInit == StoreInit => StoreInv
<1> SUFFICES ASSUME StoreInit PROVE StoreInv
  OBVIOUS
<1>1. StoreType /\ crossed \subseteq disturbed
  BY StoreAssumption DEF StoreInit, StoreType, Spots, NoFile, NoCA
<1>2. TrustedIsKept
  BY DEF StoreInit, TrustedIsKept
<1>3. ASSUME NEW p \in Procs
      PROVE  InPlace(p) /\ NewPair(p) /\ MakerAlone(p) /\ Keeps(p) /\ FindsAll(p)
  BY StoreAssumption DEF StoreInit, InPlace, NewPair, MakerAlone, Keeps, FindsAll, Making, Writing
<1>4. ASSUME NEW a \in Accounts PROVE Pairs(a)
  BY DEF StoreInit, Pairs, NoFile
<1> QED
  BY <1>1, <1>2, <1>3, <1>4 DEF StoreInv

\* A step of p that leaves the files, and puts nothing into the trust store but
\* what is in its file: what has to be looked at is where p stands after it.
LEMMA OneMoves ==
  ASSUME StoreInv, StoreType', NEW p \in Procs, UNCHANGED <<cert, key>>,
         trust \subseteq trust', \A n \in trust' \ trust : n > 0 /\ n = cert[acct[p]],
         Len(owner) <= Len(owner'), \A i \in 1 .. Len(owner) : owner'[i] = owner[i],
         crossed \subseteq crossed', disturbed \subseteq disturbed', crossed' \subseteq disturbed',
         \A q \in Procs \ {p} :
            /\ at'[q] = at[q] /\ job'[q] = job[q] /\ home'[q] = home[q] /\ acct'[q] = acct[q]
            /\ mem'[q] = mem[q] /\ armed'[q] = armed[q] /\ failed'[q] = failed[q],
         at[p] \in Writing /\ acct[p] \notin disturbed' =>
            at'[p] \in Making /\ acct'[p] = acct[p],
         InPlace(p)', NewPair(p)', MakerAlone(p)', Keeps(p)', FindsAll(p)'
  PROVE  StoreInv'
<1> Len(owner) \in Nat /\ Len(owner') \in Nat
  BY DEF StoreInv, StoreType
<1>1. TrustedIsKept'
  <2> SUFFICES ASSUME NEW n \in trust'
               PROVE  /\ n \in 1 .. Len(owner')
                      /\ owner'[n] \in crossed' \/ cert'[owner'[n]] = n
    BY DEF TrustedIsKept
  <2>1. n \in 1 .. Len(owner) /\ (owner[n] \in crossed \/ cert[owner[n]] = n)
    <3>1. CASE n \in trust
      BY <3>1 DEF StoreInv, TrustedIsKept
    <3>2. CASE n \notin trust
      <4>1. Pairs(acct[p]) /\ n = cert[acct[p]] /\ n > 0
        BY <3>2 DEF StoreInv, StoreType
      <4> QED
        BY <4>1 DEF Pairs
    <3> QED
      BY <3>1, <3>2
  <2>2. owner'[n] = owner[n]
    BY <2>1
  <2> QED
    BY <2>1, <2>2
<1>2. ASSUME NEW q \in Procs \ {p}
      PROVE  InPlace(q)' /\ NewPair(q)' /\ Keeps(q)' /\ FindsAll(q)'
  <2>1. InPlace(q) /\ NewPair(q) /\ Keeps(q) /\ FindsAll(q)
    BY DEF StoreInv
  <2>2. InPlace(q)'
    BY <2>1 DEF InPlace
  <2>3. NewPair(q)'
    <3> SUFFICES ASSUME at'[q] \in Writing
                 PROVE  (mem[q].cert = mem[q].key /\ mem[q].cert \in 1 .. Len(owner')
                         /\ owner'[mem[q].cert] = acct[q])
      BY DEF NewPair
    <3>1. mem[q].cert = mem[q].key /\ mem[q].cert \in 1 .. Len(owner)
          /\ owner[mem[q].cert] = acct[q]
      BY <2>1 DEF NewPair
    <3>2. owner'[mem[q].cert] = owner[mem[q].cert]
      BY <3>1
    <3> QED
      BY <3>1, <3>2
  <2>4. Keeps(q)'
    BY <2>1 DEF Keeps
  <2>5. FindsAll(q)'
    BY <2>1 DEF FindsAll, Exists
  <2> QED
    BY <2>2, <2>3, <2>4, <2>5
<1>3. ASSUME NEW q \in Procs \ {p} PROVE MakerAlone(q)'
  <2>1. MakerAlone(q)
    BY DEF StoreInv
  <2>2. acct'[q] \notin crossed' /\ at'[q] \in Making =>
          ~(at'[p] \in Making /\ acct'[p] = acct'[q])
    BY DEF MakerAlone
  <2> QED
    BY <2>1, <2>2 DEF MakerAlone
<1>4. ASSUME NEW a \in Accounts PROVE Pairs(a)'
  <2>1. Pairs(a) /\ MakerAlone(p)
    BY DEF StoreInv
  <2>2. cert'[a] > 0 => cert'[a] \in 1 .. Len(owner') /\ owner'[cert'[a]] = a
    <3>1. cert[a] > 0 => cert[a] \in 1 .. Len(owner) /\ owner[cert[a]] = a
      BY <2>1 DEF Pairs
    <3>2. cert[a] \in 1 .. Len(owner) => owner'[cert[a]] = owner[cert[a]]
      OBVIOUS
    <3> QED
      BY <3>1, <3>2
  <2>3. a \notin crossed' => /\ key'[a] # NoFile => cert'[a] > 0
                             /\ key'[a] > 0 => key'[a] = cert'[a]
    BY <2>1 DEF Pairs
  <2>4. ASSUME a \notin disturbed', \A q \in Procs : at'[q] \in Making => acct'[q] # a
        PROVE  (cert'[a] = NoFile /\ key'[a] = NoFile) \/ (cert'[a] > 0 /\ key'[a] > 0)
    <3>1. \A q \in Procs \ {p} : at[q] \in Making => acct[q] # a
      BY <2>4
    <3>2. CASE at[p] \in Making => acct[p] # a
      BY <3>1, <3>2, <2>1, <2>4 DEF Pairs
    <3>3. CASE at[p] \in Making /\ acct[p] = a
      <4>1. at[p] = "generate"
        BY <3>3, <2>4 DEF Making
      <4>2. a \notin crossed
        BY <2>4
      <4> QED
        BY <4>1, <4>2, <3>3, <2>1 DEF MakerAlone
    <3> QED
      BY <3>2, <3>3
  <2> QED
    BY <2>2, <2>3, <2>4 DEF Pairs
<1> QED
  BY <1>1, <1>2, <1>3, <1>4 DEF StoreInv

\* An empty memory.
LEMMA NoCAType == NoCA \in [cert : Int, key : Int]
BY DEF NoCA, NoFile

\* A start begins with nothing in memory (main.go lines 105 to 220).
LEMMA StartKeeps == ASSUME StoreInv, NEW p \in Procs, Start(p) PROVE StoreInv'
<1> InPlace(p) /\ NewPair(p) /\ MakerAlone(p) /\ Keeps(p) /\ FindsAll(p) /\ StoreType
  BY DEF StoreInv
<1> USE DEF Goes, files
<1>1. StoreType'
  BY NoCAType, SMTT(30) DEF Start, StoreType, Spots, Making, Writing, InPlace
<1>2. UNCHANGED <<cert, key>>
      /\ trust \subseteq trust' /\ (\A n \in trust' \ trust : n > 0 /\ n = cert[acct[p]])
      /\ Len(owner) <= Len(owner') /\ (\A i \in 1 .. Len(owner) : owner'[i] = owner[i])
      /\ crossed \subseteq crossed' /\ disturbed \subseteq disturbed' /\ crossed' \subseteq disturbed'
  BY DEF Start, StoreInv
<1>3. \A q \in Procs \ {p} :
         /\ at'[q] = at[q] /\ job'[q] = job[q] /\ home'[q] = home[q] /\ acct'[q] = acct[q]
         /\ mem'[q] = mem[q] /\ armed'[q] = armed[q] /\ failed'[q] = failed[q]
  BY DEF Start
<1>4. at[p] \in Writing /\ acct[p] \notin disturbed' => at'[p] \in Making /\ acct'[p] = acct[p]
  BY DEF Start, Writing
<1>5. InPlace(p)'
  BY DEF Start, StoreType, InPlace, Making, Writing
<1>6. NewPair(p)'
  BY DEF Start, NewPair, Writing
<1>7. MakerAlone(p)'
  BY <1>3 DEF Start, MakerAlone, Making, Writing
<1>8. Keeps(p)'
  BY DEF Start, StoreType, Keeps
<1>9. FindsAll(p)'
  BY DEF Start, FindsAll
<1> QED
  BY <1>1, <1>2, <1>3, <1>4, <1>5, <1>6, <1>7, <1>8, <1>9, OneMoves

\* InstallCA looks for the certificate and leaves the rest to others
\* (ca_windows.go line 19).
LEMMA StatFirstKeeps == ASSUME StoreInv, NEW p \in Procs, StatFirst(p) PROVE StoreInv'
<1> InPlace(p) /\ NewPair(p) /\ MakerAlone(p) /\ Keeps(p) /\ FindsAll(p) /\ StoreType
  BY DEF StoreInv
<1> USE DEF Goes, files
<1>1. StoreType'
  BY NoCAType DEF StatFirst, StoreType, Spots, Making
<1>2. UNCHANGED <<cert, key>>
      /\ trust \subseteq trust' /\ (\A n \in trust' \ trust : n > 0 /\ n = cert[acct[p]])
      /\ Len(owner) <= Len(owner') /\ (\A i \in 1 .. Len(owner) : owner'[i] = owner[i])
      /\ crossed \subseteq crossed' /\ disturbed \subseteq disturbed' /\ crossed' \subseteq disturbed'
  BY DEF StatFirst, StoreInv
<1>3. \A q \in Procs \ {p} :
         /\ at'[q] = at[q] /\ job'[q] = job[q] /\ home'[q] = home[q] /\ acct'[q] = acct[q]
         /\ mem'[q] = mem[q] /\ armed'[q] = armed[q] /\ failed'[q] = failed[q]
  BY DEF StatFirst
<1>4. at[p] \in Writing /\ acct[p] \notin disturbed' => at'[p] \in Making /\ acct'[p] = acct[p]
  BY DEF StatFirst, Writing
<1>5. InPlace(p)'
  BY DEF StatFirst, StoreType, InPlace, Making, Writing
<1>6. NewPair(p)'
  BY DEF StatFirst, NewPair, Writing
<1>7. MakerAlone(p)'
  BY DEF StatFirst, MakerAlone, Making, Writing
<1>8. Keeps(p)'
  BY DEF StatFirst, StoreType, InPlace, Keeps
<1>9. FindsAll(p)'
  BY DEF StatFirst, FindsAll
<1> QED
  BY <1>1, <1>2, <1>3, <1>4, <1>5, <1>6, <1>7, <1>8, <1>9, OneMoves

\* Who finds no certificate makes one, alone or in a crossing; who finds one
\* while it is made disturbs it (ca.go lines 51 and 178).
LEMMA StatKeeps == ASSUME StoreInv, NEW p \in Procs, Stat(p) PROVE StoreInv'
<1> InPlace(p) /\ NewPair(p) /\ MakerAlone(p) /\ Keeps(p) /\ FindsAll(p) /\ StoreType
  BY DEF StoreInv
<1> USE DEF Goes, files
<1>1. StoreType'
  BY NoCAType DEF Stat, StoreType, Spots, Making
<1>2. UNCHANGED <<cert, key>>
      /\ trust \subseteq trust' /\ (\A n \in trust' \ trust : n > 0 /\ n = cert[acct[p]])
      /\ Len(owner) <= Len(owner') /\ (\A i \in 1 .. Len(owner) : owner'[i] = owner[i])
      /\ crossed \subseteq crossed' /\ disturbed \subseteq disturbed' /\ crossed' \subseteq disturbed'
  BY DEF Stat, StoreInv
<1>3. \A q \in Procs \ {p} :
         /\ at'[q] = at[q] /\ job'[q] = job[q] /\ home'[q] = home[q] /\ acct'[q] = acct[q]
         /\ mem'[q] = mem[q] /\ armed'[q] = armed[q] /\ failed'[q] = failed[q]
  BY DEF Stat
<1>4. at[p] \in Writing /\ acct[p] \notin disturbed' => at'[p] \in Making /\ acct'[p] = acct[p]
  BY DEF Stat, Writing
<1>5. InPlace(p)'
  BY DEF Stat, InPlace
<1>6. NewPair(p)'
  BY DEF Stat, NewPair, Writing
<1>7. MakerAlone(p)'
  <2>1. at'[p] \in Making /\ acct'[p] \notin crossed' =>
          ~Exists(acct[p]) /\ ~OthersMaking(p) /\ at'[p] = "generate"
    BY DEF Stat, Making, Writing
  <2>2. Pairs(acct[p])
    BY DEF StoreInv, StoreType
  <2> QED
    BY <1>2, <1>3, <2>1, <2>2 DEF MakerAlone, OthersMaking, Exists, Pairs, Making, NoFile, Stat
<1>8. Keeps(p)'
  BY DEF Stat, Keeps
<1>9. FindsAll(p)'
  <2>1. at'[p] \in {"loadCert", "loadKey"} => at'[p] = "loadCert" /\ Exists(acct[p]) /\ acct'[p] = acct[p]
    BY DEF Stat
  <2>2. acct[p] \notin disturbed' => \A q \in Procs : at[q] \in Making => acct[q] # acct[p]
    BY DEF Stat, OthersMaking, Making, Writing
  <2>3. Pairs(acct[p])
    BY DEF StoreInv, StoreType
  <2> QED
    BY <1>2, <2>1, <2>2, <2>3 DEF FindsAll, Pairs, Exists
<1> QED
  BY <1>1, <1>2, <1>3, <1>4, <1>5, <1>6, <1>7, <1>8, <1>9, OneMoves

\* The certificate is read first (ca.go line 63).
LEMMA LoadCertKeeps == ASSUME StoreInv, NEW p \in Procs, LoadCert(p) PROVE StoreInv'
<1> InPlace(p) /\ NewPair(p) /\ MakerAlone(p) /\ Keeps(p) /\ FindsAll(p) /\ StoreType
  BY DEF StoreInv
<1> USE DEF Goes, files
<1>1. StoreType'
  BY NoCAType DEF LoadCert, StoreType, Spots
<1>2. UNCHANGED <<cert, key>>
      /\ trust \subseteq trust' /\ (\A n \in trust' \ trust : n > 0 /\ n = cert[acct[p]])
      /\ Len(owner) <= Len(owner') /\ (\A i \in 1 .. Len(owner) : owner'[i] = owner[i])
      /\ crossed \subseteq crossed' /\ disturbed \subseteq disturbed' /\ crossed' \subseteq disturbed'
  BY DEF LoadCert, StoreInv
<1>3. \A q \in Procs \ {p} :
         /\ at'[q] = at[q] /\ job'[q] = job[q] /\ home'[q] = home[q] /\ acct'[q] = acct[q]
         /\ mem'[q] = mem[q] /\ armed'[q] = armed[q] /\ failed'[q] = failed[q]
  BY DEF LoadCert
<1>4. at[p] \in Writing /\ acct[p] \notin disturbed' => at'[p] \in Making /\ acct'[p] = acct[p]
  BY DEF LoadCert, Writing
<1>5. InPlace(p)'
  BY DEF LoadCert, InPlace
<1>6. NewPair(p)'
  BY DEF LoadCert, NewPair, Writing
<1>7. MakerAlone(p)'
  BY <1>3 DEF LoadCert, MakerAlone, Making, Writing
<1>8. Keeps(p)'
  BY DEF LoadCert, StoreType, Keeps
<1>9. FindsAll(p)'
  BY DEF LoadCert, StoreType, FindsAll, Exists
<1> QED
  BY <1>1, <1>2, <1>3, <1>4, <1>5, <1>6, <1>7, <1>8, <1>9, OneMoves

\* A load gives a pair or fails, and fails only for a cause (ca.go lines 62 to 88).
LEMMA LoadKeyKeeps == ASSUME StoreInv, NEW p \in Procs, LoadKey(p) PROVE StoreInv'
<1> InPlace(p) /\ NewPair(p) /\ MakerAlone(p) /\ Keeps(p) /\ FindsAll(p) /\ StoreType
  BY DEF StoreInv
<1> USE DEF Goes, files
<1>1. StoreType'
  <2>1. CASE Usable(p)
    <3>1. AfterLoad(p) \in Spots
      BY DEF AfterLoad, Spots
    <3>2. mem' \in [Procs -> [cert : Int, key : Int]]
      <4>1. key[acct[p]] \in Int
        BY DEF StoreType
      <4>2. mem' = [mem EXCEPT ![p].key = key[acct[p]]]
        BY <2>1 DEF LoadKey
      <4> QED
        BY <4>1, <4>2 DEF StoreType
    <3> QED
      BY <2>1, <3>1, <3>2, ZenonT(40) DEF LoadKey, Loaded, Arm, StoreType
  <2>2. CASE ~Usable(p)
    <3>1. AfterError(p) \in Spots
      BY DEF AfterError, Spots
    <3> QED
      BY <2>2, <3>1, NoCAType, ZenonT(40) DEF LoadKey, StoreType
  <2> QED
    BY <2>1, <2>2
<1>2. UNCHANGED <<cert, key>>
      /\ trust \subseteq trust' /\ (\A n \in trust' \ trust : n > 0 /\ n = cert[acct[p]])
      /\ Len(owner) <= Len(owner') /\ (\A i \in 1 .. Len(owner) : owner'[i] = owner[i])
      /\ crossed \subseteq crossed' /\ disturbed \subseteq disturbed' /\ crossed' \subseteq disturbed'
  BY DEF LoadKey, StoreInv
<1>3. \A q \in Procs \ {p} :
         /\ at'[q] = at[q] /\ job'[q] = job[q] /\ home'[q] = home[q] /\ acct'[q] = acct[q]
         /\ mem'[q] = mem[q] /\ armed'[q] = armed[q] /\ failed'[q] = failed[q]
  BY DEF LoadKey, Loaded, Arm, StoreType
<1>4. at[p] \in Writing /\ acct[p] \notin disturbed' => at'[p] \in Making /\ acct'[p] = acct[p]
  BY DEF LoadKey, Writing
<1>5. InPlace(p)'
  <2>1. CASE Usable(p)
    BY <2>1 DEF LoadKey, Loaded, AfterLoad, StoreType, InPlace
  <2>2. CASE ~Usable(p)
    <3>1. acct[p] \in disturbed
      BY <2>2 DEF LoadKey, Usable, FindsAll
    <3> QED
      BY <2>2, <3>1 DEF LoadKey, AfterError, StoreType, InPlace
  <2> QED
    BY <2>1, <2>2
<1>6. NewPair(p)'
  BY DEF LoadKey, Loaded, AfterLoad, AfterError, StoreType, NewPair, Writing
<1>7. MakerAlone(p)'
  BY <1>3 DEF LoadKey, Loaded, AfterLoad, AfterError, StoreType, MakerAlone, Making, Writing
<1>8. Keeps(p)'
  <2>1. CASE Usable(p)
    <3>1. acct[p] \notin crossed => cert[acct[p]] = mem[p].cert /\ key[acct[p]] = cert[acct[p]]
      BY <2>1 DEF LoadKey, Usable, Keeps, StoreInv, StoreType, Pairs
    <3>2. mem' = [mem EXCEPT ![p].key = key[acct[p]]]
      BY <2>1 DEF LoadKey
    <3>3. mem'[p].cert = mem[p].cert /\ mem'[p].key = key[acct[p]]
      BY <3>2 DEF StoreType
    <3>4. at'[p] # "loadKey" /\ acct' = acct /\ cert' = cert /\ crossed' = crossed
      BY <2>1 DEF LoadKey, Loaded, AfterLoad, StoreType
    <3> QED
      BY <2>1, <3>1, <3>3, <3>4 DEF Usable, Keeps
  <2>2. CASE ~Usable(p)
    BY <2>2 DEF LoadKey, AfterError, StoreType, Keeps, InPlace
  <2> QED
    BY <2>1, <2>2
<1>9. FindsAll(p)'
  BY DEF LoadKey, Loaded, AfterLoad, AfterError, StoreType, FindsAll
<1> QED
  BY <1>1, <1>2, <1>3, <1>4, <1>5, <1>6, <1>7, <1>8, <1>9, OneMoves

\* A new pair is the maker's own (ca.go lines 90 to 122).
LEMMA GenerateKeeps == ASSUME StoreInv, NEW p \in Procs, Generate(p) PROVE StoreInv'
<1> InPlace(p) /\ NewPair(p) /\ MakerAlone(p) /\ Keeps(p) /\ FindsAll(p) /\ StoreType
  BY DEF StoreInv
<1> USE DEF Goes, files
<1>1. StoreType'
  BY NoCAType DEF Generate, StoreType, Spots, Making, Writing
<1>2. UNCHANGED <<cert, key>>
      /\ trust \subseteq trust' /\ (\A n \in trust' \ trust : n > 0 /\ n = cert[acct[p]])
      /\ Len(owner) <= Len(owner') /\ (\A i \in 1 .. Len(owner) : owner'[i] = owner[i])
      /\ crossed \subseteq crossed' /\ disturbed \subseteq disturbed' /\ crossed' \subseteq disturbed'
  BY DEF Generate, StoreInv
<1>3. \A q \in Procs \ {p} :
         /\ at'[q] = at[q] /\ job'[q] = job[q] /\ home'[q] = home[q] /\ acct'[q] = acct[q]
         /\ mem'[q] = mem[q] /\ armed'[q] = armed[q] /\ failed'[q] = failed[q]
  BY DEF Generate
<1>4. at[p] \in Writing /\ acct[p] \notin disturbed' => at'[p] \in Making /\ acct'[p] = acct[p]
  BY DEF Generate, Writing
<1>5. InPlace(p)'
  BY DEF Generate, InPlace, Making
<1>6. NewPair(p)'
  BY DEF Generate, StoreType, NewPair
<1>7. MakerAlone(p)'
  BY <1>3 DEF Generate, MakerAlone, Making
<1>8. Keeps(p)'
  BY DEF Generate, Keeps, InPlace
<1>9. FindsAll(p)'
  BY DEF Generate, FindsAll
<1> QED
  BY <1>1, <1>2, <1>3, <1>4, <1>5, <1>6, <1>7, <1>8, <1>9, OneMoves

\* A failed write leaves an account that is disturbed (ca.go lines 124 and 127).
LEMMA WriteFailsKeeps == ASSUME StoreInv, NEW p \in Procs, WriteFails(p) PROVE StoreInv'
<1> InPlace(p) /\ NewPair(p) /\ MakerAlone(p) /\ Keeps(p) /\ FindsAll(p) /\ StoreType
  BY DEF StoreInv
<1> USE DEF Goes, files
<1>1. StoreType'
  BY NoCAType DEF WriteFails, AfterError, StoreType, Spots
<1>2. UNCHANGED <<cert, key>>
      /\ trust \subseteq trust' /\ (\A n \in trust' \ trust : n > 0 /\ n = cert[acct[p]])
      /\ Len(owner) <= Len(owner') /\ (\A i \in 1 .. Len(owner) : owner'[i] = owner[i])
      /\ crossed \subseteq crossed' /\ disturbed \subseteq disturbed' /\ crossed' \subseteq disturbed'
  BY DEF WriteFails, StoreInv
<1>3. \A q \in Procs \ {p} :
         /\ at'[q] = at[q] /\ job'[q] = job[q] /\ home'[q] = home[q] /\ acct'[q] = acct[q]
         /\ mem'[q] = mem[q] /\ armed'[q] = armed[q] /\ failed'[q] = failed[q]
  BY DEF WriteFails
<1>4. at[p] \in Writing /\ acct[p] \notin disturbed' => at'[p] \in Making /\ acct'[p] = acct[p]
  BY DEF WriteFails
<1>5. InPlace(p)'
  BY DEF WriteFails, AfterError, InPlace, Making, Writing
<1>6. NewPair(p)'
  BY DEF WriteFails, AfterError, StoreType, NewPair, Writing
<1>7. MakerAlone(p)'
  BY <1>3 DEF WriteFails, AfterError, StoreType, MakerAlone, Making, Writing
<1>8. Keeps(p)'
  BY DEF WriteFails, AfterError, Keeps, InPlace, Writing
<1>9. FindsAll(p)'
  BY DEF WriteFails, AfterError, FindsAll, Writing
<1> QED
  BY <1>1, <1>2, <1>3, <1>4, <1>5, <1>6, <1>7, <1>8, <1>9, OneMoves

\* isCAInstalled is asked after a load, or before it by a user's start
\* (main.go lines 154, 171 and 191).
LEMMA CheckKeeps == ASSUME StoreInv, NEW p \in Procs, Check(p) PROVE StoreInv'
<1> InPlace(p) /\ NewPair(p) /\ MakerAlone(p) /\ Keeps(p) /\ FindsAll(p) /\ StoreType
  BY DEF StoreInv
<1> USE DEF Goes, files
<1>0. /\ at'[p] \in {"elevate", "install", "run", "recheck", "stat"}
      /\ at'[p] = "elevate" => job[p] = "user"
      /\ at'[p] = "recheck" => job[p] = "setup"
      /\ at'[p] = "run" => job[p] = "admin"
      /\ at'[p] = "stat" => trust # {}
      /\ armed'[p] => armed[p] \/ (at'[p] = "run" /\ trust # {})
      /\ at[p] = "check" /\ job' = job /\ acct' = acct /\ home' = home /\ failed' = failed
      /\ UNCHANGED <<trust, disturbed>>
  <2>1. at[p] = "check" /\ job[p] \in {"admin", "user", "setup"}
    BY DEF Check, InPlace, StoreType
  <2>2. CASE Installed
    <3>1. at'[p] = CASE job[p] = "admin" -> "run" [] job[p] = "setup" -> "recheck"
                     [] job[p] = "user" -> "stat"
      BY <2>1, <2>2 DEF Check, StoreType
    <3> QED
      BY <2>1, <2>2, <3>1 DEF Check, Installed
  <2>3. CASE ~Installed
    <3>1. at'[p] = IF job[p] = "user" THEN "elevate" ELSE "install"
      BY <2>1, <2>3 DEF Check, StoreType
    <3> QED
      BY <2>1, <2>3, <3>1 DEF Check
  <2> QED
    BY <2>2, <2>3
<1>1. StoreType'
  BY NoCAType DEF Check, Arm, StoreType, Spots, InPlace
<1>2. UNCHANGED <<cert, key>>
      /\ trust \subseteq trust' /\ (\A n \in trust' \ trust : n > 0 /\ n = cert[acct[p]])
      /\ Len(owner) <= Len(owner') /\ (\A i \in 1 .. Len(owner) : owner'[i] = owner[i])
      /\ crossed \subseteq crossed' /\ disturbed \subseteq disturbed' /\ crossed' \subseteq disturbed'
  BY DEF Check, StoreInv
<1>3. \A q \in Procs \ {p} :
         /\ at'[q] = at[q] /\ job'[q] = job[q] /\ home'[q] = home[q] /\ acct'[q] = acct[q]
         /\ mem'[q] = mem[q] /\ armed'[q] = armed[q] /\ failed'[q] = failed[q]
  BY DEF Check, Arm, StoreType
<1>4. at[p] \in Writing /\ acct[p] \notin disturbed' => at'[p] \in Making /\ acct'[p] = acct[p]
  BY DEF Check, Writing
<1>5. InPlace(p)'
  BY <1>0 DEF InPlace, Making, Writing
<1>6. NewPair(p)'
  BY <1>0 DEF NewPair, Writing
<1>7. MakerAlone(p)'
  BY <1>0 DEF MakerAlone, Making, Writing
<1>8. Keeps(p)'
  BY DEF Check, StoreType, Keeps, InPlace
<1>9. FindsAll(p)'
  BY <1>0 DEF FindsAll
<1> QED
  BY <1>1, <1>2, <1>3, <1>4, <1>5, <1>6, <1>7, <1>8, <1>9, OneMoves

\* What the trust store gets is what is in the file (ca_other.go, ca_windows.go).
LEMMA InstallKeeps == ASSUME StoreInv, NEW p \in Procs, Install(p) PROVE StoreInv'
<1> InPlace(p) /\ NewPair(p) /\ MakerAlone(p) /\ Keeps(p) /\ FindsAll(p) /\ StoreType
  BY DEF StoreInv
<1> USE DEF Goes, files
<1>1. StoreType'
  <2>1. at' \in [Procs -> Spots] /\ armed' \in [Procs -> BOOLEAN]
    BY DEF Install, Arm, StoreType, Spots
  <2>2. trust' \subseteq Nat \ {0}
    BY DEF Install, StoreType
  <2> QED
    BY <2>1, <2>2 DEF Install, StoreType
<1>2. UNCHANGED <<cert, key>>
      /\ trust \subseteq trust' /\ (\A n \in trust' \ trust : n > 0 /\ n = cert[acct[p]])
      /\ Len(owner) <= Len(owner') /\ (\A i \in 1 .. Len(owner) : owner'[i] = owner[i])
      /\ crossed \subseteq crossed' /\ disturbed \subseteq disturbed' /\ crossed' \subseteq disturbed'
  BY DEF Install, StoreInv
<1>3. \A q \in Procs \ {p} :
         /\ at'[q] = at[q] /\ job'[q] = job[q] /\ home'[q] = home[q] /\ acct'[q] = acct[q]
         /\ mem'[q] = mem[q] /\ armed'[q] = armed[q] /\ failed'[q] = failed[q]
  BY DEF Install, Arm, StoreType
<1>4. at[p] \in Writing /\ acct[p] \notin disturbed' => at'[p] \in Making /\ acct'[p] = acct[p]
  BY DEF Install, Writing
<1>5. InPlace(p)'
  BY DEF Install, StoreType, InPlace
<1>6. NewPair(p)'
  BY DEF Install, NewPair, Writing
<1>7. MakerAlone(p)'
  BY <1>3 DEF Install, MakerAlone, Making, Writing
<1>8. Keeps(p)'
  BY DEF Install, Keeps
<1>9. FindsAll(p)'
  BY DEF Install, FindsAll
<1> QED
  BY <1>1, <1>2, <1>3, <1>4, <1>5, <1>6, <1>7, <1>8, <1>9, OneMoves

\* A failed install leaves the store as it was (main.go line 155).
LEMMA InstallFailsKeeps == ASSUME StoreInv, NEW p \in Procs, InstallFails(p) PROVE StoreInv'
<1> InPlace(p) /\ NewPair(p) /\ MakerAlone(p) /\ Keeps(p) /\ FindsAll(p) /\ StoreType
  BY DEF StoreInv
<1> USE DEF Goes, files
<1>1. StoreType'
  BY NoCAType DEF InstallFails, StoreType, Spots
<1>2. UNCHANGED <<cert, key>>
      /\ trust \subseteq trust' /\ (\A n \in trust' \ trust : n > 0 /\ n = cert[acct[p]])
      /\ Len(owner) <= Len(owner') /\ (\A i \in 1 .. Len(owner) : owner'[i] = owner[i])
      /\ crossed \subseteq crossed' /\ disturbed \subseteq disturbed' /\ crossed' \subseteq disturbed'
  BY DEF InstallFails, StoreInv
<1>3. \A q \in Procs \ {p} :
         /\ at'[q] = at[q] /\ job'[q] = job[q] /\ home'[q] = home[q] /\ acct'[q] = acct[q]
         /\ mem'[q] = mem[q] /\ armed'[q] = armed[q] /\ failed'[q] = failed[q]
  BY DEF InstallFails
<1>4. at[p] \in Writing /\ acct[p] \notin disturbed' => at'[p] \in Making /\ acct'[p] = acct[p]
  BY DEF InstallFails, Writing
<1>5. InPlace(p)'
  BY DEF InstallFails, InPlace, Making, Writing
<1>6. NewPair(p)'
  BY DEF InstallFails, NewPair, Writing
<1>7. MakerAlone(p)'
  BY <1>3 DEF InstallFails, MakerAlone, Making, Writing
<1>8. Keeps(p)'
  BY DEF InstallFails, Keeps
<1>9. FindsAll(p)'
  BY DEF InstallFails, FindsAll
<1> QED
  BY <1>1, <1>2, <1>3, <1>4, <1>5, <1>6, <1>7, <1>8, <1>9, OneMoves

\* A child may work for another account (main.go line 181).
LEMMA ElevateKeeps == ASSUME StoreInv, NEW p \in Procs, Elevate(p) PROVE StoreInv'
<1> InPlace(p) /\ NewPair(p) /\ MakerAlone(p) /\ Keeps(p) /\ FindsAll(p) /\ StoreType
  BY DEF StoreInv
<1> USE DEF Goes, files
<1>1. StoreType'
  <2>1. at' \in [Procs -> Spots] /\ job' \in [Procs -> {"admin", "user", "setup", "install"}]
    BY DEF Elevate, StoreType, Spots
  <2>2. acct' \in [Procs -> Accounts]
    BY DEF Elevate, StoreType
  <2> QED
    BY <2>1, <2>2 DEF Elevate, StoreType
<1>2. UNCHANGED <<cert, key>>
      /\ trust \subseteq trust' /\ (\A n \in trust' \ trust : n > 0 /\ n = cert[acct[p]])
      /\ Len(owner) <= Len(owner') /\ (\A i \in 1 .. Len(owner) : owner'[i] = owner[i])
      /\ crossed \subseteq crossed' /\ disturbed \subseteq disturbed' /\ crossed' \subseteq disturbed'
  BY DEF Elevate, StoreInv
<1>3. \A q \in Procs \ {p} :
         /\ at'[q] = at[q] /\ job'[q] = job[q] /\ home'[q] = home[q] /\ acct'[q] = acct[q]
         /\ mem'[q] = mem[q] /\ armed'[q] = armed[q] /\ failed'[q] = failed[q]
  BY DEF Elevate, StoreType
<1>4. at[p] \in Writing /\ acct[p] \notin disturbed' => at'[p] \in Making /\ acct'[p] = acct[p]
  BY DEF Elevate, Writing
<1>5. InPlace(p)'
  BY DEF Elevate, StoreType, InPlace, Making, Writing
<1>6. NewPair(p)'
  BY DEF Elevate, StoreType, NewPair, Writing
<1>7. MakerAlone(p)'
  BY <1>3 DEF Elevate, StoreType, MakerAlone, Making, Writing
<1>8. Keeps(p)'
  BY DEF Elevate, StoreType, Keeps, InPlace
<1>9. FindsAll(p)'
  BY DEF Elevate, StoreType, FindsAll
<1> QED
  BY <1>1, <1>2, <1>3, <1>4, <1>5, <1>6, <1>7, <1>8, <1>9, OneMoves

\* The parent starts over with its own account (main.go line 191).
LEMMA RecheckKeeps == ASSUME StoreInv, NEW p \in Procs, Recheck(p) PROVE StoreInv'
<1> InPlace(p) /\ NewPair(p) /\ MakerAlone(p) /\ Keeps(p) /\ FindsAll(p) /\ StoreType
  BY DEF StoreInv
<1> USE DEF Goes, files
<1>1. StoreType'
  BY NoCAType DEF Recheck, StoreType, Spots
<1>2. UNCHANGED <<cert, key>>
      /\ trust \subseteq trust' /\ (\A n \in trust' \ trust : n > 0 /\ n = cert[acct[p]])
      /\ Len(owner) <= Len(owner') /\ (\A i \in 1 .. Len(owner) : owner'[i] = owner[i])
      /\ crossed \subseteq crossed' /\ disturbed \subseteq disturbed' /\ crossed' \subseteq disturbed'
  BY DEF Recheck, StoreInv
<1>3. \A q \in Procs \ {p} :
         /\ at'[q] = at[q] /\ job'[q] = job[q] /\ home'[q] = home[q] /\ acct'[q] = acct[q]
         /\ mem'[q] = mem[q] /\ armed'[q] = armed[q] /\ failed'[q] = failed[q]
  BY DEF Recheck
<1>4. at[p] \in Writing /\ acct[p] \notin disturbed' => at'[p] \in Making /\ acct'[p] = acct[p]
  BY DEF Recheck, Writing
<1>5. InPlace(p)'
  BY DEF Recheck, Installed, StoreType, InPlace, Making, Writing
<1>6. NewPair(p)'
  BY DEF Recheck, NewPair, Writing
<1>7. MakerAlone(p)'
  BY <1>3 DEF Recheck, MakerAlone, Making, Writing
<1>8. Keeps(p)'
  BY DEF Recheck, Keeps, InPlace
<1>9. FindsAll(p)'
  BY DEF Recheck, FindsAll
<1> QED
  BY <1>1, <1>2, <1>3, <1>4, <1>5, <1>6, <1>7, <1>8, <1>9, OneMoves

\* Who ends while it writes leaves an account that is disturbed.
LEMMA EndKeeps == ASSUME StoreInv, NEW p \in Procs, End(p) PROVE StoreInv'
<1> InPlace(p) /\ NewPair(p) /\ MakerAlone(p) /\ Keeps(p) /\ FindsAll(p) /\ StoreType
  BY DEF StoreInv
<1> USE DEF Goes, files
<1>1. StoreType'
  <2>1. at' \in [Procs -> Spots]
    BY DEF End, StoreType, Spots
  <2>2. disturbed' \subseteq Accounts
    BY DEF End, StoreType
  <2> QED
    BY <2>1, <2>2, NoCAType DEF End, StoreType
<1>2. UNCHANGED <<cert, key>>
      /\ trust \subseteq trust' /\ (\A n \in trust' \ trust : n > 0 /\ n = cert[acct[p]])
      /\ Len(owner) <= Len(owner') /\ (\A i \in 1 .. Len(owner) : owner'[i] = owner[i])
      /\ crossed \subseteq crossed' /\ disturbed \subseteq disturbed' /\ crossed' \subseteq disturbed'
  BY DEF End, StoreInv
<1>3. \A q \in Procs \ {p} :
         /\ at'[q] = at[q] /\ job'[q] = job[q] /\ home'[q] = home[q] /\ acct'[q] = acct[q]
         /\ mem'[q] = mem[q] /\ armed'[q] = armed[q] /\ failed'[q] = failed[q]
  BY DEF End, StoreType
<1>4. at[p] \in Writing /\ acct[p] \notin disturbed' => at'[p] \in Making /\ acct'[p] = acct[p]
  BY DEF End
<1>5. InPlace(p)'
  BY DEF End, StoreType, InPlace, Making, Writing
<1>6. NewPair(p)'
  BY DEF End, StoreType, NewPair, Writing
<1>7. MakerAlone(p)'
  BY <1>3 DEF End, StoreType, MakerAlone, Making, Writing
<1>8. Keeps(p)'
  BY DEF End, StoreType, Keeps
<1>9. FindsAll(p)'
  BY DEF End, StoreType, FindsAll
<1> QED
  BY <1>1, <1>2, <1>3, <1>4, <1>5, <1>6, <1>7, <1>8, <1>9, OneMoves

\* The only maker takes an account's files from nothing to a whole pair, and
\* nobody holds what it replaces (ca.go lines 124 and 127).
LEMMA WriteFileKeeps == ASSUME StoreInv, NEW p \in Procs, WriteFile(p) PROVE StoreInv'
<1> DEFINE a == acct[p]
<1> /\ InPlace(p) /\ NewPair(p) /\ MakerAlone(p) /\ StoreType /\ Pairs(a)
    /\ a \in Accounts /\ Len(owner) \in Nat
  BY DEF StoreInv, StoreType
<1>1. /\ at[p] \in Writing
      /\ UNCHANGED <<trust, owner, job, home, acct, mem, failed, crossed, disturbed>>
      /\ \A b \in Accounts \ {a} : cert'[b] = cert[b] /\ key'[b] = key[b]
      /\ \A q \in Procs \ {p} : at'[q] = at[q] /\ armed'[q] = armed[q]
  BY DEF WriteFile, Goes, Loaded, Arm, Writing, StoreType
<1>2. \/ /\ at[p] = "cert" /\ at'[p] = "fillCert" /\ cert'[a] = Torn /\ UNCHANGED <<key, armed>>
      \/ /\ at[p] = "fillCert" /\ at'[p] = "key" /\ cert'[a] = mem[p].cert /\ UNCHANGED <<key, armed>>
      \/ /\ at[p] = "key" /\ at'[p] = "fillKey" /\ key'[a] = Torn /\ UNCHANGED <<cert, armed>>
      \/ /\ at[p] = "fillKey" /\ at'[p] = AfterLoad(p) /\ key'[a] = mem[p].key /\ cert' = cert
         /\ armed'[p] => armed[p] \/ job[p] = "user"
  BY DEF WriteFile, Goes, Loaded, Arm, StoreType
<1>3. /\ mem[p].cert = mem[p].key /\ mem[p].cert \in 1 .. Len(owner)
      /\ owner[mem[p].cert] = a
  BY <1>1 DEF NewPair
<1>4. AfterLoad(p) \in {"run", "install", "check"}
  BY DEF AfterLoad
<1>5. a \notin crossed /\ cert'[a] # cert[a] => ~(cert[a] > 0)
  BY <1>1, <1>2 DEF MakerAlone, Making, Writing, NoFile, Torn
<1>6. StoreType'
  <2>1. cert' \in [Accounts -> Int] /\ key' \in [Accounts -> Int]
    BY <1>3 DEF WriteFile, StoreType, Torn
  <2>2. at' \in [Procs -> Spots]
    <3>1. \E s \in {"fillCert", "key", "fillKey", AfterLoad(p)} : at' = [at EXCEPT ![p] = s]
      BY DEF WriteFile, Goes, Loaded
    <3> QED
      BY <1>4, <3>1 DEF StoreType, Spots, Making, Writing
  <2>3. armed' \in [Procs -> BOOLEAN]
    BY DEF WriteFile, Loaded, Arm, StoreType
  <2> QED
    BY <1>1, <2>1, <2>2, <2>3 DEF StoreType
<1>7. TrustedIsKept'
  <2> SUFFICES ASSUME NEW n \in trust, owner[n] \notin crossed
               PROVE  n \in 1 .. Len(owner) /\ cert'[owner[n]] = n
    BY <1>1 DEF TrustedIsKept, StoreInv
  <2>1. n \in 1 .. Len(owner) /\ cert[owner[n]] = n /\ n > 0 /\ owner[n] \in Accounts
    BY DEF StoreInv, TrustedIsKept, StoreType
  <2> QED
    BY <2>1, <1>1, <1>5
<1>8. ASSUME NEW q \in Procs \ {p}
      PROVE  InPlace(q)' /\ NewPair(q)' /\ MakerAlone(q)' /\ Keeps(q)' /\ FindsAll(q)'
  <2> InPlace(q) /\ NewPair(q) /\ MakerAlone(q) /\ Keeps(q) /\ FindsAll(q)
    BY DEF StoreInv
  <2>1. InPlace(q)' /\ NewPair(q)'
    BY <1>1 DEF InPlace, NewPair
  <2>2. MakerAlone(q)'
    <3> SUFFICES ASSUME at[q] \in Making, acct[q] \notin crossed PROVE MakerAlone(q)'
      BY <1>1 DEF MakerAlone
    <3>1. acct[q] # a /\ acct[q] \in Accounts
      BY <1>1 DEF MakerAlone, Making, StoreType
    <3> QED
      BY <1>1, <3>1 DEF MakerAlone
  <2>3. Keeps(q)'
    <3>1. acct[q] \in Accounts
      BY DEF StoreType
    <3>2. acct[q] \notin crossed /\ cert[acct[q]] > 0 => cert'[acct[q]] = cert[acct[q]]
      BY <1>1, <1>5, <3>1
    <3> QED
      BY <1>1, <3>1, <3>2 DEF Keeps
  <2>4. FindsAll(q)'
    <3>1. CASE acct[q] # a
      BY <1>1, <3>1 DEF FindsAll, Exists, StoreType
    <3>2. CASE acct[q] = a
      <4>1. cert'[a] # NoFile \/ cert' = cert
        BY <1>2, <1>3 DEF NoFile, Torn
      <4>2. a \in disturbed \/ at[q] \notin {"loadCert", "loadKey"}
        <5>1. a \notin crossed => ~(key[a] > 0)
          BY <1>1 DEF MakerAlone, Making, NoFile, Torn
        <5> QED
          BY <3>2, <5>1 DEF FindsAll, StoreInv
      <4> QED
        BY <1>1, <3>2, <4>1, <4>2 DEF FindsAll, Exists
    <3> QED
      BY <3>1, <3>2
  <2> QED
    BY <2>1, <2>2, <2>3, <2>4
<1>9. InPlace(p)' /\ NewPair(p)' /\ MakerAlone(p)' /\ Keeps(p)' /\ FindsAll(p)'
  <2>1. InPlace(p)'
    BY <1>1, <1>2 DEF InPlace, AfterLoad, Making, Writing, StoreType
  <2>2. NewPair(p)'
    BY <1>1, <1>2, <1>3, <1>4 DEF NewPair, Writing
  <2>3. MakerAlone(p)'
    <3>1. a \notin crossed => \A q \in Procs : at'[q] \in Making /\ acct[q] = a => q = p
      BY <1>1 DEF MakerAlone, Making
    <3> QED
      BY <1>1, <1>2, <1>3, <1>4, <3>1 DEF MakerAlone, Making, Writing
  <2>4. Keeps(p)'
    BY <1>1, <1>2, <1>3, <1>4 DEF Keeps, MakerAlone, InPlace, Making, Writing
  <2>5. FindsAll(p)'
    BY <1>1, <1>2, <1>4 DEF FindsAll
  <2> QED
    BY <2>1, <2>2, <2>3, <2>4, <2>5
<1>10. ASSUME NEW b \in Accounts PROVE Pairs(b)'
  <2>1. CASE b = a
    <3>1. cert'[a] > 0 => cert'[a] \in 1 .. Len(owner) /\ owner[cert'[a]] = a
      BY <1>2, <1>3 DEF Pairs, Torn
    <3>2. a \notin crossed => /\ key'[a] # NoFile => cert'[a] > 0
                              /\ key'[a] > 0 => key'[a] = cert'[a]
      BY <1>1, <1>2, <1>3 DEF MakerAlone, Making, Writing, NoFile, Torn
    <3>3. a \notin disturbed /\ at'[p] \notin Making => cert'[a] > 0 /\ key'[a] > 0
      BY <1>1, <1>2, <1>3 DEF MakerAlone, Making, Writing, StoreInv
    <3> QED
      BY <1>1, <2>1, <3>1, <3>2, <3>3 DEF Pairs
  <2>2. CASE b # a
    <3>1. cert'[b] = cert[b] /\ key'[b] = key[b] /\ Pairs(b)
      BY <1>1, <2>2 DEF StoreInv
    <3>2. \A q \in Procs : acct[q] = b => at'[q] = at[q]
      BY <1>1, <2>2
    <3> QED
      BY <1>1, <3>1, <3>2 DEF Pairs
  <2> QED
    BY <2>1, <2>2
<1> QED
  BY <1>1, <1>6, <1>7, <1>8, <1>9, <1>10 DEF StoreInv

\* Every step of every start keeps the invariant.
LEMMA StoreInvNext == StoreInv /\ [StoreNext]_caVars => StoreInv'
<1> SUFFICES ASSUME StoreInv, [StoreNext]_caVars PROVE StoreInv'
  OBVIOUS
<1>1. CASE UNCHANGED caVars
  BY <1>1 DEF StoreInv, StoreType, TrustedIsKept, InPlace, NewPair, MakerAlone, Keeps, FindsAll,
              Pairs, Exists, caVars, files
<1>2. ASSUME NEW p \in Procs, StoreStep(p) PROVE StoreInv'
  BY <1>2, StartKeeps, StatFirstKeeps, StatKeeps, LoadCertKeeps, LoadKeyKeeps, GenerateKeeps,
     WriteFileKeeps, WriteFailsKeeps, CheckKeeps, InstallKeeps, InstallFailsKeeps, ElevateKeeps, RecheckKeeps,
     EndKeeps DEF StoreStep
<1> QED
  BY <1>1, <1>2 DEF StoreNext

\* So it always holds.
LEMMA StoreInvAlways == StoreSpec => []StoreInv
BY StoreInvInit, StoreInvNext, PTL DEF StoreSpec

(***************************************************************************)
(* A whole CA of an account without crossed makers has no maker: its only  *)
(* one would still have to write the key.                                  *)
(***************************************************************************)
FilesStay ==
  \A a \in Accounts \ crossed :
    cert[a] > 0 /\ key[a] > 0 => cert'[a] = cert[a] /\ key'[a] = key[a]

LEMMA WholeIsKept == StoreInv /\ [StoreNext]_caVars => FilesStay
<1> SUFFICES ASSUME StoreInv, [StoreNext]_caVars, NEW a \in Accounts \ crossed,
                    cert[a] > 0, key[a] > 0
             PROVE  cert'[a] = cert[a] /\ key'[a] = key[a]
  BY DEF FilesStay
<1>1. CASE UNCHANGED files
  BY <1>1 DEF files
<1>2. ASSUME NEW p \in Procs, WriteFile(p)
      PROVE  cert'[a] = cert[a] /\ key'[a] = key[a]
  <2>1. acct[p] # a
    <3>1. MakerAlone(p) /\ at[p] \in Making
      BY <1>2 DEF StoreInv, WriteFile, Making, Writing
    <3>2. acct[p] \notin crossed => ~(key[acct[p]] > 0)
      BY <3>1 DEF MakerAlone, NoFile, Torn
    <3> QED
      BY <3>2
  <2> QED
    BY <1>2, <2>1 DEF WriteFile, StoreInv, StoreType
<1>3. ASSUME NEW p \in Procs, StoreStep(p), ~WriteFile(p) PROVE UNCHANGED files
  BY <1>3 DEF StoreStep, Start, StatFirst, Stat, LoadCert, LoadKey, Generate, WriteFails, Check,
              Install, InstallFails, Elevate, Recheck, End, files
<1> QED
  BY <1>1, <1>2, <1>3 DEF StoreNext, caVars

\* No start of any kind, however it overlaps with others, writes over a CA
\* that is there (ca.go lines 50 to 58).
THEOREM CAStays == StoreSpec => CAIsKept
<1>1. StoreInv /\ [StoreNext]_caVars => [FilesStay]_caVars
  BY WholeIsKept
<1> QED
  BY <1>1, StoreInvAlways, PTL DEF StoreSpec, CAIsKept, FilesStay

\* Whatever a start left unfinished (loadCA, ca.go lines 62 to 88).
THEOREM CAIsAPair == StoreSpec => []KeyBelongs
<1>1. StoreInv => KeyBelongs
  BY DEF StoreInv, KeyBelongs, InUse, InPlace, Keeps, StoreType
<1> QED
  BY <1>1, StoreInvAlways, PTL

\* isCAInstalled looks for a name (main.go lines 154, 171 and 191).
THEOREM CAInUseIsTrusted == StoreSpec => []InUseIsTrusted
<1>1. ASSUME StoreInv, NEW p \in Procs, InUse(p)
      PROVE  \/ mem[p].cert \in trust
             \/ home[p] \in crossed
             \/ \E n \in trust : owner[n] # home[p]
  <2>1. acct[p] = home[p] /\ trust # {}
    BY <1>1 DEF StoreInv, InUse, InPlace
  <2>2. acct[p] \notin crossed => mem[p].cert = cert[acct[p]]
    BY <1>1 DEF StoreInv, InUse, Keeps
  <2> QED
    BY <1>1, <2>1, <2>2 DEF StoreInv, TrustedIsKept
<1>2. StoreInv => InUseIsTrusted
  BY <1>1 DEF InUseIsTrusted
<1> QED
  BY <1>2, StoreInvAlways, PTL

\* The certificate is written before the key, and both in place (ca.go lines
\* 124 and 127).
THEOREM FailuresAreExplained == StoreSpec => []FailureHasCause
<1>1. StoreInv => FailureHasCause
  BY DEF StoreInv, FailureHasCause, InPlace
<1> QED
  BY <1>1, StoreInvAlways, PTL

-----------------------------------------------------------------------------
\* Where a caller can be.
Places == {"out", "look", "lock", "again", "make"}

CacheType ==
  /\ cache \in [Names -> Nat] /\ made \in Nat
  /\ where \in [Callers -> Places]
  /\ want \in [Callers -> Names]
  /\ result \in [Callers -> Int]

Owns(c) == where[c] \in {"again", "make"}

\* The mutex has one owner, who makes a value only where there is none, and
\* who is inside Get has no result yet.
CacheInv ==
  /\ CacheType
  /\ \A c, d \in Callers : Owns(c) /\ Owns(d) => c = d
  /\ \A c \in Callers : where[c] = "make" => cache[want[c]] = None
  /\ \A c \in Callers : where[c] # "out" => result[c] = None
  /\ OneValuePerName

-----------------------------------------------------------------------------
\* Nobody has asked yet.
LEMMA CacheInvInit == CacheInit => CacheInv
BY DEF CacheInit, CacheInv, CacheType, Places, Owns, OneValuePerName, None, Error

\* While the cache stays as it is, only the caller that moves matters.
LEMMA CallerMoves ==
  ASSUME CacheInv, CacheType', NEW c \in Callers, UNCHANGED <<cache, made>>,
         \A d \in Callers \ {c} :
            where'[d] = where[d] /\ want'[d] = want[d] /\ result'[d] = result[d],
         Owns(c)' => \A d \in Callers \ {c} : ~Owns(d),
         where'[c] = "make" => cache[want'[c]] = None,
         where'[c] # "out" => result'[c] = None,
         result'[c] \in {None, Error, cache[want'[c]]}
  PROVE  CacheInv'
BY DEF CacheInv, Owns, OneValuePerName

\* Get's steps, each under the mutex it holds there (link_net.go lines 71 to
\* 81, mint.go lines 28 to 46).
LEMMA CacheInvNext == CacheInv /\ [CacheNext]_cacheVars => CacheInv'
<1> SUFFICES ASSUME CacheInv, [CacheNext]_cacheVars PROVE CacheInv'
  OBVIOUS
<1>1. CASE UNCHANGED cacheVars
  BY <1>1 DEF CacheInv, CacheType, Owns, OneValuePerName, cacheVars
<1>2. ASSUME NEW c \in Callers, Ask(c) PROVE CacheInv'
  <2>1. CacheType'
    BY <1>2 DEF CacheInv, CacheType, Ask, Moves, Places, None
  <2>2. where'[c] = "look" /\ result'[c] = None /\ UNCHANGED <<cache, made>>
    BY <1>2 DEF CacheInv, CacheType, Ask, Moves
  <2>3. \A d \in Callers \ {c} :
          where'[d] = where[d] /\ want'[d] = want[d] /\ result'[d] = result[d]
    BY <1>2 DEF CacheInv, CacheType, Ask, Moves
  <2> QED
    BY <2>1, <2>2, <2>3, CallerMoves DEF Owns
<1>3. ASSUME NEW c \in Callers, Look(c) PROVE CacheInv'
  <2>1. CacheType'
    BY <1>3 DEF CacheInv, CacheType, Look, Moves, Gives, Places
  <2>2. /\ \/ where'[c] = "out" /\ result'[c] = cache[want[c]]
           \/ where'[c] = "lock" /\ result'[c] = None
        /\ want' = want /\ UNCHANGED <<cache, made>>
    BY <1>3 DEF CacheInv, CacheType, Look, Moves, Gives
  <2>3. \A d \in Callers \ {c} :
          where'[d] = where[d] /\ want'[d] = want[d] /\ result'[d] = result[d]
    BY <1>3 DEF CacheInv, CacheType, Look, Moves, Gives
  <2> QED
    BY <2>1, <2>2, <2>3, CallerMoves DEF Owns
<1>4. ASSUME NEW c \in Callers, Lock(c) PROVE CacheInv'
  <2>1. CacheType'
    BY <1>4 DEF CacheInv, CacheType, Lock, Moves, Places
  <2>2. /\ where'[c] = "again" /\ result'[c] = None
        /\ want' = want /\ UNCHANGED <<cache, made>>
    BY <1>4 DEF CacheInv, CacheType, Lock, Moves
  <2>3. \A d \in Callers \ {c} :
          where'[d] = where[d] /\ want'[d] = want[d] /\ result'[d] = result[d]
    BY <1>4 DEF CacheInv, CacheType, Lock, Moves
  <2>4. \A d \in Callers : ~Owns(d)
    BY <1>4 DEF Lock, Owners, Owns
  <2> QED
    BY <2>1, <2>2, <2>3, <2>4, CallerMoves
<1>5. ASSUME NEW c \in Callers, LookAgain(c) PROVE CacheInv'
  <2>1. CacheType'
    BY <1>5 DEF CacheInv, CacheType, LookAgain, Found, Moves, Gives, Places
  <2>2. /\ \/ where'[c] = "out" /\ result'[c] = cache[want[c]]
           \/ where'[c] = "make" /\ result'[c] = None /\ cache[want[c]] = None
        /\ want' = want /\ UNCHANGED <<cache, made>>
    BY <1>5 DEF CacheInv, CacheType, LookAgain, Found, Moves, Gives
  <2>3. \A d \in Callers \ {c} :
          where'[d] = where[d] /\ want'[d] = want[d] /\ result'[d] = result[d]
    BY <1>5 DEF CacheInv, CacheType, LookAgain, Moves, Gives
  <2>4. \A d \in Callers \ {c} : ~Owns(d)
    BY <1>5 DEF CacheInv, LookAgain, Owns
  <2> QED
    BY <2>1, <2>2, <2>3, <2>4, CallerMoves
<1>6. ASSUME NEW c \in Callers, Make(c) PROVE CacheInv'
  <2>1. CacheType'
    BY <1>6 DEF CacheInv, CacheType, Make, Moves, Gives, Places
  <2>2. /\ cache[want[c]] = None /\ want' = want
        /\ cache' = [cache EXCEPT ![want[c]] = made + 1]
        /\ where' = [where EXCEPT ![c] = "out"]
        /\ result' = [result EXCEPT ![c] = made + 1]
    BY <1>6 DEF CacheInv, Make, Moves, Gives
  <2>3. \A d \in Callers : Owns(d)' => Owns(d) /\ d # c
    BY <2>2 DEF CacheInv, CacheType, Owns
  <2>4. \A d \in Callers : ~Owns(d)'
    BY <2>3, <1>6 DEF CacheInv, Make, Owns
  <2>5. \A d \in Callers : where'[d] # "out" => result'[d] = None
    BY <2>2 DEF CacheInv, CacheType
  <2>6. OneValuePerName'
    <3> SUFFICES ASSUME NEW d \in Callers, result'[d] \notin {None, Error}
                 PROVE  result'[d] = cache'[want'[d]]
      BY DEF OneValuePerName
    <3>1. CASE d = c
      BY <3>1, <2>2 DEF CacheInv, CacheType
    <3>2. CASE d # c
      <4>1. result'[d] = result[d] /\ result[d] = cache[want[d]] /\ result[d] # None
        BY <3>2, <2>2 DEF CacheInv, CacheType, OneValuePerName
      <4>2. want[d] # want[c]
        BY <4>1, <2>2
      <4> QED
        BY <4>1, <4>2, <2>2 DEF CacheInv, CacheType
    <3> QED
      BY <3>1, <3>2
  <2> QED
    BY <2>1, <2>4, <2>5, <2>6 DEF CacheInv, Owns
<1>7. ASSUME NEW c \in Callers, MakeFails(c) PROVE CacheInv'
  <2>1. CacheType'
    BY <1>7 DEF CacheInv, CacheType, MakeFails, Moves, Gives, Places, Error
  <2>2. /\ where'[c] = "out" /\ result'[c] = Error
        /\ want' = want /\ UNCHANGED <<cache, made>>
    BY <1>7 DEF CacheInv, CacheType, MakeFails, Moves, Gives
  <2>3. \A d \in Callers \ {c} :
          where'[d] = where[d] /\ want'[d] = want[d] /\ result'[d] = result[d]
    BY <1>7 DEF CacheInv, CacheType, MakeFails, Moves, Gives
  <2> QED
    BY <2>1, <2>2, <2>3, CallerMoves DEF Owns
<1> QED
  BY <1>1, <1>2, <1>3, <1>4, <1>5, <1>6, <1>7 DEF CacheNext

\* Whoever asks for a name, and when: one value (link_net.go line 45, mint.go
\* line 16).
THEOREM OneValueForAll == CacheSpec => []OneValuePerName
<1>1. CacheInv => OneValuePerName
  BY DEF CacheInv
<1> QED
  BY <1>1, CacheInvInit, CacheInvNext, PTL DEF CacheSpec
=============================================================================
