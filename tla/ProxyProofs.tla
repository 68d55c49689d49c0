---------------------------- MODULE ProxyProofs ----------------------------
(***************************************************************************)
(* Theorems of Proxy, for every number of links, connections and requests. *)
(***************************************************************************)
EXTENDS Proxy, FiniteSetTheorems, TLAPS

(***************************************************************************)
(* The inductive invariant: who holds a link holds it once, and knows      *)
(* which; and nothing has been sent where a retry may still send.          *)
(***************************************************************************)
AccountTypes ==
  /\ active \in [Links -> Int]
  /\ cpc \in [Conns -> Using \cup {"new", "bypass", "choosing", "closing", "done"}]
  /\ clink \in [Conns -> Links \cup {NoLink}]
  /\ rpc \in [Reqs -> Holding \cup {"new", "picking", "repicking", "splitting", "done"}]
  /\ rlink \in [Reqs -> Links \cup {NoLink}]
  /\ freed \in [Reqs -> BOOLEAN]

HoldersHaveLinks ==
  /\ \A c \in Conns : cpc[c] \in Using => clink[c] \in Links
  /\ \A r \in Reqs : rpc[r] \in Holding => rlink[r] \in Links /\ ~freed[r]
  /\ \A r \in Reqs : rpc[r] \in {"repicking", "splitting"} => freed[r]
  /\ \A r \in Reqs : rpc[r] \in {"new", "picking"} => ~freed[r]

AccountInv == AccountTypes /\ HoldersHaveLinks /\ ActiveIsInUse

LEMMA InitAccount == Init => AccountInv
<1> SUFFICES ASSUME Init PROVE AccountInv
  OBVIOUS
<1>1. \A l \in Links : ConnsOn(l) = {} /\ ReqsOn(l) = {} /\ active[l] = 0
  BY DEF Init, BalancerInit, DialInit, ForwardInit, ConnsOn, ReqsOn, Using, Holding, Sending
<1>2. ActiveIsInUse
  BY <1>1, FS_EmptySet DEF ActiveIsInUse
<1>3. AccountTypes
  BY DEF Init, BalancerInit, DialInit, ForwardInit, AccountTypes
<1>4. HoldersHaveLinks
  BY DEF Init, DialInit, ForwardInit, HoldersHaveLinks, Using, Holding, Sending
<1> QED
  BY <1>2, <1>3, <1>4 DEF AccountInv

LEMMA Counts ==
  ASSUME NEW l \in Links
  PROVE  /\ IsFiniteSet(ConnsOn(l)) /\ Cardinality(ConnsOn(l)) \in Nat
         /\ IsFiniteSet(ReqsOn(l)) /\ Cardinality(ReqsOn(l)) \in Nat
<1>1. ConnsOn(l) \in SUBSET Conns /\ ReqsOn(l) \in SUBSET Reqs
  BY DEF ConnsOn, ReqsOn
<1>2. IsFiniteSet(ConnsOn(l)) /\ IsFiniteSet(ReqsOn(l))
  BY <1>1, FS_Subset, DialAssumption, ForwardAssumption
<1> QED
  BY <1>2, FS_CardinalityType

(***************************************************************************)
(* A connection that takes a link, gives it back, or keeps things as they  *)
(* are, with the counter following.                                        *)
(***************************************************************************)
LEMMA ConnTakes ==
  ASSUME AccountInv, NEW c \in Conns, NEW l \in Links,
         cpc[c] \notin Using, cpc' = [cpc EXCEPT ![c] = "dialing"],
         clink' = [clink EXCEPT ![c] = l], Use(l),
         UNCHANGED <<rpc, rlink>>
  PROVE  ActiveIsInUse'
<1> SUFFICES ASSUME NEW k \in Links
             PROVE  active'[k] = Cardinality(ConnsOn(k)') + Cardinality(ReqsOn(k)')
  BY DEF ActiveIsInUse
<1>1. ReqsOn(k)' = ReqsOn(k)
  BY DEF ReqsOn
<1>2. /\ active'[k] = IF k = l THEN active[k] + 1 ELSE active[k]
      /\ active[k] = Cardinality(ConnsOn(k)) + Cardinality(ReqsOn(k))
  BY DEF Use, AccountInv, AccountTypes, ActiveIsInUse
<1>3. c \notin ConnsOn(k)
  BY DEF ConnsOn
<1>4. ConnsOn(k)' = IF k = l THEN ConnsOn(k) \cup {c} ELSE ConnsOn(k)
  BY DEF ConnsOn, AccountInv, AccountTypes, Using
<1>5. Cardinality(ConnsOn(k)') =
        IF k = l THEN Cardinality(ConnsOn(k)) + 1 ELSE Cardinality(ConnsOn(k))
  BY <1>3, <1>4, Counts, FS_AddElement
<1> QED
  BY <1>1, <1>2, <1>5, Counts

LEMMA ConnGives ==
  ASSUME AccountInv, NEW c \in Conns, NEW p,
         cpc[c] \in Using, p \notin Using, cpc' = [cpc EXCEPT ![c] = p],
         Release(clink[c]), UNCHANGED <<clink, rpc, rlink>>
  PROVE  ActiveIsInUse'
<1> SUFFICES ASSUME NEW k \in Links
             PROVE  active'[k] = Cardinality(ConnsOn(k)') + Cardinality(ReqsOn(k)')
  BY DEF ActiveIsInUse
<1>1. ReqsOn(k)' = ReqsOn(k)
  BY DEF ReqsOn
<1>2. /\ active'[k] = IF k = clink[c] THEN active[k] - 1 ELSE active[k]
      /\ active[k] = Cardinality(ConnsOn(k)) + Cardinality(ReqsOn(k))
  BY DEF Release, AccountInv, AccountTypes, ActiveIsInUse
<1>3. c \in ConnsOn(k) <=> k = clink[c]
  BY DEF ConnsOn
<1>4. ConnsOn(k)' = ConnsOn(k) \ {c}
  BY DEF ConnsOn, AccountInv, AccountTypes
<1>5. Cardinality(ConnsOn(k)') =
        IF k = clink[c] THEN Cardinality(ConnsOn(k)) - 1 ELSE Cardinality(ConnsOn(k))
  BY <1>3, <1>4, Counts, FS_RemoveElement
<1> QED
  BY <1>1, <1>2, <1>5, Counts

LEMMA ConnKeeps ==
  ASSUME AccountInv, NEW c \in Conns, NEW p,
         cpc[c] \in Using <=> p \in Using, cpc' = [cpc EXCEPT ![c] = p],
         UNCHANGED <<clink, active, rpc, rlink>>
  PROVE  ActiveIsInUse'
<1>1. \A k \in Links : ReqsOn(k)' = ReqsOn(k) /\ ConnsOn(k)' = ConnsOn(k)
  BY DEF ReqsOn, ConnsOn, AccountInv, AccountTypes
<1> QED
  BY <1>1 DEF AccountInv, ActiveIsInUse

(***************************************************************************)
(* The same for a request.                                                 *)
(***************************************************************************)
LEMMA ReqTakes ==
  ASSUME AccountInv, NEW r \in Reqs, NEW l \in Links, NEW p,
         rpc[r] \notin Holding, p \in Holding, rpc' = [rpc EXCEPT ![r] = p],
         rlink' = [rlink EXCEPT ![r] = l], Use(l),
         UNCHANGED <<cpc, clink>>
  PROVE  ActiveIsInUse'
<1> SUFFICES ASSUME NEW k \in Links
             PROVE  active'[k] = Cardinality(ConnsOn(k)') + Cardinality(ReqsOn(k)')
  BY DEF ActiveIsInUse
<1>1. ConnsOn(k)' = ConnsOn(k)
  BY DEF ConnsOn
<1>2. /\ active'[k] = IF k = l THEN active[k] + 1 ELSE active[k]
      /\ active[k] = Cardinality(ConnsOn(k)) + Cardinality(ReqsOn(k))
  BY DEF Use, AccountInv, AccountTypes, ActiveIsInUse
<1>3. r \notin ReqsOn(k)
  BY DEF ReqsOn
<1>4. ReqsOn(k)' = IF k = l THEN ReqsOn(k) \cup {r} ELSE ReqsOn(k)
  BY DEF ReqsOn, AccountInv, AccountTypes
<1>5. Cardinality(ReqsOn(k)') =
        IF k = l THEN Cardinality(ReqsOn(k)) + 1 ELSE Cardinality(ReqsOn(k))
  BY <1>3, <1>4, Counts, FS_AddElement
<1> QED
  BY <1>1, <1>2, <1>5, Counts

LEMMA ReqGives ==
  ASSUME AccountInv, NEW r \in Reqs, NEW p,
         rpc[r] \in Holding, p \notin Holding, rpc' = [rpc EXCEPT ![r] = p],
         ReleaseLink(r), UNCHANGED <<rlink, cpc, clink>>
  PROVE  ActiveIsInUse'
<1> SUFFICES ASSUME NEW k \in Links
             PROVE  active'[k] = Cardinality(ConnsOn(k)') + Cardinality(ReqsOn(k)')
  BY DEF ActiveIsInUse
<1>1. ConnsOn(k)' = ConnsOn(k)
  BY DEF ConnsOn
<1>2. /\ active'[k] = IF k = rlink[r] THEN active[k] - 1 ELSE active[k]
      /\ active[k] = Cardinality(ConnsOn(k)) + Cardinality(ReqsOn(k))
  BY DEF ReleaseLink, AccountInv, AccountTypes, HoldersHaveLinks, ActiveIsInUse
<1>3. r \in ReqsOn(k) <=> k = rlink[r]
  BY DEF ReqsOn
<1>4. ReqsOn(k)' = ReqsOn(k) \ {r}
  BY DEF ReqsOn, AccountInv, AccountTypes
<1>5. Cardinality(ReqsOn(k)') =
        IF k = rlink[r] THEN Cardinality(ReqsOn(k)) - 1 ELSE Cardinality(ReqsOn(k))
  BY <1>3, <1>4, Counts, FS_RemoveElement
<1> QED
  BY <1>1, <1>2, <1>5, Counts

LEMMA ReqKeeps ==
  ASSUME AccountInv, NEW r \in Reqs, NEW p,
         rpc[r] \in Holding <=> p \in Holding, rpc' = [rpc EXCEPT ![r] = p],
         UNCHANGED <<rlink, active, cpc, clink>>
  PROVE  ActiveIsInUse'
<1>1. \A k \in Links : ReqsOn(k)' = ReqsOn(k) /\ ConnsOn(k)' = ConnsOn(k)
  BY DEF ReqsOn, ConnsOn, AccountInv, AccountTypes
<1> QED
  BY <1>1 DEF AccountInv, ActiveIsInUse

(***************************************************************************)
(* One step of a connection.                                               *)
(***************************************************************************)
LEMMA ConnStep ==
  ASSUME AccountInv, NEW c \in Conns, Connection(c), UNCHANGED fwdVars
  PROVE  AccountInv'
<1> USE DEF Goto
<1>1. UNCHANGED <<rpc, rlink, freed>>
  BY DEF fwdVars
<1>2. CASE ReadTarget(c)
  <2>1. PICK p \in {"choosing", "bypass"} : cpc' = [cpc EXCEPT ![c] = p]
    BY <1>2 DEF ReadTarget
  <2>2. cpc[c] \notin Using /\ p \notin Using /\ UNCHANGED <<clink, active>>
    BY <1>2 DEF ReadTarget, Using, pickVars
  <2>3. ActiveIsInUse'
    BY <1>1, <2>1, <2>2, ConnKeeps
  <2> QED
    BY <1>1, <2>1, <2>2, <2>3 DEF AccountInv, AccountTypes, HoldersHaveLinks
<1>3. CASE Bypass(c) \/ ChooseNone(c) \/ Sample(c)
  <2>1. cpc' = [cpc EXCEPT ![c] = "done"]
    BY <1>3 DEF Bypass, ChooseNone, Sample
  <2>2. cpc[c] \notin Using /\ "done" \notin Using /\ UNCHANGED <<clink, active>>
    BY <1>3 DEF Bypass, ChooseNone, Sample, Using, pickVars
  <2>3. ActiveIsInUse'
    BY <1>1, <2>1, <2>2, ConnKeeps
  <2> QED
    BY <1>1, <2>1, <2>2, <2>3 DEF AccountInv, AccountTypes, HoldersHaveLinks
<1>4. CASE Choose(c)
  <2>1. PICK l \in Links : Use(l) /\ clink' = [clink EXCEPT ![c] = l]
    BY <1>4 DEF Choose, Pick
  <2>2. cpc[c] \notin Using /\ "dialing" \in Using /\ cpc' = [cpc EXCEPT ![c] = "dialing"]
    BY <1>4 DEF Choose, Using
  <2>3. ActiveIsInUse'
    BY <1>1, <2>1, <2>2, ConnTakes
  <2>4. active' \in [Links -> Int]
    BY <2>1 DEF Use, AccountInv, AccountTypes
  <2> QED
    BY <1>1, <2>1, <2>2, <2>3, <2>4 DEF AccountInv, AccountTypes, HoldersHaveLinks
<1>5. CASE DialOK(c)
  <2>1. /\ cpc[c] \in Using /\ "open" \in Using /\ cpc' = [cpc EXCEPT ![c] = "open"]
        /\ UNCHANGED <<clink, active>>
    BY <1>5 DEF DialOK, Using, pickVars
  <2>2. ActiveIsInUse'
    BY <1>1, <2>1, ConnKeeps
  <2> QED
    BY <1>1, <2>1, <2>2 DEF AccountInv, AccountTypes, HoldersHaveLinks
<1>6. CASE DialFails(c) \/ Close(c)
  <2>1. PICK p \in {"done", "choosing", "closing"} : cpc' = [cpc EXCEPT ![c] = p]
    BY <1>6 DEF DialFails, Close
  <2>2. /\ cpc[c] \in Using /\ p \notin Using
        /\ Release(clink[c]) /\ UNCHANGED clink
    BY <1>6 DEF DialFails, Close, Using
  <2>3. ActiveIsInUse'
    BY <1>1, <2>1, <2>2, ConnGives
  <2>4. active' \in [Links -> Int]
    BY <2>2 DEF Release, AccountInv, AccountTypes, HoldersHaveLinks
  <2> QED
    BY <1>1, <2>1, <2>2, <2>3, <2>4 DEF AccountInv, AccountTypes, HoldersHaveLinks
<1>7. CASE Copy(c)
  <2>1. UNCHANGED <<cpc, clink, active>>
    BY <1>7 DEF Copy, pickVars
  <2> QED
    BY <1>1, <2>1 DEF AccountInv, AccountTypes, HoldersHaveLinks, ActiveIsInUse, ConnsOn, ReqsOn
<1> QED
  BY <1>2, <1>3, <1>4, <1>5, <1>6, <1>7 DEF Connection, Answer

(***************************************************************************)
(* One step of a request.                                                  *)
(***************************************************************************)
LEMMA ReqStep ==
  ASSUME AccountInv, NEW r \in Reqs, Request(r), UNCHANGED dialVars
  PROVE  AccountInv'
<1> USE DEF At, Ends
<1>1. UNCHANGED <<cpc, clink>>
  BY DEF dialVars
<1>2. CASE Arrive(r)
  <2>1. rpc' = [rpc EXCEPT ![r] = "picking"] /\ rpc[r] = "new"
        /\ UNCHANGED <<rlink, freed, active>>
    BY <1>2 DEF Arrive, pickVars
  <2>2. ActiveIsInUse'
    BY <1>1, <2>1, ReqKeeps DEF Holding, Sending
  <2> QED
    BY <1>1, <2>1, <2>2 DEF AccountInv, AccountTypes, HoldersHaveLinks, Holding, Sending
<1>3. CASE PickLink(r)
  <2>1. PICK l \in Links : PickForHost(host[r], l) /\ rlink' = [rlink EXCEPT ![r] = l]
    BY <1>3 DEF PickLink
  <2>2. PICK p \in {"upgrading", "first"} : rpc' = [rpc EXCEPT ![r] = p]
    BY <1>3 DEF PickLink
  <2>3. rpc[r] = "picking" /\ Use(l) /\ UNCHANGED freed
    BY <1>3, <2>1 DEF PickLink, PickForHost, Pick
  <2>4. ActiveIsInUse'
    BY <1>1, <2>1, <2>2, <2>3, ReqTakes DEF Holding, Sending
  <2>5. active' \in [Links -> Int]
    BY <2>3 DEF Use, AccountInv, AccountTypes
  <2> QED
    BY <1>1, <2>1, <2>2, <2>3, <2>4, <2>5
       DEF AccountInv, AccountTypes, HoldersHaveLinks, Holding, Sending
<1>4. CASE NoLinkToPick(r)
  <2>1. rpc' = [rpc EXCEPT ![r] = "done"] /\ rpc[r] = "picking"
        /\ UNCHANGED <<rlink, freed, active>>
    BY <1>4 DEF NoLinkToPick, pickVars
  <2>2. ActiveIsInUse'
    BY <1>1, <2>1, ReqKeeps DEF Holding, Sending
  <2> QED
    BY <1>1, <2>1, <2>2 DEF AccountInv, AccountTypes, HoldersHaveLinks, Holding, Sending
<1>5. CASE RoundTripOK(r) \/ BadCertificate(r) \/ InspectSplit(r) \/ InspectStream(r) \/ UpgradeOK(r)
  <2>1. PICK p \in {"inspecting", "insecure", "unwanted", "streaming", "spliced"} :
          rpc' = [rpc EXCEPT ![r] = p]
    BY <1>5 DEF RoundTripOK, BadCertificate, InspectSplit, InspectStream, UpgradeOK
  <2>2. rpc[r] \in Holding /\ p \in Holding /\ UNCHANGED <<rlink, freed, active>>
    BY <1>5 DEF RoundTripOK, BadCertificate, Fails, InspectSplit, InspectStream, UpgradeOK,
                Holding, Sending, pickVars
  <2>3. ActiveIsInUse'
    BY <1>1, <2>1, <2>2, ReqKeeps
  <2> QED
    BY <1>1, <2>1, <2>2, <2>3
       DEF AccountInv, AccountTypes, HoldersHaveLinks, Holding, Sending
<1>6. CASE \/ BindFails(r) \/ RoundTripFails(r) \/ LetGo(r) \/ StreamEnds(r)
           \/ UpgradeFails(r) \/ SpliceEnds(r)
  <2>1. PICK p \in {"repicking", "splitting", "done"} : rpc' = [rpc EXCEPT ![r] = p]
    BY <1>6 DEF BindFails, RoundTripFails, LetGo, StreamEnds, UpgradeFails, SpliceEnds
  <2>2. rpc[r] \in Holding /\ ReleaseLink(r) /\ UNCHANGED rlink
    BY <1>6 DEF BindFails, RoundTripFails, LetGo, StreamEnds, UpgradeFails, SpliceEnds,
                Fails, Holding, Sending
  <2>3. ActiveIsInUse'
    BY <1>1, <2>1, <2>2, ReqGives DEF Holding, Sending
  <2>4. freed' = [freed EXCEPT ![r] = TRUE]
    BY <2>2 DEF ReleaseLink
  <2>5. active' \in [Links -> Int]
    BY <2>2 DEF ReleaseLink, AccountInv, AccountTypes, HoldersHaveLinks
  <2> QED
    BY <1>1, <2>1, <2>2, <2>3, <2>4, <2>5
       DEF AccountInv, AccountTypes, HoldersHaveLinks, Holding, Sending
<1>7. CASE Repick(r)
  <2>1. PICK l \in Links : Use(l) /\ Taken(r, l)
    BY <1>7 DEF Repick, Pick
  <2>2. rpc[r] = "repicking" /\ rpc' = [rpc EXCEPT ![r] = "second"]
    BY <1>7 DEF Repick
  <2>3. /\ rlink' = [rlink EXCEPT ![r] = l]
        /\ freed' = [freed EXCEPT ![r] = FALSE]
    BY <2>1 DEF Taken
  <2>4. ActiveIsInUse'
    BY <1>1, <2>1, <2>2, <2>3, ReqTakes DEF Holding, Sending
  <2>5. active' \in [Links -> Int]
    BY <2>1 DEF Use, AccountInv, AccountTypes
  <2> QED
    BY <1>1, <2>2, <2>3, <2>4, <2>5
       DEF AccountInv, AccountTypes, HoldersHaveLinks, Holding, Sending
<1>8. CASE RepickFails(r) \/ EnterSplit(r)
  <2>1. rpc' = [rpc EXCEPT ![r] = "done"] /\ rpc[r] \in {"repicking", "splitting"}
    BY <1>8 DEF RepickFails, EnterSplit
  <2>2. freed[r] = TRUE
    BY <2>1 DEF AccountInv, AccountTypes, HoldersHaveLinks
  <2>3. UNCHANGED <<rlink, active>> /\ freed' = [freed EXCEPT ![r] = TRUE]
    BY <1>8, <2>2 DEF RepickFails, EnterSplit, ReleaseLink
  <2>4. ActiveIsInUse'
    BY <1>1, <2>1, <2>3, ReqKeeps DEF Holding, Sending
  <2> QED
    BY <1>1, <2>1, <2>3, <2>4
       DEF AccountInv, AccountTypes, HoldersHaveLinks, Holding, Sending
<1>9. CASE StreamCopy(r)
  <2>1. UNCHANGED <<rpc, rlink, freed, active>>
    BY <1>9 DEF StreamCopy, fwdVars, pickVars
  <2> QED
    BY <1>1, <2>1 DEF AccountInv, AccountTypes, HoldersHaveLinks, ActiveIsInUse, ConnsOn, ReqsOn
<1> QED
  BY <1>2, <1>3, <1>4, <1>5, <1>6, <1>7, <1>8, <1>9 DEF Request, Respond

LEMMA AccountStep == AccountInv /\ [Next]_vars => AccountInv'
<1> SUFFICES ASSUME AccountInv, [Next]_vars PROVE AccountInv'
  OBVIOUS
<1>1. CASE \E c \in Conns : Connection(c) /\ UNCHANGED fwdVars
  BY <1>1, ConnStep
<1>2. CASE \E r \in Reqs : Request(r) /\ UNCHANGED dialVars
  BY <1>2, ReqStep
<1>3. CASE BalancerNext /\ UNCHANGED <<dialVars, fwdVars>>
  <2>1. UNCHANGED active
    BY <1>3 DEF BalancerNext, Scanner, Enumerate, EnumerateFails, Probe, ProbeOK, ProbeFails,
                ScanEnds, MarkGone, TurnStale, Flap, scanFrame, pickVars
  <2> QED
    BY <1>3, <2>1 DEF dialVars, fwdVars, AccountInv, AccountTypes, HoldersHaveLinks,
                      ActiveIsInUse, ConnsOn, ReqsOn
<1>4. CASE UNCHANGED vars
  BY <1>4 DEF vars, balVars, pickVars, dialVars, fwdVars, AccountInv, AccountTypes,
              HoldersHaveLinks, ActiveIsInUse, ConnsOn, ReqsOn
<1> QED
  BY <1>1, <1>2, <1>3, <1>4 DEF Next

\* Every pick of a link is given back exactly once, however many connections
\* and requests share it: retries, hand-overs and error returns included.
THEOREM ActiveConnsAreInUse == Spec => []ActiveIsInUse
<1>1. AccountInv => ActiveIsInUse
  BY DEF AccountInv
<1> QED
  BY <1>1, InitAccount, AccountStep, PTL DEF Spec

(***************************************************************************)
(* Nothing is sent again once it may have been received: where a request   *)
(* can still be sent, no upstream has it.                                  *)
(***************************************************************************)
Unsent == {"new", "picking", "repicking", "upgrading"} \cup Sending

SentInv ==
  /\ rpc \in [Reqs -> Holding \cup {"new", "picking", "repicking", "splitting", "done"}]
  /\ reached \in [Reqs -> Nat]
  /\ SentOnce
  /\ \A r \in Reqs : rpc[r] \in Unsent => reached[r] = 0

LEMMA SentStep ==
  ASSUME SentInv, NEW r \in Reqs, Request(r)
  PROVE  SentInv'
<1> USE DEF At, Ends
<1>1. rpc[r] \in Unsent => reached[r] = 0
  BY DEF SentInv
<1>2. ASSUME NEW p \in Holding \cup {"picking", "repicking", "splitting", "done"},
             rpc' = [rpc EXCEPT ![r] = p], UNCHANGED reached,
             p \in Unsent => rpc[r] \in Unsent
      PROVE  SentInv'
  BY <1>1, <1>2 DEF SentInv, SentOnce
<1>3. ASSUME NEW p \in {"inspecting", "spliced", "done"},
             rpc' = [rpc EXCEPT ![r] = p], Received(r), rpc[r] \in Unsent
      PROVE  SentInv'
  <2>1. p \notin Unsent /\ p \in Holding \cup {"done"}
    BY DEF Unsent, Holding, Sending
  <2>2. reached' \in [Reqs -> Nat] /\ reached'[r] = 1
    BY <1>1, <1>3 DEF Received, SentInv
  <2>3. \A q \in Reqs : q # r => reached'[q] = reached[q] /\ rpc'[q] = rpc[q]
    BY <1>3 DEF Received, SentInv
  <2>4. rpc'[r] = p /\ rpc' \in [Reqs -> Holding \cup {"new", "picking", "repicking", "splitting", "done"}]
    BY <1>3, <2>1 DEF SentInv
  <2>5. \A q \in Reqs : reached'[q] <= 1 /\ (rpc'[q] \in Unsent => reached'[q] = 0)
    BY <2>1, <2>2, <2>3, <2>4 DEF SentInv, SentOnce
  <2> QED
    BY <2>2, <2>4, <2>5 DEF SentInv, SentOnce
<1>4. CASE Arrive(r) \/ PickLink(r) \/ Repick(r)
  BY <1>2, <1>4 DEF Arrive, PickLink, Repick, Unsent, Holding, Sending
<1>5. CASE NoLinkToPick(r) \/ RepickFails(r)
  BY <1>2, <1>5 DEF NoLinkToPick, RepickFails, Unsent, Sending
<1>6. CASE RoundTripOK(r)
  BY <1>3, <1>6 DEF RoundTripOK, Unsent
<1>7. CASE UpgradeOK(r)
  BY <1>3, <1>7 DEF UpgradeOK, Unsent
<1>8. CASE BindFails(r)
  <2>1. rpc[r] = "first" /\ UNCHANGED reached /\ rpc' = [rpc EXCEPT ![r] = "repicking"]
    BY <1>8 DEF BindFails, Fails, BindRetry
  <2> QED
    BY <1>2, <2>1 DEF Unsent, Sending
<1>9. CASE BadCertificate(r)
  <2>1. rpc[r] \in Sending /\ UNCHANGED reached /\ rpc' = [rpc EXCEPT ![r] = "insecure"]
    BY <1>9 DEF BadCertificate, Fails, InsecureRetry
  <2> QED
    BY <1>2, <2>1 DEF Unsent, Holding, Sending
<1>10. CASE RoundTripFails(r)
  <2>1. PICK e \in Errors : Fails(r, e)
    BY <1>10 DEF RoundTripFails
  <2>2. rpc[r] \in Unsent
    BY <2>1 DEF Fails, Unsent
  <2>3. CASE e = "bind" \/ e = "cert"
    <3>1. UNCHANGED reached
      BY <2>1, <2>3 DEF Fails
    <3> QED
      BY <1>2, <1>10, <2>2, <3>1 DEF RoundTripFails
  <2>4. CASE e = "other"
    <3>1. Received(r) \/ UNCHANGED reached
      BY <2>1, <2>4 DEF Fails
    <3> QED
      BY <1>2, <1>3, <1>10, <2>2, <3>1 DEF RoundTripFails
  <2> QED
    BY <2>3, <2>4 DEF Errors
<1>11. CASE \/ InspectSplit(r) \/ InspectStream(r) \/ LetGo(r) \/ EnterSplit(r)
            \/ UpgradeFails(r) \/ StreamEnds(r) \/ SpliceEnds(r)
  BY <1>2, <1>11 DEF InspectSplit, InspectStream, LetGo, EnterSplit, UpgradeFails, StreamEnds,
                     SpliceEnds, Unsent, Holding, Sending
<1>12. CASE StreamCopy(r)
  BY <1>12 DEF StreamCopy, fwdVars, SentInv, SentOnce
<1> QED
  BY <1>4, <1>5, <1>6, <1>7, <1>8, <1>9, <1>10, <1>11, <1>12 DEF Request, Respond

LEMMA SentAlways == Spec => []SentInv
<1>1. Init => SentInv
  BY DEF Init, ForwardInit, SentInv, SentOnce
<1>2. SentInv /\ [Next]_vars => SentInv'
  <2> SUFFICES ASSUME SentInv, [Next]_vars PROVE SentInv'
    OBVIOUS
  <2>1. CASE \E r \in Reqs : Request(r)
    BY <2>1, SentStep
  <2>2. CASE UNCHANGED fwdVars
    BY <2>2 DEF fwdVars, SentInv, SentOnce
  <2> QED
    BY <2>1, <2>2 DEF Next, vars
<1> QED
  BY <1>1, <1>2, PTL DEF Spec

\* No request reaches an upstream twice, though it may be tried three times
\* over two links: every retry follows an error that came before the request.
THEOREM EachRequestIsSentOnce == Spec => []SentOnce
<1>1. SentInv => SentOnce
  BY DEF SentInv
<1> QED
  BY <1>1, SentAlways, PTL

(***************************************************************************)
(* Pins.                                                                   *)
(***************************************************************************)
PinTypes ==
  /\ pins \in [Hosts -> Links \cup {NoLink}]
  /\ host \in [Reqs -> Hosts]
  /\ rlink \in [Reqs -> Links \cup {NoLink}]
  /\ rpc \in [Reqs -> Holding \cup {"new", "picking", "repicking", "splitting", "done"}]

RequestKeepsPins ==
  /\ \A h \in Hosts : Pinned(h) => pins'[h] = pins[h]
  /\ \A r \in Reqs : Pinned(host[r]) /\ rpc[r] = "picking" /\ rpc'[r] # "picking"
                       => rlink'[r] = pins[host[r]]

LEMMA PinStep ==
  ASSUME PinTypes, NEW r \in Reqs, Request(r)
  PROVE  PinTypes' /\ RequestKeepsPins
<1> USE DEF At, Ends
<1>1. CASE PickLink(r)
  <2>1. PICK l \in Links : PickForHost(host[r], l) /\ rlink' = [rlink EXCEPT ![r] = l]
    BY <1>1 DEF PickLink
  <2>2. \/ Pinned(host[r]) /\ l = pins[host[r]] /\ UNCHANGED pins
        \/ ~Pinned(host[r]) /\ pins' = [pins EXCEPT ![host[r]] = l]
    BY <2>1 DEF PickForHost
  <2>3. PICK p \in {"upgrading", "first"} : rpc' = [rpc EXCEPT ![r] = p]
    BY <1>1 DEF PickLink
  <2>4. UNCHANGED host
    BY <1>1 DEF PickLink
  <2>5. PinTypes'
    BY <2>1, <2>2, <2>3, <2>4 DEF PinTypes, Holding, Sending
  <2>6. \A h \in Hosts : Pinned(h) => pins'[h] = pins[h]
    BY <2>2 DEF PinTypes
  <2>7. \A q \in Reqs : q # r => rpc'[q] = rpc[q]
    BY <2>3 DEF PinTypes
  <2>8. rlink'[r] = l
    BY <2>1 DEF PinTypes
  <2> QED
    BY <2>2, <2>5, <2>6, <2>7, <2>8 DEF RequestKeepsPins
<1>2. CASE NoLinkToPick(r)
  <2>1. ~Pinned(host[r]) /\ pins' = [pins EXCEPT ![host[r]] = NoLink]
    BY <1>2 DEF NoLinkToPick, PickForHostFails
  <2>2. rpc' = [rpc EXCEPT ![r] = "done"] /\ UNCHANGED <<host, rlink>>
    BY <1>2 DEF NoLinkToPick
  <2>3. PinTypes'
    BY <2>1, <2>2 DEF PinTypes
  <2>4. \A h \in Hosts : Pinned(h) => pins'[h] = pins[h]
    BY <2>1 DEF PinTypes
  <2>5. \A q \in Reqs : q # r => rpc'[q] = rpc[q]
    BY <2>2 DEF PinTypes
  <2> QED
    BY <2>1, <2>3, <2>4, <2>5 DEF RequestKeepsPins
<1>3. ASSUME rpc[r] # "picking", UNCHANGED <<pins, host>>,
             \E p \in Holding \cup {"picking", "repicking", "splitting", "done"} :
               rpc' = [rpc EXCEPT ![r] = p],
             UNCHANGED rlink \/ \E l \in Links : rlink' = [rlink EXCEPT ![r] = l]
      PROVE  PinTypes' /\ RequestKeepsPins
  <2>1. PinTypes'
    BY <1>3 DEF PinTypes
  <2>2. \A q \in Reqs : q # r => rpc'[q] = rpc[q]
    BY <1>3 DEF PinTypes
  <2> QED
    BY <1>3, <2>1, <2>2 DEF RequestKeepsPins
<1>4. CASE Arrive(r)
  BY <1>3, <1>4 DEF Arrive
<1>5. CASE RoundTripOK(r) \/ InspectSplit(r) \/ InspectStream(r) \/ UpgradeOK(r)
  BY <1>3, <1>5 DEF RoundTripOK, InspectSplit, InspectStream, UpgradeOK, Holding, Sending
<1>6. CASE BindFails(r) \/ BadCertificate(r) \/ RoundTripFails(r)
  BY <1>3, <1>6 DEF BindFails, BadCertificate, RoundTripFails, Fails, Holding, Sending
<1>7. CASE Repick(r) \/ RepickFails(r)
  BY <1>3, <1>7 DEF Repick, RepickFails, Taken, Holding, Sending
<1>8. CASE LetGo(r) \/ EnterSplit(r) \/ StreamEnds(r) \/ UpgradeFails(r) \/ SpliceEnds(r)
  BY <1>3, <1>8 DEF LetGo, EnterSplit, StreamEnds, UpgradeFails, SpliceEnds, Holding, Sending
<1>9. CASE StreamCopy(r)
  BY <1>9 DEF StreamCopy, fwdVars, PinTypes, RequestKeepsPins
<1> QED
  BY <1>1, <1>2, <1>4, <1>5, <1>6, <1>7, <1>8, <1>9 DEF Request, Respond

LEMMA PinFrame ==
  ASSUME PinTypes, UNCHANGED <<pins, fwdVars>>
  PROVE  PinTypes' /\ RequestKeepsPins
BY DEF fwdVars, PinTypes, RequestKeepsPins

LEMMA PinNext == PinTypes /\ [Next]_vars => PinTypes' /\ RequestKeepsPins
<1> SUFFICES ASSUME PinTypes, [Next]_vars PROVE PinTypes' /\ RequestKeepsPins
  OBVIOUS
<1>1. CASE \E r \in Reqs : Request(r) /\ UNCHANGED dialVars
  BY <1>1, PinStep
<1>2. CASE \E c \in Conns : Connection(c) /\ UNCHANGED fwdVars
  <2>1. UNCHANGED pins
    BY <1>2 DEF Connection, Answer, ReadTarget, Bypass, Choose, ChooseNone, DialOK, DialFails,
                Copy, Close, Sample, dialFrame
  <2> QED
    BY <1>2, <2>1, PinFrame
<1>3. CASE BalancerNext /\ UNCHANGED <<dialVars, fwdVars>>
  <2>1. UNCHANGED pins
    BY <1>3 DEF BalancerNext, Scanner, Enumerate, EnumerateFails, Probe, ProbeOK, ProbeFails,
                ScanEnds, MarkGone, TurnStale, Flap, scanFrame
  <2> QED
    BY <1>3, <2>1, PinFrame
<1>4. CASE UNCHANGED vars
  BY <1>4, PinFrame DEF vars, balVars
<1> QED
  BY <1>1, <1>2, <1>3, <1>4 DEF Next

LEMMA PinAlways == Spec => []PinTypes
<1>1. Init => PinTypes
  BY DEF Init, BalancerInit, ForwardInit, PinTypes
<1> QED
  BY <1>1, PinNext, PTL DEF Spec

\* A host stays pinned to its link for as long as the link is healthy, and its
\* requests go over it, however many run at once.
THEOREM PinsHold == Spec => PinHolds
<1>1. PinTypes /\ [Next]_vars => [RequestKeepsPins]_vars
  BY PinNext
<1> QED
  BY <1>1, PinAlways, PTL DEF Spec, PinHolds, RequestKeepsPins

(***************************************************************************)
(* Answers of the dial layer.                                              *)
(***************************************************************************)
AnswerInv ==
  /\ cpc \in [Conns -> Using \cup {"new", "bypass", "choosing", "closing", "done"}]
  /\ failed \in [Conns -> Nat]
  /\ reply \in [Conns -> {"none", "success", "no links", "dial failed"}]
  /\ \A c \in Conns : reply[c] = "no links" => failed[c] = 0 /\ cpc[c] = "done"

LEMMA AnswerStep ==
  ASSUME AnswerInv, NEW c \in Conns, Connection(c)
  PROVE  AnswerInv'
<1> USE DEF Goto, Tell
<1>a. failed \in [Conns -> Nat]
  BY DEF AnswerInv
<1>1. CASE ReadTarget(c) \/ Choose(c)
  BY <1>1 DEF ReadTarget, Choose, AnswerInv, Using
<1>2. CASE Bypass(c) \/ DialOK(c)
  BY <1>2 DEF Bypass, DialOK, AnswerInv, Using
<1>3. CASE ChooseNone(c)
  <2>1. /\ cpc' = [cpc EXCEPT ![c] = "done"] /\ failed' = failed
        /\ reply' = [reply EXCEPT ![c] = WhenNone(c)]
    BY <1>3 DEF ChooseNone
  <2>2. CASE failed[c] > 0
    <3>1. reply' = [reply EXCEPT ![c] = "dial failed"]
      BY <2>1, <2>2 DEF WhenNone
    <3> QED
      BY <2>1, <3>1 DEF AnswerInv, Using
  <2>3. CASE ~(failed[c] > 0)
    <3>1. failed[c] = 0
      BY <1>a, <2>3
    <3>2. reply' = [reply EXCEPT ![c] = "no links"]
      BY <2>1, <2>3 DEF WhenNone
    <3> QED
      BY <2>1, <3>1, <3>2 DEF AnswerInv, Using
  <2> QED
    BY <2>2, <2>3
<1>4. CASE DialFails(c)
  <2>1. failed' = [failed EXCEPT ![c] = failed[c] + 1]
    BY <1>4 DEF DialFails, Attempts
  <2>2. failed' \in [Conns -> Nat] /\ \A b \in Conns : b # c => failed'[b] = failed[b]
    BY <1>a, <2>1
  <2>3. \/ /\ cpc' = [cpc EXCEPT ![c] = "done"]
           /\ reply' = [reply EXCEPT ![c] = "dial failed"]
        \/ cpc' = [cpc EXCEPT ![c] = "choosing"] /\ reply' = reply /\ cpc[c] = "dialing"
    BY <1>4 DEF DialFails
  <2> QED
    BY <2>2, <2>3 DEF AnswerInv, Using
<1>5. CASE Copy(c)
  BY <1>5 DEF Copy, AnswerInv
<1>6. CASE Close(c) \/ Sample(c)
  BY <1>6 DEF Close, Sample, AnswerInv, Using
<1> QED
  BY <1>1, <1>2, <1>3, <1>4, <1>5, <1>6 DEF Connection, Answer

LEMMA AnswerAlways == Spec => []AnswerInv
<1>1. Init => AnswerInv
  BY DEF Init, DialInit, AnswerInv
<1>2. AnswerInv /\ [Next]_vars => AnswerInv'
  <2> SUFFICES ASSUME AnswerInv, [Next]_vars PROVE AnswerInv'
    OBVIOUS
  <2>1. CASE \E c \in Conns : Connection(c)
    BY <2>1, AnswerStep
  <2>2. CASE UNCHANGED dialVars
    BY <2>2 DEF dialVars, AnswerInv
  <2> QED
    BY <2>1, <2>2 DEF Next, vars
<1> QED
  BY <1>1, <1>2, PTL DEF Spec

\* A client is told that there is no healthy link only if nothing was dialed
\* for it: an earlier dial's error is never covered up.
THEOREM NoLinksMeansNoDial == Spec => []AnswerNamesCause
<1>1. AnswerInv => AnswerNamesCause
  BY DEF AnswerInv, AnswerNamesCause
<1> QED
  BY <1>1, AnswerAlways, PTL

(***************************************************************************)
(* Types.  What the theorems above rest on types the counts, the pins and  *)
(* who holds what; the rest is here, each part with the actors that change *)
(* it.                                                                     *)
(***************************************************************************)
LinkTypes ==
  /\ links \in Seq(Links)
  /\ \A i, j \in DOMAIN links : links[i] = links[j] => i = j
  /\ healthy \in [Links -> BOOLEAN]
  /\ \A l \in Links : healthy[l] => \E i \in DOMAIN links : links[i] = l

ScanTypes ==
  /\ localIP \in [Links -> Addresses] /\ latency \in [Links -> Latencies]
  /\ scan \in {"idle", "probing"} /\ serving \in BOOLEAN
  /\ found \subseteq Links \X Addresses /\ seen \subseteq Links
  /\ osUp \in [Links -> BOOLEAN] /\ osIP \in [Links -> Addresses]
  /\ flaps \in 0 .. MaxFlaps

EWMA == [samples : 0 .. ColdStart, rate : Nat, fresh : BOOLEAN]

MeterTypes ==
  /\ turn \in Nat /\ bytesIn \in [Links -> 0 .. MaxUnits]
  /\ stats \in [Links -> EWMA]

CallTypes ==
  /\ failed \in [Conns -> 0 .. MaxDials]
  /\ \A c \in Conns : cpc[c] \in {"new", "choosing", "dialing"} => failed[c] < MaxDials
  /\ start \in [Conns -> Nat] /\ moved \in [Conns -> Nat]

ReqTypes ==
  /\ kind \in [Reqs -> {"get", "post", "upload", "upgrade"}]
  /\ outcome \in [Reqs -> {"none", "no links", "bad gateway", "panic", "split", "streamed"}]

TypeInv == LinkTypes /\ ScanTypes /\ MeterTypes /\ CallTypes /\ ReqTypes

LEMMA InitTypes == Init => TypeInv
<1> SUFFICES ASSUME Init PROVE TypeInv
  OBVIOUS
<1>1. LinkTypes
  BY DEF Init, BalancerInit, LinkTypes
<1>2. AnyOf(Addresses) \in Addresses /\ AnyOf(Latencies) \in Latencies
  BY BalancerAssumption DEF AnyOf
<1>3. ScanTypes
  <2>1. localIP \in [Links -> Addresses] /\ latency \in [Links -> Latencies] /\ osIP = localIP
    BY <1>2 DEF Init, BalancerInit
  <2>2. /\ scan = "idle" /\ found = {} /\ seen = {} /\ serving = FALSE
        /\ osUp \in [Links -> BOOLEAN] /\ flaps = 0
    BY DEF Init, BalancerInit
  <2>3. 0 \in 0 .. MaxFlaps
    BY BalancerAssumption
  <2> QED
    BY <2>1, <2>2, <2>3 DEF ScanTypes
<1>4. MeterTypes
  BY BalancerAssumption DEF Init, BalancerInit, MeterTypes, EWMA, Unsampled
<1>5. CallTypes
  BY DialAssumption DEF Init, DialInit, CallTypes
<1>6. ReqTypes
  BY DEF Init, ForwardInit, ReqTypes
<1> QED
  BY <1>1, <1>3, <1>4, <1>5, <1>6 DEF TypeInv

\* Upsert keeps a name once in b.links.
LEMMA WithLinkTypes ==
  ASSUME LinkTypes, NEW a \in Links
  PROVE  /\ WithLink(a) \in Seq(Links)
         /\ \A i, j \in DOMAIN WithLink(a) : WithLink(a)[i] = WithLink(a)[j] => i = j
         /\ \E i \in DOMAIN WithLink(a) : WithLink(a)[i] = a
         /\ \A l \in Links : (\E i \in DOMAIN links : links[i] = l) =>
                             \E i \in DOMAIN WithLink(a) : WithLink(a)[i] = l
<1>1. CASE \E i \in DOMAIN links : links[i] = a
  BY <1>1 DEF WithLink, LinkTypes
<1>2. CASE ~\E i \in DOMAIN links : links[i] = a
  <2>1. WithLink(a) = Append(links, a) /\ links \in Seq(Links)
    BY <1>2 DEF WithLink, LinkTypes
  <2>2. /\ Append(links, a) \in Seq(Links)
        /\ DOMAIN links = 1 .. Len(links) /\ Len(links) \in Nat
        /\ DOMAIN Append(links, a) = 1 .. Len(links) + 1
        /\ Append(links, a)[Len(links) + 1] = a
        /\ \A i \in 1 .. Len(links) : Append(links, a)[i] = links[i]
    BY <2>1
  <2>3. \A i \in 1 .. Len(links) + 1 : i \in 1 .. Len(links) \/ i = Len(links) + 1
    BY <2>2
  <2> QED
    BY <1>2, <2>1, <2>2, <2>3 DEF LinkTypes
<1> QED
  BY <1>1, <1>2

LEMMA BalancerTypes ==
  ASSUME TypeInv, BalancerNext
  PROVE  LinkTypes' /\ ScanTypes' /\ MeterTypes'
<1> USE DEF TypeInv
<1>1. CASE Enumerate \/ EnumerateFails \/ ScanEnds
  <2>1. UNCHANGED <<links, healthy, localIP, latency, turn, stats, bytesIn, osUp, osIP, flaps>>
    BY <1>1 DEF Enumerate, EnumerateFails, ScanEnds, scanFrame, linkVars, pickVars, osVars
  <2>2. /\ scan' \in {"idle", "probing"} /\ serving' \in BOOLEAN
        /\ found' \subseteq Links \X Addresses /\ seen' \subseteq Links
    <3>1. CASE Enumerate
      <4>1. scan' = "probing" /\ UNCHANGED <<seen, serving>>
            /\ found' = {<<a, osIP[a]>> : a \in {b \in Links : osUp[b]}}
        BY <3>1 DEF Enumerate
      <4>2. found' \subseteq Links \X Addresses
        BY <4>1 DEF ScanTypes
      <4> QED
        BY <4>1, <4>2 DEF ScanTypes
    <3>2. CASE EnumerateFails \/ ScanEnds
      BY <3>2 DEF EnumerateFails, ScanEnds, ScanTypes
    <3> QED
      BY <1>1, <3>1, <3>2
  <2> QED
    BY <2>1, <2>2 DEF LinkTypes, ScanTypes, MeterTypes
<1>2. ASSUME NEW p \in found, ProbeOK(p)
      PROVE  LinkTypes' /\ ScanTypes' /\ MeterTypes'
  <2>1. p[1] \in Links /\ p[2] \in Addresses
    BY DEF ScanTypes
  <2>2. /\ links' = WithLink(p[1]) /\ healthy' = [healthy EXCEPT ![p[1]] = TRUE]
        /\ localIP' = [localIP EXCEPT ![p[1]] = p[2]]
        /\ \E t \in Latencies : latency' = [latency EXCEPT ![p[1]] = t]
        /\ found' = found \ {p} /\ seen' = seen \cup {p[1]}
        /\ UNCHANGED <<scan, serving, turn, stats, bytesIn, osUp, osIP, flaps>>
    BY <1>2 DEF ProbeOK, scanFrame, pickVars, osVars
  <2>3. LinkTypes'
    <3>1. healthy' \in [Links -> BOOLEAN] /\ \A l \in Links : l # p[1] => healthy'[l] = healthy[l]
      BY <2>2 DEF LinkTypes
    <3>2. /\ links' \in Seq(Links)
          /\ \A i, j \in DOMAIN links' : links'[i] = links'[j] => i = j
      BY <2>1, <2>2, WithLinkTypes
    <3>3. ASSUME NEW l \in Links, healthy'[l]
          PROVE  \E i \in DOMAIN links' : links'[i] = l
      <4>1. CASE l = p[1]
        BY <4>1, <2>1, <2>2, WithLinkTypes
      <4>2. CASE l # p[1]
        <5>1. healthy[l] /\ l \in Links
          BY <4>2, <3>1, <3>3
        <5>2. \E i \in DOMAIN links : links[i] = l
          BY <5>1 DEF LinkTypes
        <5>3. LinkTypes
          OBVIOUS
        <5>4. \A k \in Links : (\E i \in DOMAIN links : links[i] = k) =>
                             \E i \in DOMAIN WithLink(p[1]) : WithLink(p[1])[i] = k
          BY ONLY <2>1, <5>3, WithLinkTypes
        <5> QED
          BY <5>1, <5>2, <5>4, <2>2
      <4> QED
        BY <4>1, <4>2
    <3> QED
      BY <3>1, <3>2, <3>3 DEF LinkTypes
  <2>4. ScanTypes'
    BY <2>1, <2>2 DEF ScanTypes
  <2> QED
    BY <2>2, <2>3, <2>4 DEF MeterTypes
<1>3. ASSUME NEW l \in Links, healthy' = [healthy EXCEPT ![l] = FALSE],
             UNCHANGED <<links, localIP, latency, scan, serving, seen, scanFrame>>,
             found' \subseteq found
      PROVE  LinkTypes' /\ ScanTypes' /\ MeterTypes'
  <2>1. UNCHANGED <<turn, stats, bytesIn, osUp, osIP, flaps>>
    BY <1>3 DEF scanFrame, pickVars, osVars
  <2>2. healthy' \in [Links -> BOOLEAN] /\ \A k \in Links : healthy'[k] => healthy[k]
    BY <1>3 DEF LinkTypes
  <2> QED
    BY <1>3, <2>1, <2>2 DEF LinkTypes, ScanTypes, MeterTypes
<1>4. ASSUME NEW p \in found, ProbeFails(p)
      PROVE  LinkTypes' /\ ScanTypes' /\ MeterTypes'
  <2>1. p[1] \in Links
    BY DEF ScanTypes
  <2> QED
    BY <1>3, <1>4, <2>1 DEF ProbeFails
<1>5. ASSUME NEW l \in Links, MarkGone(l)
      PROVE  LinkTypes' /\ ScanTypes' /\ MeterTypes'
  BY <1>3, <1>5 DEF MarkGone, scanVars
<1>6. ASSUME NEW l \in Links, TurnStale(l)
      PROVE  LinkTypes' /\ ScanTypes' /\ MeterTypes'
  <2>1. stats' = [stats EXCEPT ![l].fresh = FALSE]
        /\ UNCHANGED <<links, healthy, localIP, latency, scan, serving, found, seen, turn,
                       bytesIn, osUp, osIP, flaps>>
    BY <1>6 DEF TurnStale, linkVars, pickVars, scanVars, osVars
  <2>2. stats' \in [Links -> EWMA]
    BY <2>1 DEF MeterTypes, EWMA
  <2> QED
    BY <2>1, <2>2 DEF LinkTypes, ScanTypes, MeterTypes
<1>7. ASSUME NEW l \in Links, Flap(l)
      PROVE  LinkTypes' /\ ScanTypes' /\ MeterTypes'
  <2>1. UNCHANGED <<links, healthy, localIP, latency, scan, serving, found, seen, turn, stats, bytesIn>>
    BY <1>7 DEF Flap, linkVars, pickVars, scanVars
  <2>2. flaps' \in 0 .. MaxFlaps
    BY <1>7, BalancerAssumption DEF Flap, ScanTypes
  <2>3. osUp' \in [Links -> BOOLEAN] /\ osIP' \in [Links -> Addresses]
    BY <1>7 DEF Flap, ScanTypes
  <2> QED
    BY <2>1, <2>2, <2>3 DEF LinkTypes, ScanTypes, MeterTypes
<1> QED
  BY <1>1, <1>2, <1>4, <1>5, <1>6, <1>7 DEF BalancerNext, Scanner, Probe

\* A pick moves the turn, a copied unit the count of its link.
LEMMA PickTypes ==
  ASSUME turn \in Nat, turn' = NextTurn \/ turn' = turn
  PROVE  turn' \in Nat
BY DEF NextTurn

LEMMA CountTypes ==
  ASSUME MeterTypes, NEW l \in Links, Count(l)
  PROVE  bytesIn' \in [Links -> 0 .. MaxUnits]
<1>1. bytesIn' = [bytesIn EXCEPT ![l] = bytesIn[l] + 1] /\ bytesIn[l] < MaxUnits
  BY DEF Count
<1>2. bytesIn \in [Links -> 0 .. MaxUnits]
  BY DEF MeterTypes
<1> QED
  BY <1>1, <1>2, BalancerAssumption

\* The EWMA stays between its samples.
LEMMA SampleTypes ==
  ASSUME MeterTypes, NEW l \in Links, NEW n, RecordSample(l, n)
  PROVE  stats' \in [Links -> EWMA]
<1>1. PICK st \in Sampled(stats[l], n) : stats' = [stats EXCEPT ![l] = st]
  BY DEF RecordSample
<1>2. /\ stats[l] \in EWMA /\ stats[l].samples \in 0 .. ColdStart
      /\ stats[l].rate \in Nat /\ ColdStart \in Nat
  BY BalancerAssumption DEF MeterTypes, EWMA
<1>3. st \in EWMA
  <2>1. CASE st = stats[l]
    BY <2>1, <1>2
  <2>2. ASSUME NEW r \in UNION {IF stats[l].samples = 0 THEN {bps}
                                ELSE Between(stats[l].rate, bps) : bps \in Rates},
               st = [samples |-> IF stats[l].samples < ColdStart
                                 THEN stats[l].samples + 1 ELSE stats[l].samples,
                     rate |-> r, fresh |-> TRUE]
        PROVE  st \in EWMA
    <3>1. PICK bps \in Rates : r \in (IF stats[l].samples = 0 THEN {bps}
                                     ELSE Between(stats[l].rate, bps))
      BY <2>2
    <3>2. bps \in Nat
      BY BalancerAssumption
    <3>3. r \in Nat
      BY <1>2, <3>1, <3>2 DEF Between
    <3>4. (IF stats[l].samples < ColdStart
           THEN stats[l].samples + 1 ELSE stats[l].samples) \in 0 .. ColdStart
      BY <1>2
    <3> QED
      BY <2>2, <3>3, <3>4 DEF EWMA
  <2> QED
    BY <2>1, <2>2 DEF Sampled
<1> QED
  BY <1>1, <1>3 DEF MeterTypes

LEMMA ConnTypes ==
  ASSUME AccountInv, TypeInv, NEW c \in Conns, Connection(c)
  PROVE  MeterTypes' /\ CallTypes' /\ UNCHANGED <<linkVars, scanVars, osVars>>
<1> USE DEF Goto, TypeInv
<1>a. /\ turn \in Nat /\ bytesIn \in [Links -> 0 .. MaxUnits]
      /\ stats \in [Links -> EWMA]
  BY DEF MeterTypes
<1>b. /\ failed \in [Conns -> 0 .. MaxDials]
      /\ \A b \in Conns : cpc[b] \in {"new", "choosing", "dialing"} => failed[b] < MaxDials
      /\ start \in [Conns -> Nat] /\ moved \in [Conns -> Nat]
  BY DEF CallTypes
<1>c. /\ DOMAIN cpc = Conns
      /\ cpc[c] \in Using => clink[c] \in Links
  BY DEF AccountInv, AccountTypes, HoldersHaveLinks
<1>1. UNCHANGED <<linkVars, scanVars, osVars>>
  BY DEF Connection, Answer, ReadTarget, Bypass, Choose, ChooseNone, DialOK, DialFails,
         Copy, Close, Sample, dialFrame
<1>2. CASE ReadTarget(c) \/ Bypass(c) \/ Choose(c) \/ ChooseNone(c)
  <2>1. UNCHANGED <<failed, start, moved, stats, bytesIn>> /\ (turn' = NextTurn \/ turn' = turn)
    BY <1>2 DEF ReadTarget, Bypass, Choose, ChooseNone, Pick, pickVars
  <2>2. /\ cpc[c] \in {"new", "bypass", "choosing"}
        /\ \E p \in {"choosing", "bypass", "dialing", "done"} :
             /\ cpc' = [cpc EXCEPT ![c] = p]
             /\ cpc[c] = "bypass" => p = "done"
    BY <1>2 DEF ReadTarget, Bypass, Choose, ChooseNone
  <2>3. MeterTypes'
    BY <1>a, <2>1, PickTypes DEF MeterTypes
  <2>4. CallTypes'
    BY <1>b, <1>c, <2>1, <2>2 DEF CallTypes
  <2> QED
    BY <1>1, <2>3, <2>4
<1>3. CASE DialOK(c)
  <2>1. /\ cpc[c] \in Using /\ cpc' = [cpc EXCEPT ![c] = "open"]
        /\ start' = [start EXCEPT ![c] = bytesIn[clink[c]]]
        /\ UNCHANGED <<failed, moved, turn, stats, bytesIn>>
    BY <1>3 DEF DialOK, Using, pickVars
  <2>2. bytesIn[clink[c]] \in Nat
    BY <1>a, <1>c, <2>1
  <2>3. start' \in [Conns -> Nat]
    BY <1>b, <2>1, <2>2
  <2> QED
    BY <1>1, <1>a, <1>b, <1>c, <2>1, <2>3 DEF MeterTypes, CallTypes
<1>4. CASE DialFails(c)
  <2>1. /\ cpc[c] = "dialing" /\ failed' = [failed EXCEPT ![c] = failed[c] + 1]
        /\ UNCHANGED <<start, moved, turn, stats, bytesIn>>
    BY <1>4 DEF DialFails, Attempts
  <2>2. \/ cpc' = [cpc EXCEPT ![c] = "done"]
        \/ cpc' = [cpc EXCEPT ![c] = "choosing"] /\ ~(failed[c] + 1 >= MaxDials)
    BY <1>4 DEF DialFails, LastDial, Attempts
  <2>3. failed[c] \in 0 .. MaxDials /\ failed[c] < MaxDials /\ MaxDials \in Nat
    BY <1>b, <2>1, DialAssumption
  <2>4. /\ failed' \in [Conns -> 0 .. MaxDials] /\ failed'[c] = failed[c] + 1
        /\ \A b \in Conns : b # c => failed'[b] = failed[b] /\ cpc'[b] = cpc[b]
    BY <1>b, <1>c, <2>1, <2>2, <2>3
  <2>5. cpc'[c] \in {"new", "choosing", "dialing"} => failed'[c] < MaxDials
    BY <1>c, <2>2, <2>3, <2>4
  <2>6. \A b \in Conns : cpc'[b] \in {"new", "choosing", "dialing"} => failed'[b] < MaxDials
    BY <1>b, <2>4, <2>5
  <2> QED
    BY <1>1, <1>a, <1>b, <2>1, <2>4, <2>6 DEF MeterTypes, CallTypes
<1>5. CASE Copy(c)
  <2>1. /\ Count(clink[c]) /\ clink[c] \in Links /\ moved' = [moved EXCEPT ![c] = moved[c] + 1]
        /\ UNCHANGED <<cpc, failed, start, turn, stats>>
    BY <1>5, <1>c DEF Copy, Using, pickVars
  <2>2. moved' \in [Conns -> Nat]
    BY <1>b, <2>1
  <2>3. bytesIn' \in [Links -> 0 .. MaxUnits]
    BY <2>1, CountTypes
  <2> QED
    BY <1>1, <1>a, <1>b, <2>1, <2>2, <2>3 DEF MeterTypes, CallTypes
<1>6. CASE Close(c)
  <2>1. /\ cpc' = [cpc EXCEPT ![c] = "closing"]
        /\ UNCHANGED <<failed, start, moved, turn, stats, bytesIn>>
    BY <1>6 DEF Close, pickVars
  <2> QED
    BY <1>1, <1>a, <1>b, <1>c, <2>1 DEF MeterTypes, CallTypes
<1>7. CASE Sample(c)
  <2>1. /\ cpc' = [cpc EXCEPT ![c] = "done"]
        /\ UNCHANGED <<failed, start, moved, turn, bytesIn>>
        /\ RecordSample(clink[c], SampleOf(c)) \/ UNCHANGED stats
    BY <1>7 DEF Sample, pickVars
  <2>2. stats' \in [Links -> EWMA]
    <3>1. CASE clink[c] \in Links
      BY <1>a, <2>1, <3>1, SampleTypes
    <3>2. CASE clink[c] \notin Links
      BY <1>a, <2>1, <3>2 DEF RecordSample
    <3> QED
      BY <3>1, <3>2
  <2> QED
    BY <1>1, <1>a, <1>b, <1>c, <2>1, <2>2 DEF MeterTypes, CallTypes
<1> QED
  BY <1>1, <1>2, <1>3, <1>4, <1>5, <1>6, <1>7 DEF Connection, Answer

LEMMA RequestTypes ==
  ASSUME AccountInv, TypeInv, NEW r \in Reqs, Request(r)
  PROVE  MeterTypes' /\ ReqTypes' /\ UNCHANGED <<linkVars, scanVars, osVars>>
<1> USE DEF At, Ends, TypeInv
<1>1. UNCHANGED <<linkVars, scanVars, osVars>>
  BY DEF Request, Respond, Arrive, PickLink, NoLinkToPick, RoundTripOK, BindFails, Repick,
         RepickFails, BadCertificate, RoundTripFails, InspectSplit, InspectStream, LetGo,
         EnterSplit, UpgradeOK, UpgradeFails, StreamCopy, StreamEnds, SpliceEnds, fwdFrame
<1>2. MeterTypes'
  <2>1. CASE StreamCopy(r)
    <3>1. Count(rlink[r]) /\ rlink[r] \in Links /\ UNCHANGED <<turn, stats>>
      BY <2>1 DEF StreamCopy, pickVars, AccountInv, HoldersHaveLinks, Holding, Sending
    <3> QED
      BY <3>1, CountTypes DEF MeterTypes
  <2>2. CASE ~StreamCopy(r)
    <3>1. UNCHANGED <<stats, bytesIn>> /\ (turn' = NextTurn \/ turn' = turn)
      BY <2>2 DEF Request, Respond, Arrive, PickLink, NoLinkToPick, RoundTripOK, BindFails,
         Repick, RepickFails, BadCertificate, RoundTripFails, InspectSplit, InspectStream,
         LetGo, EnterSplit, UpgradeOK, UpgradeFails, StreamEnds, SpliceEnds, fwdFrame,
         pickVars, PickForHost, Pick
    <3> QED
      BY <3>1, PickTypes DEF MeterTypes
  <2> QED
    BY <2>1, <2>2
<1>3. kind' \in [Reqs -> {"get", "post", "upload", "upgrade"}]
  <2>1. CASE Arrive(r)
    BY <2>1, ForwardAssumption DEF Arrive, ReqTypes
  <2>2. CASE ~Arrive(r)
    <3>1. UNCHANGED kind
      BY <2>2 DEF Request, Respond, PickLink, NoLinkToPick, RoundTripOK, BindFails, Repick,
         RepickFails, BadCertificate, RoundTripFails, InspectSplit, InspectStream, LetGo,
         EnterSplit, UpgradeOK, UpgradeFails, StreamCopy, StreamEnds, SpliceEnds, fwdVars
    <3> QED
      BY <3>1 DEF ReqTypes
  <2> QED
    BY <2>1, <2>2
<1>4. outcome' \in [Reqs -> {"none", "no links", "bad gateway", "panic", "split", "streamed"}]
  <2>1. CASE EnterSplit(r)
    <3>1. \/ outcome' = [outcome EXCEPT ![r] = "panic"]
          \/ outcome' = [outcome EXCEPT ![r] = "split"]
      BY <2>1 DEF EnterSplit
    <3> QED
      BY <3>1 DEF ReqTypes
  <2>2. CASE NoLinkToPick(r)
    BY <2>2 DEF NoLinkToPick, ReqTypes
  <2>3. CASE RepickFails(r) \/ RoundTripFails(r) \/ UpgradeFails(r)
    BY <2>3 DEF RepickFails, RoundTripFails, UpgradeFails, ReqTypes
  <2>4. CASE StreamEnds(r) \/ SpliceEnds(r)
    BY <2>4 DEF StreamEnds, SpliceEnds, ReqTypes
  <2>5. CASE \/ Arrive(r) \/ PickLink(r) \/ RoundTripOK(r) \/ BindFails(r) \/ Repick(r)
             \/ BadCertificate(r) \/ InspectSplit(r) \/ InspectStream(r) \/ LetGo(r)
             \/ UpgradeOK(r) \/ StreamCopy(r)
    <3>1. UNCHANGED outcome
      BY <2>5 DEF Arrive, PickLink, RoundTripOK, BindFails, Repick, BadCertificate,
         InspectSplit, InspectStream, LetGo, UpgradeOK, StreamCopy, fwdVars
    <3> QED
      BY <3>1 DEF ReqTypes
  <2> QED
    BY <2>1, <2>2, <2>3, <2>4, <2>5 DEF Request, Respond
<1> QED
  BY <1>1, <1>2, <1>3, <1>4 DEF ReqTypes

LEMMA TypeStep == AccountInv /\ TypeInv /\ [Next]_vars => TypeInv'
<1> SUFFICES ASSUME AccountInv, TypeInv, [Next]_vars PROVE TypeInv'
  OBVIOUS
<1>1. UNCHANGED <<linkVars, scanVars, osVars>> => LinkTypes' /\ ScanTypes'
  BY DEF linkVars, scanVars, osVars, TypeInv, LinkTypes, ScanTypes
<1>2. UNCHANGED dialVars => CallTypes'
  BY DEF dialVars, TypeInv, CallTypes
<1>3. UNCHANGED fwdVars => ReqTypes'
  BY DEF fwdVars, TypeInv, ReqTypes
<1>4. CASE BalancerNext /\ UNCHANGED <<dialVars, fwdVars>>
  BY <1>2, <1>3, <1>4, BalancerTypes DEF TypeInv
<1>5. CASE \E c \in Conns : Connection(c) /\ UNCHANGED fwdVars
  BY <1>1, <1>3, <1>5, ConnTypes DEF TypeInv
<1>6. CASE \E r \in Reqs : Request(r) /\ UNCHANGED dialVars
  BY <1>1, <1>2, <1>6, RequestTypes DEF TypeInv
<1>7. CASE UNCHANGED vars
  <2>1. UNCHANGED <<turn, stats, bytesIn>> /\ UNCHANGED <<linkVars, scanVars, osVars>>
        /\ UNCHANGED dialVars /\ UNCHANGED fwdVars
    BY <1>7 DEF vars, balVars, pickVars
  <2>2. MeterTypes'
    BY <2>1 DEF TypeInv, MeterTypes
  <2> QED
    BY <1>1, <1>2, <1>3, <2>1, <2>2 DEF TypeInv
<1> QED
  BY <1>4, <1>5, <1>6, <1>7 DEF Next

\* The whole state of balancer, scan, dials and forwards is well typed; in
\* particular no count of a link goes below zero, no dial exceeds its budget,
\* no name is in b.links twice, and a healthy link is in it.
THEOREM ProxyTypes == Spec => []TypeOK
<1>1. TypeInv /\ AccountInv /\ SentInv /\ PinTypes /\ AnswerInv => TypeOK
  <2> SUFFICES ASSUME TypeInv, AccountInv, SentInv, PinTypes, AnswerInv PROVE TypeOK
    OBVIOUS
  <2>1. active \in [Links -> Nat]
    <3>1. \A l \in Links : active[l] \in Nat
      BY Counts DEF AccountInv, ActiveIsInUse
    <3> QED
      BY <3>1 DEF AccountInv, AccountTypes
  <2>2. \A l \in Links : /\ stats[l].samples \in 0 .. ColdStart
                         /\ stats[l].fresh \in BOOLEAN /\ stats[l].rate \in Nat
    BY DEF TypeInv, MeterTypes, EWMA
  <2> QED
    BY <2>1, <2>2 DEF TypeOK, TypeInv, LinkTypes, ScanTypes, MeterTypes, CallTypes, ReqTypes,
                      AccountInv, AccountTypes, SentInv, PinTypes, AnswerInv
<1> QED
  BY <1>1, InitTypes, TypeStep, InitAccount, AccountStep, SentAlways, PinAlways, AnswerAlways,
     PTL DEF Spec

(***************************************************************************)
(* The refinement: Proxy implements LinkPool.                              *)
(***************************************************************************)

\* What is chosen is healthy; nothing is chosen only if nothing is.
LEMMA ChoicesAreHealthy ==
  ASSUME LinkTypes
  PROVE  /\ \A l \in Choices : l \in Links /\ healthy[l]
         /\ NothingToPick => \A l \in Links : ~healthy[l]
<1>1. \A i \in Up : links[i] \in Links /\ healthy[links[i]]
  BY DEF Up, LinkTypes
<1>2. ByScore \subseteq Up /\ ByTurn \subseteq Up
  BY DEF ByScore, ByTurn
<1>3. \A l \in Choices : l \in Links /\ healthy[l]
  BY <1>1, <1>2 DEF Choices
<1>4. NothingToPick => \A l \in Links : ~healthy[l]
  BY DEF NothingToPick, Up, LinkTypes
<1> QED
  BY <1>3, <1>4

ConnId(c) == <<"connection", c>>
ReqId(r)  == <<"request", r>>

\* What the pool sees of one caller.
LEMMA CallerViews ==
  /\ \A c \in Conns : /\ ConnId(c) \in Callers
                      /\ Asks[ConnId(c)] = ConnAsks(c) /\ Lent[ConnId(c)] = ConnLent(c)
  /\ \A r \in Reqs : /\ ReqId(r) \in Callers
                     /\ Asks[ReqId(r)] = ReqAsks(r) /\ Lent[ReqId(r)] = ReqLent(r)
BY DEF Callers, ConnId, ReqId, Asks, Lent

\* A step of one connection changes the view of that connection only.
LEMMA ConnView ==
  ASSUME NEW c \in Conns, NEW p, cpc' = [cpc EXCEPT ![c] = p],
         cpc \in [Conns -> Using \cup {"new", "bypass", "choosing", "closing", "done"}],
         \A d \in Conns \ {c} : clink'[d] = clink[d],
         UNCHANGED fwdVars
  PROVE  /\ Asks' = [Asks EXCEPT ![ConnId(c)] = ConnAsks(c)']
         /\ Lent' = [Lent EXCEPT ![ConnId(c)] = ConnLent(c)']
<1>1. \A r : ReqAsks(r)' = ReqAsks(r) /\ ReqLent(r)' = ReqLent(r)
  BY DEF fwdVars, ReqAsks, ReqLent
<1>2. \A d \in Conns \ {c} : ConnAsks(d)' = ConnAsks(d) /\ ConnLent(d)' = ConnLent(d)
  BY DEF ConnAsks, ConnLent
<1>3. \A u \in Callers : u[1] # "request" => u[2] \in Conns /\ (u # ConnId(c) => u[2] # c)
  BY DEF Callers, ConnId
<1>4. ConnId(c) \in Callers /\ ConnId(c)[1] # "request" /\ ConnId(c)[2] = c
  BY DEF Callers, ConnId
<1>5. Asks' = [Asks EXCEPT ![ConnId(c)] = ConnAsks(c)']
  BY <1>1, <1>2, <1>3, <1>4 DEF Asks
<1>6. Lent' = [Lent EXCEPT ![ConnId(c)] = ConnLent(c)']
  BY <1>1, <1>2, <1>3, <1>4 DEF Lent
<1> QED
  BY <1>5, <1>6

\* A step of one request changes the view of that request only.
LEMMA ReqView ==
  ASSUME NEW r \in Reqs, NEW p, rpc' = [rpc EXCEPT ![r] = p],
         rpc \in [Reqs -> Holding \cup {"new", "picking", "repicking", "splitting", "done"}],
         \A q \in Reqs \ {r} : rlink'[q] = rlink[q],
         UNCHANGED host, UNCHANGED dialVars
  PROVE  /\ Asks' = [Asks EXCEPT ![ReqId(r)] = ReqAsks(r)']
         /\ Lent' = [Lent EXCEPT ![ReqId(r)] = ReqLent(r)']
<1>1. \A c : ConnAsks(c)' = ConnAsks(c) /\ ConnLent(c)' = ConnLent(c)
  BY DEF dialVars, ConnAsks, ConnLent
<1>2. \A q \in Reqs \ {r} : ReqAsks(q)' = ReqAsks(q) /\ ReqLent(q)' = ReqLent(q)
  BY DEF ReqAsks, ReqLent
<1>3. \A u \in Callers : u[1] = "request" => u[2] \in Reqs /\ (u # ReqId(r) => u[2] # r)
  BY DEF Callers, ReqId
<1>4. ReqId(r) \in Callers /\ ReqId(r)[1] = "request" /\ ReqId(r)[2] = r
  BY DEF Callers, ReqId
<1>5. Asks' = [Asks EXCEPT ![ReqId(r)] = ReqAsks(r)']
  BY <1>1, <1>2, <1>3, <1>4 DEF Asks
<1>6. Lent' = [Lent EXCEPT ![ReqId(r)] = ReqLent(r)']
  BY <1>1, <1>2, <1>3, <1>4 DEF Lent
<1> QED
  BY <1>5, <1>6

(***************************************************************************)
(* The steps of the pool, as a caller's view changes.                      *)
(***************************************************************************)
PoolInv == AccountInv /\ PinTypes /\ LinkTypes

LEMMA PoolLends ==
  ASSUME PoolInv, NEW u \in Callers, NEW l \in Links, healthy[l], Use(l),
         Lent[u] = NoLink,
         \/ Asks[u] = "anywhere" /\ UNCHANGED pins
         \/ Asks[u] \in Hosts /\ Pool!Pinned(Asks[u], l),
         Asks' = [Asks EXCEPT ![u] = "nothing"], Lent' = [Lent EXCEPT ![u] = l],
         UNCHANGED healthy
  PROVE  Pool!Next
<1>1. Pool!Lend(u, l)
  BY DEF Pool!Lend, Use
<1> QED
  BY <1>1 DEF Pool!Next

LEMMA PoolTurnsAway ==
  ASSUME PoolInv, NEW u \in Callers, NothingToPick,
         \/ Asks[u] = "anywhere" /\ UNCHANGED pins
         \/ Asks[u] \in Hosts /\ Pool!Pinned(Asks[u], NoLink),
         Asks' = [Asks EXCEPT ![u] = "nothing"], Lent' = Lent,
         UNCHANGED <<healthy, active>>
  PROVE  Pool!Next
<1>1. \A l \in Links : ~healthy[l]
  BY ChoicesAreHealthy DEF PoolInv
<1>2. Pool!TurnAway(u)
  BY <1>1 DEF Pool!TurnAway
<1> QED
  BY <1>2 DEF Pool!Next

LEMMA PoolGetsBack ==
  ASSUME NEW u \in Callers, NEW where \in {"nothing", "anywhere"}, Lent[u] # NoLink,
         active' = [active EXCEPT ![Lent[u]] = @ - 1],
         Asks' = [Asks EXCEPT ![u] = where], Lent' = [Lent EXCEPT ![u] = NoLink],
         UNCHANGED <<healthy, pins>>
  PROVE  Pool!Next
<1>1. Pool!GiveBack(u)
  BY DEF Pool!GiveBack
<1> QED
  BY <1>1 DEF Pool!Next

LEMMA PoolIsAsked ==
  ASSUME NEW u \in Callers, NEW where \in Hosts \cup {"anywhere"},
         Asks[u] = "nothing", Lent[u] = NoLink,
         Asks' = [Asks EXCEPT ![u] = where], Lent' = Lent,
         UNCHANGED <<healthy, pins, active>>
  PROVE  Pool!Next
<1>1. Pool!Ask(u)
  BY DEF Pool!Ask
<1> QED
  BY <1>1 DEF Pool!Next

\* A new value for a caller that is its old one changes nothing.
LEMMA SameView ==
  ASSUME NEW u \in Callers
  PROVE  [Asks EXCEPT ![u] = Asks[u]] = Asks /\ [Lent EXCEPT ![u] = Lent[u]] = Lent
BY DEF Asks, Lent

LEMMA ConnPoolStep ==
  ASSUME PoolInv, NEW c \in Conns, Connection(c), UNCHANGED fwdVars
  PROVE  Pool!Next \/ UNCHANGED Pool!vars
<1> USE DEF Goto
<1> DEFINE u == ConnId(c)
<1>1. /\ u \in Callers /\ Asks[u] = ConnAsks(c) /\ Lent[u] = ConnLent(c)
  BY CallerViews
<1>2. /\ cpc \in [Conns -> Using \cup {"new", "bypass", "choosing", "closing", "done"}]
      /\ clink \in [Conns -> Links \cup {NoLink}]
      /\ cpc[c] \in Using => clink[c] \in Links /\ clink[c] # NoLink
  BY BalancerAssumption DEF PoolInv, AccountInv, AccountTypes, HoldersHaveLinks
<1> HIDE DEF u
<1>3. ASSUME NEW p, cpc' = [cpc EXCEPT ![c] = p], \A d \in Conns \ {c} : clink'[d] = clink[d]
      PROVE  /\ Asks' = [Asks EXCEPT ![u] = ConnAsks(c)']
             /\ Lent' = [Lent EXCEPT ![u] = ConnLent(c)']
             /\ cpc'[c] = p
  BY <1>2, <1>3, ConnView DEF u
<1>4. [Asks EXCEPT ![u] = Asks[u]] = Asks /\ [Lent EXCEPT ![u] = Lent[u]] = Lent
  BY <1>1, SameView
<1>5. CASE ReadTarget(c)
  <2>1. PICK p \in {"choosing", "bypass"} : cpc' = [cpc EXCEPT ![c] = p]
    BY <1>5 DEF ReadTarget
  <2>2. /\ cpc[c] = "new" /\ UNCHANGED <<clink, healthy, pins, active>>
    BY <1>5 DEF ReadTarget, pickVars, dialFrame, linkVars
  <2>3. /\ Asks[u] = "nothing" /\ Lent[u] = NoLink /\ ConnLent(c)' = NoLink
        /\ ConnAsks(c)' = IF p = "choosing" THEN "anywhere" ELSE "nothing"
    BY <1>1, <1>3, <2>1, <2>2 DEF ConnAsks, ConnLent, Using
  <2>4. Lent' = Lent /\ Asks' = [Asks EXCEPT ![u] = ConnAsks(c)']
    BY <1>3, <1>4, <2>1, <2>2, <2>3
  <2>5. CASE p = "choosing"
    BY <1>1, <2>2, <2>3, <2>4, <2>5, PoolIsAsked
  <2>6. CASE p = "bypass"
    <3>1. Asks' = Asks
      BY <1>4, <2>3, <2>4, <2>6
    <3> QED
      BY <2>2, <2>4, <3>1 DEF Pool!vars
  <2> QED
    BY <2>5, <2>6
<1>6. CASE Bypass(c) \/ DialOK(c) \/ Sample(c)
  <2>1. PICK p \in {"open", "done"} : cpc' = [cpc EXCEPT ![c] = p]
    BY <1>6 DEF Bypass, DialOK, Sample
  <2>2. /\ cpc[c] \in Using <=> p \in Using
        /\ cpc[c] # "choosing" /\ UNCHANGED <<clink, healthy, pins, active>>
    BY <1>6, <1>2, <2>1 DEF Bypass, DialOK, Sample, Using, pickVars, dialFrame, linkVars
  <2>3. ConnLent(c)' = Lent[u] /\ ConnAsks(c)' = Asks[u]
    BY <1>1, <1>3, <2>1, <2>2 DEF ConnAsks, ConnLent
  <2>4. Lent' = Lent /\ Asks' = Asks
    BY <1>3, <1>4, <2>1, <2>2, <2>3
  <2> QED
    BY <2>2, <2>4 DEF Pool!vars
<1>7. CASE Choose(c)
  <2>1. PICK l \in Links : Pick(l) /\ clink' = [clink EXCEPT ![c] = l]
    BY <1>7 DEF Choose
  <2>2. healthy[l] /\ Use(l)
    BY <2>1, ChoicesAreHealthy DEF Pick, PoolInv
  <2>3. /\ cpc[c] = "choosing" /\ cpc' = [cpc EXCEPT ![c] = "dialing"]
        /\ UNCHANGED <<healthy, pins>>
    BY <1>7 DEF Choose, dialFrame, linkVars
  <2>4. \A d \in Conns \ {c} : clink'[d] = clink[d]
    BY <1>2, <2>1
  <2>5. Asks[u] = "anywhere" /\ Lent[u] = NoLink
    BY <1>1, <2>3 DEF ConnAsks, ConnLent, Using
  <2>6. ConnAsks(c)' = "nothing" /\ ConnLent(c)' = l
    BY <1>2, <1>3, <2>1, <2>3, <2>4 DEF ConnAsks, ConnLent, Using
  <2>7. Asks' = [Asks EXCEPT ![u] = "nothing"] /\ Lent' = [Lent EXCEPT ![u] = l]
    BY <1>3, <2>3, <2>4, <2>6
  <2> QED
    BY <1>1, <2>2, <2>3, <2>5, <2>7, PoolLends
<1>8. CASE ChooseNone(c)
  <2>1. /\ cpc[c] = "choosing" /\ cpc' = [cpc EXCEPT ![c] = "done"] /\ NothingToPick
        /\ UNCHANGED <<clink, healthy, pins, active>>
    BY <1>8 DEF ChooseNone, pickVars, dialFrame, linkVars
  <2>2. /\ Asks[u] = "anywhere" /\ Lent[u] = NoLink
        /\ ConnAsks(c)' = "nothing" /\ ConnLent(c)' = NoLink
    BY <1>1, <1>3, <2>1 DEF ConnAsks, ConnLent, Using
  <2>3. Asks' = [Asks EXCEPT ![u] = "nothing"] /\ Lent' = Lent
    BY <1>3, <1>4, <2>1, <2>2
  <2> QED
    BY <1>1, <2>1, <2>2, <2>3, PoolTurnsAway
<1>9. CASE DialFails(c) \/ Close(c)
  <2>1. PICK p \in {"done", "choosing", "closing"} : cpc' = [cpc EXCEPT ![c] = p]
    BY <1>9 DEF DialFails, Close
  <2>2. cpc[c] \in Using /\ Release(clink[c]) /\ UNCHANGED <<clink, healthy, pins>>
    BY <1>9 DEF DialFails, Close, Using, dialFrame, linkVars
  <2>3. PICK where \in {"nothing", "anywhere"} : ConnAsks(c)' = where
    BY DEF ConnAsks
  <2>4. Lent[u] = clink[c] /\ Lent[u] # NoLink /\ ConnLent(c)' = NoLink
    BY <1>1, <1>2, <1>3, <2>1, <2>2 DEF ConnLent, Using
  <2>5. Asks' = [Asks EXCEPT ![u] = where] /\ Lent' = [Lent EXCEPT ![u] = NoLink]
    BY <1>3, <2>1, <2>2, <2>3, <2>4
  <2> QED
    BY <1>1, <2>2, <2>4, <2>5, PoolGetsBack DEF Release
<1>10. CASE Copy(c)
  <2>1. UNCHANGED <<cpc, clink, healthy, pins, active>>
    BY <1>10 DEF Copy, pickVars, dialFrame, linkVars
  <2>2. Asks' = Asks /\ Lent' = Lent
    BY <2>1 DEF fwdVars, Asks, Lent, ConnAsks, ConnLent, ReqAsks, ReqLent
  <2> QED
    BY <2>1, <2>2 DEF Pool!vars
<1> QED
  BY <1>5, <1>6, <1>7, <1>8, <1>9, <1>10 DEF Connection, Answer

LEMMA ReqPoolStep ==
  ASSUME PoolInv, NEW r \in Reqs, Request(r), UNCHANGED dialVars
  PROVE  Pool!Next \/ UNCHANGED Pool!vars
<1> USE DEF At, Ends
<1> DEFINE u == ReqId(r)
<1>1. /\ u \in Callers /\ Asks[u] = ReqAsks(r) /\ Lent[u] = ReqLent(r)
  BY CallerViews
<1>2. /\ rpc \in [Reqs -> Holding \cup {"new", "picking", "repicking", "splitting", "done"}]
      /\ rlink \in [Reqs -> Links \cup {NoLink}] /\ host[r] \in Hosts
      /\ rpc[r] \in Holding => rlink[r] \in Links /\ rlink[r] # NoLink /\ ~freed[r]
      /\ rpc[r] \in {"repicking", "splitting"} => freed[r]
  BY BalancerAssumption DEF PoolInv, PinTypes, AccountInv, AccountTypes, HoldersHaveLinks
<1> HIDE DEF u
<1>3. ASSUME NEW p, rpc' = [rpc EXCEPT ![r] = p], \A q \in Reqs \ {r} : rlink'[q] = rlink[q],
             UNCHANGED host
      PROVE  /\ Asks' = [Asks EXCEPT ![u] = ReqAsks(r)']
             /\ Lent' = [Lent EXCEPT ![u] = ReqLent(r)']
             /\ rpc'[r] = p
  BY <1>2, <1>3, ReqView DEF u
<1>4. [Asks EXCEPT ![u] = Asks[u]] = Asks /\ [Lent EXCEPT ![u] = Lent[u]] = Lent
  BY <1>1, SameView
<1>5. CASE Arrive(r)
  <2>1. /\ rpc[r] = "new" /\ rpc' = [rpc EXCEPT ![r] = "picking"]
        /\ UNCHANGED <<host, rlink, healthy, pins, active>>
    BY <1>5 DEF Arrive, pickVars, fwdFrame, linkVars
  <2>2. /\ Asks[u] = "nothing" /\ Lent[u] = NoLink
        /\ ReqAsks(r)' = host[r] /\ ReqLent(r)' = NoLink
    BY <1>1, <1>3, <2>1 DEF ReqAsks, ReqLent, Holding, Sending
  <2>3. Asks' = [Asks EXCEPT ![u] = host[r]] /\ Lent' = Lent
    BY <1>3, <1>4, <2>1, <2>2
  <2> QED
    BY <1>1, <1>2, <2>1, <2>2, <2>3, PoolIsAsked
<1>6. CASE PickLink(r)
  <2>1. PICK l \in Links : PickForHost(host[r], l) /\ rlink' = [rlink EXCEPT ![r] = l]
    BY <1>6 DEF PickLink
  <2>2. PICK p \in {"upgrading", "first"} : rpc' = [rpc EXCEPT ![r] = p]
    BY <1>6 DEF PickLink
  <2>3. rpc[r] = "picking" /\ UNCHANGED <<host, healthy>>
    BY <1>6 DEF PickLink, fwdFrame, linkVars
  <2>4. Use(l) /\ healthy[l] /\ Pool!Pinned(host[r], l)
    <3>1. CASE Pinned(host[r])
      <4>1. l = pins[host[r]] /\ Use(l) /\ pins' = pins /\ healthy[l]
        BY <3>1, <2>1 DEF PickForHost, Pinned
      <4>2. pins = [pins EXCEPT ![host[r]] = l]
        BY <4>1 DEF PoolInv, PinTypes
      <4> QED
        BY <4>1, <4>2 DEF Pool!Pinned
    <3>2. CASE ~Pinned(host[r])
      <4>1. Pick(l) /\ pins' = [pins EXCEPT ![host[r]] = l]
        BY <3>2, <2>1 DEF PickForHost
      <4>2. healthy[l] /\ Use(l)
        BY <4>1, ChoicesAreHealthy DEF Pick, PoolInv
      <4> QED
        BY <3>2, <4>1, <4>2 DEF Pinned, Pool!Pinned
    <3> QED
      BY <3>1, <3>2
  <2>5. \A q \in Reqs \ {r} : rlink'[q] = rlink[q]
    BY <1>2, <2>1
  <2>6. Asks[u] = host[r] /\ Lent[u] = NoLink
    BY <1>1, <2>3 DEF ReqAsks, ReqLent, Holding, Sending
  <2>7. ReqAsks(r)' = "nothing" /\ ReqLent(r)' = l
    BY <1>2, <1>3, <2>1, <2>2, <2>3, <2>5 DEF ReqAsks, ReqLent, Holding, Sending
  <2>8. Asks' = [Asks EXCEPT ![u] = "nothing"] /\ Lent' = [Lent EXCEPT ![u] = l]
    BY <1>3, <2>2, <2>3, <2>5, <2>7
  <2> QED
    BY <1>1, <1>2, <2>3, <2>4, <2>6, <2>8, PoolLends
<1>7. CASE NoLinkToPick(r)
  <2>1. /\ rpc[r] = "picking" /\ rpc' = [rpc EXCEPT ![r] = "done"]
        /\ PickForHostFails(host[r])
        /\ UNCHANGED <<host, rlink, healthy, active>>
    BY <1>7 DEF NoLinkToPick, pickVars, fwdFrame, linkVars
  <2>2. NothingToPick /\ Pool!Pinned(host[r], NoLink)
    BY <2>1 DEF PickForHostFails, Pinned, Pool!Pinned
  <2>3. /\ Asks[u] = host[r] /\ Lent[u] = NoLink
        /\ ReqAsks(r)' = "nothing" /\ ReqLent(r)' = NoLink
    BY <1>1, <1>3, <2>1 DEF ReqAsks, ReqLent, Holding, Sending
  <2>4. Asks' = [Asks EXCEPT ![u] = "nothing"] /\ Lent' = Lent
    BY <1>3, <1>4, <2>1, <2>3
  <2> QED
    BY <1>1, <1>2, <2>1, <2>2, <2>3, <2>4, PoolTurnsAway
<1>8. CASE RoundTripOK(r) \/ BadCertificate(r) \/ InspectSplit(r) \/ InspectStream(r) \/ UpgradeOK(r)
  <2>1. PICK p \in {"inspecting", "insecure", "unwanted", "streaming", "spliced"} :
          rpc' = [rpc EXCEPT ![r] = p]
    BY <1>8 DEF RoundTripOK, BadCertificate, InspectSplit, InspectStream, UpgradeOK
  <2>2. rpc[r] \in Holding /\ UNCHANGED <<host, rlink, healthy, pins, active>>
    BY <1>8 DEF RoundTripOK, BadCertificate, Fails, InspectSplit, InspectStream, UpgradeOK,
                Holding, Sending, pickVars, fwdFrame, linkVars
  <2>3. ReqLent(r)' = Lent[u] /\ ReqAsks(r)' = Asks[u]
    BY <1>1, <1>3, <2>1, <2>2 DEF ReqAsks, ReqLent, Holding, Sending
  <2>4. Lent' = Lent /\ Asks' = Asks
    BY <1>3, <1>4, <2>1, <2>2, <2>3
  <2> QED
    BY <2>2, <2>4 DEF Pool!vars
<1>9. CASE \/ BindFails(r) \/ RoundTripFails(r) \/ LetGo(r) \/ StreamEnds(r)
           \/ UpgradeFails(r) \/ SpliceEnds(r)
  <2>1. PICK p \in {"repicking", "splitting", "done"} : rpc' = [rpc EXCEPT ![r] = p]
    BY <1>9 DEF BindFails, RoundTripFails, LetGo, StreamEnds, UpgradeFails, SpliceEnds
  <2>2. rpc[r] \in Holding /\ ReleaseLink(r) /\ UNCHANGED <<host, rlink, healthy, pins>>
    BY <1>9 DEF BindFails, RoundTripFails, LetGo, StreamEnds, UpgradeFails, SpliceEnds,
                Fails, Holding, Sending, fwdFrame, linkVars
  <2>3. active' = [active EXCEPT ![rlink[r]] = @ - 1]
    BY <1>2, <2>2 DEF ReleaseLink
  <2>4. PICK where \in {"nothing", "anywhere"} : ReqAsks(r)' = where
    BY <1>3, <2>1, <2>2 DEF ReqAsks
  <2>5. Lent[u] = rlink[r] /\ Lent[u] # NoLink /\ ReqLent(r)' = NoLink
    BY <1>1, <1>2, <1>3, <2>1, <2>2 DEF ReqLent, Holding, Sending
  <2>6. Asks' = [Asks EXCEPT ![u] = where] /\ Lent' = [Lent EXCEPT ![u] = NoLink]
    BY <1>3, <2>1, <2>2, <2>4, <2>5
  <2> QED
    BY <1>1, <2>2, <2>3, <2>5, <2>6, PoolGetsBack
<1>10. CASE Repick(r)
  <2>1. PICK l \in Links : Pick(l) /\ Taken(r, l)
    BY <1>10 DEF Repick
  <2>2. healthy[l] /\ Use(l)
    BY <2>1, ChoicesAreHealthy DEF Pick, PoolInv
  <2>3. /\ rpc[r] = "repicking" /\ rpc' = [rpc EXCEPT ![r] = "second"]
        /\ rlink' = [rlink EXCEPT ![r] = l] /\ UNCHANGED <<host, healthy, pins>>
    BY <1>10, <2>1 DEF Repick, Taken, fwdFrame, linkVars
  <2>4. \A q \in Reqs \ {r} : rlink'[q] = rlink[q]
    BY <1>2, <2>3
  <2>5. Asks[u] = "anywhere" /\ Lent[u] = NoLink
    BY <1>1, <2>3 DEF ReqAsks, ReqLent, Holding, Sending
  <2>6. ReqAsks(r)' = "nothing" /\ ReqLent(r)' = l
    BY <1>2, <1>3, <2>3, <2>4 DEF ReqAsks, ReqLent, Holding, Sending
  <2>7. Asks' = [Asks EXCEPT ![u] = "nothing"] /\ Lent' = [Lent EXCEPT ![u] = l]
    BY <1>3, <2>3, <2>4, <2>6
  <2> QED
    BY <1>1, <2>2, <2>3, <2>5, <2>7, PoolLends
<1>11. CASE RepickFails(r)
  <2>1. /\ rpc[r] = "repicking" /\ rpc' = [rpc EXCEPT ![r] = "done"] /\ NothingToPick
        /\ UNCHANGED <<host, rlink, healthy, pins, active>>
    BY <1>2, <1>11 DEF RepickFails, ReleaseLink, fwdFrame, linkVars
  <2>2. /\ Asks[u] = "anywhere" /\ Lent[u] = NoLink
        /\ ReqAsks(r)' = "nothing" /\ ReqLent(r)' = NoLink
    BY <1>1, <1>3, <2>1 DEF ReqAsks, ReqLent, Holding, Sending
  <2>3. Asks' = [Asks EXCEPT ![u] = "nothing"] /\ Lent' = Lent
    BY <1>3, <1>4, <2>1, <2>2
  <2> QED
    BY <1>1, <2>1, <2>2, <2>3, PoolTurnsAway
<1>12. CASE EnterSplit(r)
  <2>1. /\ rpc[r] = "splitting" /\ rpc' = [rpc EXCEPT ![r] = "done"]
        /\ UNCHANGED <<host, rlink, healthy, pins, active>>
    BY <1>2, <1>12 DEF EnterSplit, ReleaseLink, fwdFrame, linkVars
  <2>2. ReqLent(r)' = Lent[u] /\ ReqAsks(r)' = Asks[u]
    BY <1>1, <1>3, <2>1 DEF ReqAsks, ReqLent, Holding, Sending
  <2>3. Lent' = Lent /\ Asks' = Asks
    BY <1>3, <1>4, <2>1, <2>2
  <2> QED
    BY <2>1, <2>3 DEF Pool!vars
<1>13. CASE StreamCopy(r)
  <2>1. UNCHANGED <<rpc, host, rlink, healthy, pins, active>>
    BY <1>13 DEF StreamCopy, fwdVars, pickVars, linkVars
  <2>2. Asks' = Asks /\ Lent' = Lent
    BY <2>1 DEF dialVars, Asks, Lent, ConnAsks, ConnLent, ReqAsks, ReqLent
  <2> QED
    BY <2>1, <2>2 DEF Pool!vars
<1> QED
  BY <1>5, <1>6, <1>7, <1>8, <1>9, <1>10, <1>11, <1>12, <1>13 DEF Request, Respond

\* The scan and the machine: at most the health of one link changes.
LEMMA BalancerPoolStep ==
  ASSUME PoolInv, ScanTypes, BalancerNext, UNCHANGED <<dialVars, fwdVars>>
  PROVE  Pool!Next \/ UNCHANGED Pool!vars
<1>1. Asks' = Asks /\ Lent' = Lent
  BY DEF dialVars, fwdVars, Asks, Lent, ConnAsks, ConnLent, ReqAsks, ReqLent
<1>2. UNCHANGED <<pins, active>>
  BY DEF BalancerNext, Scanner, Enumerate, EnumerateFails, Probe, ProbeOK, ProbeFails,
         ScanEnds, MarkGone, TurnStale, Flap, scanFrame, pickVars
<1>3. healthy' = healthy \/ \E l \in Links : \E b \in BOOLEAN : healthy' = [healthy EXCEPT ![l] = b]
  <2>1. CASE Probe
    <3>1. PICK p \in found : ProbeOK(p) \/ ProbeFails(p)
      BY <2>1 DEF Probe
    <3>2. p[1] \in Links
      BY DEF ScanTypes
    <3>3. \E b \in BOOLEAN : healthy' = [healthy EXCEPT ![p[1]] = b]
      BY <3>1 DEF ProbeOK, ProbeFails
    <3> QED
      BY <3>2, <3>3
  <2>2. CASE \E l \in Links : MarkGone(l)
    BY <2>2 DEF MarkGone
  <2>3. CASE Enumerate \/ EnumerateFails \/ ScanEnds \/ \E l \in Links : TurnStale(l) \/ Flap(l)
    BY <2>3 DEF Enumerate, EnumerateFails, ScanEnds, TurnStale, Flap, linkVars
  <2> QED
    BY <2>1, <2>2, <2>3 DEF BalancerNext, Scanner
<1>4. CASE healthy' = healthy
  BY <1>1, <1>2, <1>4 DEF Pool!vars
<1>5. ASSUME NEW l \in Links, NEW b \in BOOLEAN, healthy' = [healthy EXCEPT ![l] = b]
      PROVE  Pool!Next \/ UNCHANGED Pool!vars
  <2>1. healthy \in [Links -> BOOLEAN]
    BY DEF PoolInv, LinkTypes
  <2>2. CASE b = healthy[l]
    <3>1. healthy' = healthy
      BY <1>5, <2>1, <2>2
    <3> QED
      BY <1>1, <1>2, <3>1 DEF Pool!vars
  <2>3. CASE b # healthy[l]
    <3>1. b = ~healthy[l]
      BY <2>1, <2>3
    <3>2. Pool!HealthChanges(l)
      BY <1>1, <1>2, <1>5, <3>1 DEF Pool!HealthChanges
    <3> QED
      BY <3>2 DEF Pool!Next
  <2> QED
    BY <2>2, <2>3
<1> QED
  BY <1>3, <1>4, <1>5

LEMMA PoolStart == Init => Pool!Init
<1> SUFFICES ASSUME Init PROVE Pool!Init
  OBVIOUS
<1>1. Asks = [u \in Callers |-> "nothing"] /\ Lent = [u \in Callers |-> NoLink]
  BY DEF Init, DialInit, ForwardInit, Callers, Asks, Lent, ConnAsks, ConnLent, ReqAsks, ReqLent,
         Using, Holding, Sending
<1> QED
  BY <1>1 DEF Init, BalancerInit, Pool!Init

LEMMA PoolStep ==
  ASSUME AccountInv, PinTypes, TypeInv, [Next]_vars
  PROVE  [Pool!Next]_(Pool!vars)
<1>1. PoolInv /\ ScanTypes
  BY DEF PoolInv, TypeInv
<1>2. CASE BalancerNext /\ UNCHANGED <<dialVars, fwdVars>>
  BY <1>1, <1>2, BalancerPoolStep
<1>3. CASE \E c \in Conns : Connection(c) /\ UNCHANGED fwdVars
  BY <1>1, <1>3, ConnPoolStep
<1>4. CASE \E r \in Reqs : Request(r) /\ UNCHANGED dialVars
  BY <1>1, <1>4, ReqPoolStep
<1>5. CASE UNCHANGED vars
  BY <1>5 DEF vars, balVars, linkVars, pickVars, dialVars, fwdVars, Pool!vars, Asks, Lent,
              ConnAsks, ConnLent, ReqAsks, ReqLent
<1> QED
  BY <1>2, <1>3, <1>4, <1>5 DEF Next

\* The proxy implements LinkPool: however connections, requests, the scan and
\* the adapters interleave, every caller is lent a healthy link (balancer.go,
\* lines 147 and 162), the pinned one while that is healthy, and is refused one
\* only when none is.
THEOREM LinksAreLent == Spec => LendsLinks
<1>1. Spec => []AccountInv /\ []TypeInv
  BY InitAccount, AccountStep, InitTypes, TypeStep, PTL DEF Spec
<1> QED
  BY <1>1, PinAlways, PoolStart, PoolStep, PTL DEF Spec, LendsLinks, Pool!Spec
=============================================================================
