------------------------------ MODULE CAStore ------------------------------
(***************************************************************************)
(* The root CA from one start of the program to the next (ca.go, and its   *)
(* use by main.go lines 138 to 220): two files per account, the system's   *)
(* trust store, and starts that may overlap and may end at any step.       *)
(*                                                                         *)
(* What a start does:                                                      *)
(*   "admin"    loads or creates the CA, installs it if none is installed  *)
(*   "user"     needs an installed CA; may have an elevated child set it   *)
(*              up, perhaps under another account; then loads its own      *)
(*   "setup"    the child's part of that, --setup-only                     *)
(*   "install"  --install-cert                                             *)
(* Certificates are numbered as they are made, and so are the keys.        *)
(***************************************************************************)
EXTENDS Integers, Sequences

CONSTANTS Procs, Accounts,
          MaxStarts         \* starts of the program

\* Who starts the program has an account.
ASSUME StoreAssumption == MaxStarts \in Nat /\ Accounts # {}

VARIABLES
  cert, key,  \* account -> ca.pem and ca-key.pem
  trust,      \* CAs in the trust store under the name "mergenet Root CA"
  owner,      \* CA -> the account it was made for; its domain is all of them
  starts,     \* starts so far
  at,         \* start -> where it is
  job,        \* start -> what it does at present
  home,       \* start -> the account it runs under
  acct,       \* start -> the account whose directory it uses at present
  mem,        \* start -> the CA it has in memory
  armed,      \* start -> it has a Minter
  failed,     \* start -> its load failed, no write of its own did (history)
  crossed,    \* accounts two starts generated for at once (history)
  disturbed   \* accounts of a generation that failed, was cut off, or that
              \* another start looked into (history)

files == <<cert, key>>
caVars == <<files, trust, owner, starts, at, job, home, acct, mem, armed, failed,
            crossed, disturbed>>

NoFile == 0
Torn   == -1     \* created or truncated, not written yet
NoCA   == [cert |-> NoFile, key |-> NoFile]

StoreInit ==
  /\ cert = [a \in Accounts |-> NoFile] /\ key = cert
  /\ trust = {} /\ owner = <<>> /\ starts = 0
  /\ at = [p \in Procs |-> "off"] /\ job = [p \in Procs |-> "user"]
  /\ home = [p \in Procs |-> CHOOSE a \in Accounts : TRUE] /\ acct = home
  /\ mem = [p \in Procs |-> NoCA] /\ armed = [p \in Procs |-> FALSE]
  /\ failed = [p \in Procs |-> FALSE] /\ crossed = {} /\ disturbed = {}

Goes(p, where) == at' = [at EXCEPT ![p] = where]

Writing == {"cert", "fillCert", "key", "fillKey"}
OthersMaking(p) ==
  \E q \in Procs \ {p} : at[q] \in Writing \cup {"generate"} /\ acct[q] = acct[p]

-----------------------------------------------------------------------------
(***************************************************************************)
(* LoadOrCreateCA, one step per file operation.                            *)
(***************************************************************************)

\* A slip of Exists: the trust store asked, not the file.
ExistsIfInstalled(a) == cert[a] \in trust

\* os.Stat(certPath).
Exists(a) == cert[a] # NoFile

\* InstallCA's own os.Stat: what is there is not loaded.  (After a load it
\* would find the file, and is left out.)
StatFirst(p) ==
  /\ at[p] = "look" /\ Goes(p, IF Exists(acct[p]) THEN "install" ELSE "stat")
  /\ UNCHANGED <<files, trust, owner, starts, job, home, acct, mem, armed, failed,
                 crossed, disturbed>>

\* os.Stat.
Stat(p) ==
  /\ at[p] = "stat" /\ Goes(p, IF Exists(acct[p]) THEN "loadCert" ELSE "generate")
  /\ disturbed' = IF OthersMaking(p) THEN disturbed \cup {acct[p]} ELSE disturbed
  /\ crossed' = IF OthersMaking(p) /\ ~Exists(acct[p]) THEN crossed \cup {acct[p]} ELSE crossed
  /\ UNCHANGED <<files, trust, owner, starts, job, home, acct, mem, armed, failed>>

LoadCert(p) ==
  /\ at[p] = "loadCert" /\ Goes(p, "loadKey")
  /\ mem' = [mem EXCEPT ![p].cert = cert[acct[p]]]
  /\ UNCHANGED <<files, trust, owner, starts, job, home, acct, armed, failed, crossed, disturbed>>

\* What an error of LoadOrCreateCA does: a child leaves it to its parent, a
\* user's start goes on without interception, the others are over.
AfterError(p) ==
  CASE job[p] = "setup" -> "recheck" [] job[p] = "user" -> "run" [] OTHER -> "off"

AfterLoad(p) ==
  CASE job[p] = "user" -> "run" [] job[p] = "install" -> "install" [] OTHER -> "check"

Arm(p) == armed' = [armed EXCEPT ![p] = TRUE]

\* LoadOrCreateCA returns a CA.
Loaded(p) ==
  /\ Goes(p, AfterLoad(p))
  /\ IF job[p] = "user" THEN Arm(p) ELSE UNCHANGED armed

\* Slips of Usable: the key not parsed; a CA that is not installed refused.
UsableCertOnly(p)    == mem[p].cert > 0
UsableIfInstalled(p) == mem[p].cert \in trust /\ key[acct[p]] > 0

\* Both files are there, and both parse.
Usable(p) == mem[p].cert > 0 /\ key[acct[p]] > 0

LoadKey(p) ==
  /\ at[p] = "loadKey"
  /\ IF Usable(p)
       THEN Loaded(p) /\ mem' = [mem EXCEPT ![p].key = key[acct[p]]] /\ UNCHANGED failed
       ELSE /\ Goes(p, AfterError(p)) /\ mem' = [mem EXCEPT ![p] = NoCA]
            /\ failed' = [failed EXCEPT ![p] = TRUE] /\ UNCHANGED armed
  /\ UNCHANGED <<files, trust, owner, starts, job, home, acct, crossed, disturbed>>

Generate(p) ==
  /\ at[p] = "generate" /\ Goes(p, "cert")
  /\ LET n == Len(owner) + 1 IN
       mem' = [mem EXCEPT ![p] = [cert |-> n, key |-> n]]
  /\ owner' = Append(owner, acct[p])
  /\ UNCHANGED <<files, trust, starts, job, home, acct, armed, failed, crossed, disturbed>>

\* os.WriteFile truncates, then writes: the certificate first, then the key.
WriteFile(p) ==
  LET a == acct[p] IN
  /\ \/ /\ at[p] = "cert" /\ Goes(p, "fillCert")
        /\ cert' = [cert EXCEPT ![a] = Torn] /\ UNCHANGED <<key, armed>>
     \/ /\ at[p] = "fillCert" /\ Goes(p, "key")
        /\ cert' = [cert EXCEPT ![a] = mem[p].cert] /\ UNCHANGED <<key, armed>>
     \/ /\ at[p] = "key" /\ Goes(p, "fillKey")
        /\ key' = [key EXCEPT ![a] = Torn] /\ UNCHANGED <<cert, armed>>
     \/ /\ at[p] = "fillKey" /\ Loaded(p)
        /\ key' = [key EXCEPT ![a] = mem[p].key] /\ UNCHANGED cert
  /\ UNCHANGED <<trust, owner, starts, job, home, acct, mem, failed, crossed, disturbed>>

WriteFails(p) ==
  /\ at[p] \in Writing /\ Goes(p, AfterError(p))
  /\ mem' = [mem EXCEPT ![p] = NoCA]
  /\ disturbed' = disturbed \cup {acct[p]}
  /\ UNCHANGED <<files, trust, owner, starts, job, home, acct, armed, failed, crossed>>

-----------------------------------------------------------------------------
(***************************************************************************)
(* main, DoSetupOnly and InstallCA around it.                              *)
(***************************************************************************)

Start(p) ==
  /\ at[p] = "off" /\ starts < MaxStarts /\ starts' = starts + 1
  /\ \E j \in {"admin", "user", "install"} :
       /\ job' = [job EXCEPT ![p] = j]
       /\ Goes(p, CASE j = "user" -> "check" [] j = "admin" -> "stat" [] j = "install" -> "look")
  /\ \E a \in Accounts : home' = [home EXCEPT ![p] = a] /\ acct' = [acct EXCEPT ![p] = a]
  /\ mem' = [mem EXCEPT ![p] = NoCA]
  /\ armed' = [armed EXCEPT ![p] = FALSE] /\ failed' = [failed EXCEPT ![p] = FALSE]
  /\ UNCHANGED <<files, trust, owner, crossed, disturbed>>

\* A slip of Installed: the answer not looked at.
InstalledAlways == TRUE

\* isCAInstalled: the name is in the trust store.
Installed == trust # {}

\* isCAInstalled after a load ("admin", "setup"), or before it ("user").
Check(p) ==
  /\ at[p] = "check"
  /\ Goes(p, IF Installed
                THEN CASE job[p] = "admin" -> "run"
                       [] job[p] = "setup" -> "recheck"
                       [] job[p] = "user"  -> "stat"
                ELSE IF job[p] = "user" THEN "elevate" ELSE "install")
  /\ IF Installed /\ job[p] = "admin" THEN Arm(p) ELSE UNCHANGED armed
  /\ UNCHANGED <<files, trust, owner, starts, job, home, acct, mem, failed, crossed, disturbed>>

\* InstallCA's command: the certificate that is in the file now.
Install(p) ==
  /\ at[p] = "install" /\ cert[acct[p]] > 0
  /\ trust' = trust \cup {cert[acct[p]]}
  /\ Goes(p, CASE job[p] = "admin" -> "run" [] job[p] = "setup" -> "recheck" [] OTHER -> "off")
  /\ IF job[p] = "admin" THEN Arm(p) ELSE UNCHANGED armed
  /\ UNCHANGED <<files, owner, starts, job, home, acct, mem, failed, crossed, disturbed>>

\* The command fails: the file does not parse, the user says no, or the
\* system has none.
InstallFails(p) ==
  /\ at[p] = "install"
  /\ Goes(p, CASE job[p] = "admin" -> "run" [] job[p] = "setup" -> "recheck" [] OTHER -> "off")
  /\ UNCHANGED <<files, trust, owner, starts, job, home, acct, mem, armed, failed,
                 crossed, disturbed>>

\* ElevateForSetup runs --setup-only and waits for it; who confirms the prompt
\* may be another account.  Or it is not run.
Elevate(p) ==
  /\ at[p] = "elevate"
  /\ \/ /\ job' = [job EXCEPT ![p] = "setup"] /\ Goes(p, "stat")
        /\ \E a \in Accounts : acct' = [acct EXCEPT ![p] = a]
     \/ Goes(p, "recheck") /\ UNCHANGED <<job, acct>>
  /\ UNCHANGED <<files, trust, owner, starts, home, mem, armed, failed, crossed, disturbed>>

\* The parent looks again and loads the CA of its own account.
Recheck(p) ==
  /\ at[p] = "recheck"
  /\ Goes(p, IF Installed THEN "stat" ELSE "run")
  /\ job' = [job EXCEPT ![p] = "user"] /\ acct' = [acct EXCEPT ![p] = home[p]]
  /\ mem' = [mem EXCEPT ![p] = NoCA] /\ failed' = [failed EXCEPT ![p] = FALSE]
  /\ UNCHANGED <<files, trust, owner, starts, home, armed, crossed, disturbed>>

\* The process ends, at any step, or a child does and its parent goes on.
End(p) ==
  /\ at[p] # "off"
  /\ Goes(p, "off") \/ (job[p] = "setup" /\ Goes(p, "recheck"))
  /\ armed' = [armed EXCEPT ![p] = FALSE] /\ mem' = [mem EXCEPT ![p] = NoCA]
  /\ disturbed' = IF at[p] \in Writing THEN disturbed \cup {acct[p]} ELSE disturbed
  /\ UNCHANGED <<files, trust, owner, starts, job, home, acct, failed, crossed>>

StoreStep(p) ==
  \/ Start(p) \/ StatFirst(p) \/ Stat(p) \/ LoadCert(p) \/ LoadKey(p)
  \/ Generate(p) \/ WriteFile(p) \/ WriteFails(p) \/ Check(p) \/ Install(p)
  \/ InstallFails(p) \/ Elevate(p) \/ Recheck(p) \/ End(p)

StoreNext == \E p \in Procs : StoreStep(p)

StoreSpec == StoreInit /\ [][StoreNext]_caVars

-----------------------------------------------------------------------------
InUse(p) == at[p] = "run" /\ armed[p]

\* A CA in use has the key that belongs to its certificate, whatever was cut
\* off before, unless two starts made one for the account at the same time
\* (loadCA, ca.go lines 62 to 88, does not compare them).
KeyBelongs ==
  \A p \in Procs : InUse(p) => mem[p].key = mem[p].cert \/ home[p] \in crossed

\* A start that intercepts signs with a CA the system trusts, unless two made
\* one for the account at once, or the CA that isCAInstalled found by its name
\* is another account's (main.go lines 154 and 171).
InUseIsTrusted ==
  \A p \in Procs : InUse(p) =>
    \/ mem[p].cert \in trust
    \/ home[p] \in crossed
    \/ \E n \in trust : owner[n] # home[p]

\* Loading fails only for an account whose CA a start did not finish writing
\* or was still writing (ca.go lines 124 and 127).
FailureHasCause == \A p \in Procs : failed[p] => acct[p] \in disturbed

\* A CA that is there whole is never written again, by whatever start of
\* whatever kind, at whatever point another one is or was cut off
\* ("LoadOrCreateCA loads the existing CA", ca.go line 50): browsers and the
\* trust store rely on it.  Two that made one at once may overwrite each other.
CAIsKept ==
  [][\A a \in Accounts \ crossed :
       cert[a] > 0 /\ key[a] > 0 => cert'[a] = cert[a] /\ key'[a] = key[a]]_caVars

\* Not so: "LoadOrCreateCA loads the existing CA or generates a new one and
\* persists it" (ca.go line 50): what a start cut off left is never replaced.
CreateRecovers == \A p \in Procs : failed[p] => OthersMaking(p)

\* Not so: a start that intercepts is trusted ("isCAInstalled checks if our CA
\* is present", ca_other.go line 68): it may be another account's.
InUseAlwaysTrusted == \A p \in Procs : InUse(p) => mem[p].cert \in trust
=============================================================================
