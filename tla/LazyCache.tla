----------------------------- MODULE LazyCache -----------------------------
(***************************************************************************)
(* A cache that makes a value when it is first asked for, under an RWMutex *)
(* and with a second look once it has the mutex for writing: the leaf      *)
(* certificates of Minter.Get (mint.go) and the transports of              *)
(* Link.Transport (link_net.go).  Values are numbered as they are made.    *)
(***************************************************************************)
EXTENDS Integers

CONSTANTS Callers, Names,
          MaxMakes,     \* values made at most
          MayFail       \* making may fail (Minter), or not (Transport)

ASSUME CacheAssumption == MaxMakes \in Nat /\ MayFail \in BOOLEAN

VARIABLES
  cache,   \* name -> value, None when absent
  made,    \* values made
  where,   \* caller -> where it is in Get
  want,    \* caller -> the name it asks for
  result   \* caller -> what Get returned last

cacheVars == <<cache, made, where, want, result>>

None  == 0
Error == -1

CacheInit ==
  /\ cache = [n \in Names |-> None] /\ made = 0
  /\ where = [c \in Callers |-> "out"]
  /\ want \in [Callers -> Names]
  /\ result = [c \in Callers |-> None]

Moves(c, w) == where' = [where EXCEPT ![c] = w]

\* Callers that have the mutex for writing.
Owners == {c \in Callers : where[c] \in {"again", "make"}}

Ask(c) ==
  /\ where[c] = "out" /\ Moves(c, "look")
  /\ \E n \in Names : want' = [want EXCEPT ![c] = n]
  /\ result' = [result EXCEPT ![c] = None]
  /\ UNCHANGED <<cache, made>>

Gives(c, v) == Moves(c, "out") /\ result' = [result EXCEPT ![c] = v]

\* The look under RLock.
Look(c) ==
  /\ where[c] = "look" /\ Owners = {}
  /\ IF cache[want[c]] # None THEN Gives(c, cache[want[c]])
                              ELSE Moves(c, "lock") /\ UNCHANGED result
  /\ UNCHANGED <<cache, made, want>>

Lock(c) ==
  /\ where[c] = "lock" /\ Owners = {} /\ Moves(c, "again")
  /\ UNCHANGED <<cache, made, want, result>>

\* A slip of Found: no second look.
NotFound(c) == FALSE

\* What the second look finds.
Found(c) == cache[want[c]] # None

LookAgain(c) ==
  /\ where[c] = "again"
  /\ IF Found(c) THEN Gives(c, cache[want[c]]) ELSE Moves(c, "make") /\ UNCHANGED result
  /\ UNCHANGED <<cache, made, want>>

Make(c) ==
  /\ where[c] = "make" /\ made < MaxMakes
  /\ made' = made + 1 /\ cache' = [cache EXCEPT ![want[c]] = made + 1]
  /\ Gives(c, made + 1)
  /\ UNCHANGED want

\* An error is returned, not cached.
MakeFails(c) ==
  /\ where[c] = "make" /\ MayFail /\ Gives(c, Error)
  /\ UNCHANGED <<cache, made, want>>

CacheNext ==
  \E c \in Callers :
    Ask(c) \/ Look(c) \/ Lock(c) \/ LookAgain(c) \/ Make(c) \/ MakeFails(c)

CacheSpec == CacheInit /\ [][CacheNext]_cacheVars

\* All callers that get a value for a name get the same one, then and later:
\* one transport per link, so its pooled connections are found again, and one
\* leaf certificate per host (link_net.go line 45, mint.go line 16).
OneValuePerName ==
  \A c \in Callers : result[c] \notin {None, Error} => result[c] = cache[want[c]]
=============================================================================
