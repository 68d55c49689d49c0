------------------------------ MODULE MCStart ------------------------------
(***************************************************************************)
(* Certificates: the CA from start to start (CAStore), or the cache of     *)
(* what is made on demand (LazyCache).  A behaviour is of one of the two;  *)
(* the other has nothing to do.                                            *)
(***************************************************************************)
EXTENDS CAStore, LazyCache, TLC

StoreOver ==
  /\ starts = MaxStarts
  /\ cert = [a \in Accounts |-> NoFile] /\ key = cert
  /\ trust = {} /\ owner = <<>>
  /\ at = [p \in Procs |-> "off"] /\ job = [p \in Procs |-> "user"]
  /\ home = [p \in Procs |-> CHOOSE a \in Accounts : TRUE] /\ acct = home
  /\ mem = [p \in Procs |-> NoCA] /\ armed = [p \in Procs |-> FALSE]
  /\ failed = [p \in Procs |-> FALSE] /\ crossed = {} /\ disturbed = {}

CacheOver ==
  /\ cache = [n \in Names |-> None] /\ made = MaxMakes
  /\ where = [c \in Callers |-> "over"] /\ want = [c \in Callers |-> CHOOSE n \in Names : TRUE]
  /\ result = [c \in Callers |-> None]

StartInit == (StoreInit /\ CacheOver) \/ (CacheInit /\ StoreOver)

StartNext == (StoreNext /\ UNCHANGED cacheVars) \/ (CacheNext /\ UNCHANGED caVars)

StartSpec == StartInit /\ [][StartNext]_<<caVars, cacheVars>>

Symmetric == Permutations(Procs) \cup Permutations(Callers)
=============================================================================
