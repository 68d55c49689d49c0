------------------------------ MODULE MCProxy ------------------------------
(***************************************************************************)
(* Constants for checking Proxy with TLC.                                  *)
(***************************************************************************)
EXTENDS Proxy, TLC

Symmetric == Permutations(Links) \cup Permutations(Hosts) \cup Permutations(Conns)
             \cup Permutations(Reqs) \cup Permutations(Addresses)
=============================================================================
