----------------------------- MODULE MCKeyChain -----------------------------
(* Calls that overlap are interchangeable. *)
EXTENDS KeyChain, TLC
CONSTANTS c1, c2
OneClient  == {c1}
TwoClients == {c1, c2}
Symmetry   == Permutations(TwoClients)
=============================================================================
