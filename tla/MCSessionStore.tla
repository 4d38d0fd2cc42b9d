--------------------------- MODULE MCSessionStore ---------------------------
(* Finite instances of SessionStore.                                       *)
EXTENDS SessionStore, TLC

ProcessSymmetry == Permutations(Processes)
=============================================================================
