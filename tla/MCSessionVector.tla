--------------------------- MODULE MCSessionVector ---------------------------
(* A small instance of SessionVector. *)
EXTENDS SessionVector, TLC

Symmetry == Permutations(Conns) \cup Permutations(Users)
==============================================================================
