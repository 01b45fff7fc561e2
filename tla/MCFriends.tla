------------------------------ MODULE MCFriends ------------------------------
(***************************************************************************)
(* Small instances of Friends.  MaxAsked bounds the requests that are ever *)
(* made in a behaviour, as a state constraint.                             *)
(***************************************************************************)
EXTENDS Friends, Naturals, FiniteSets

CONSTANT MaxAsked

FewRequests == Cardinality(asked) <= MaxAsked
==============================================================================
