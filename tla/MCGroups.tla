------------------------------ MODULE MCGroups -------------------------------
(* Small instances of Groups: the constants are given in the .cfg files. *)
EXTENDS Groups
==============================================================================
