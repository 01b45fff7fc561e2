------------------------------- MODULE MCClient ------------------------------
(* Small instances of Client: the constants are given in the .cfg files. *)
EXTENDS Client
==============================================================================
