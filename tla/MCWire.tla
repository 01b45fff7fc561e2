-------------------------------- MODULE MCWire -------------------------------
(* Small instances of Wire: the constants are given in the .cfg files. *)
EXTENDS Wire
==============================================================================
