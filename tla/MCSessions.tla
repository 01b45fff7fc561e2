------------------------------ MODULE MCSessions -----------------------------
(* Small instances of Sessions: the constants are given in the .cfg files. *)
EXTENDS Sessions

SafetySpec == Init /\ [][Next]_vars
==============================================================================
