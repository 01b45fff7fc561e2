----------------------------- MODULE MCAccounts ------------------------------
(* Small instances of Accounts. *)
EXTENDS Accounts, TLC

CONSTANTS n1, p1

OneBanned == <<[name |-> n1, password |-> p1, status |-> "banned"]>>

Symmetry == Permutations(Threads)
==============================================================================
