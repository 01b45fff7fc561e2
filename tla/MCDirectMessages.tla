--------------------------- MODULE MCDirectMessages --------------------------
(* Small instances of DirectMessages.  Everybody is everybody's friend: a send   *)
(* that friendship_exists refuses changes nothing.                               *)
EXTENDS DirectMessages

AllFriends == {{u, v} : <<u, v>> \in {p \in Users \X Users : p[1] # p[2]}}

\* Contents so long that no notification of them is sent, and short ones; or short
\* ones only.  (The length between, which a push can carry and a backlog cannot,
\* differs from the first in one write; the theorems have it.)
LongAndShort == {{}, {"push", "backlog"}}
AllShort == {{"push", "backlog"}}

SafetySpec == Init /\ [][Next]_vars
==============================================================================
