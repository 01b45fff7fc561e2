--------------------------- MODULE SessionRegistry ---------------------------
(***************************************************************************)
(* What the session table of the chat server promises the handlers that    *)
(* use it: a connection speaks for at most one user, a user is signed in   *)
(* on at most one connection, and a connection is forgotten only after its *)
(* session is.  Mutex, threads, the vector and the database are absent;    *)
(* module Sessions implements this one, and DirectMessages is built on it. *)
(***************************************************************************)
CONSTANTS Conns,    \* connection identifiers: socket descriptors
          Users     \* the accounts that may sign in

VARIABLES open,     \* the connections the server is serving
          bound     \* the pairs <<connection, user>> of the sessions

regVars == <<open, bound>>

BoundConns == {b[1] : b \in bound}
BoundUsers == {b[2] : b \in bound}

Init == open = {} /\ bound = {}

Open(c) ==
    /\ c \notin open
    /\ open' = open \cup {c}
    /\ UNCHANGED bound

SignIn(c, u) ==
    /\ c \in open \ BoundConns
    /\ u \notin BoundUsers
    /\ bound' = bound \cup {<<c, u>>}
    /\ UNCHANGED open

SignOut(c, u) ==
    /\ <<c, u>> \in bound
    /\ bound' = bound \ {<<c, u>>}
    /\ UNCHANGED open

Close(c) ==
    /\ c \in open \ BoundConns
    /\ open' = open \ {c}
    /\ UNCHANGED bound

\* The process ends and is started again: nothing of this state is persistent.
Reset == open' = {} /\ bound' = {}

Next ==
    \/ \E c \in Conns : Open(c) \/ Close(c)
    \/ \E c \in Conns, u \in Users : SignIn(c, u) \/ SignOut(c, u)
    \/ Reset

Spec == Init /\ [][Next]_regVars
------------------------------------------------------------------------------
RegTypeOK ==
    /\ open \subseteq Conns
    /\ bound \subseteq open \X Users

\* Every session belongs to an open connection, and neither side of a session
\* has a second one.
OneToOne ==
    /\ BoundConns \subseteq open
    /\ \A a, b \in bound : a[1] = b[1] <=> a[2] = b[2]
==============================================================================
