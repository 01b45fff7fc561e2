------------------------------ MODULE Sessions -------------------------------
(***************************************************************************)
(* The session table of the server (server.cpp) and the presence column    *)
(* accounts.user_state that is kept beside it.                             *)
(*                                                                         *)
(* main accepts a connection and gives it a thread; the thread reads one   *)
(* request at a time and runs its handler.  The handlers that write the    *)
(* table are login, logout and the clean-up at the end of client_handler.  *)
(* Each takes sessions_mutex, changes active_sessions, RELEASES the mutex, *)
(* and only then writes user_state: the steps below keep that order.       *)
(*                                                                         *)
(* The table is a set here: every scan of it that is modelled runs under   *)
(* the mutex, so the order of the vector does not show.  Replies and the   *)
(* activity log are left out.  Users are the accounts verify_login accepts *)
(* (a banned or unknown one is only ever refused).                         *)
(***************************************************************************)
EXTENDS Naturals

CONSTANTS Threads,              \* client threads (ids are reused)
          Fds,                  \* socket descriptors (reused by the kernel)
          Users,
          NoThread, NoFd, NoUser,
          MaxFaults             \* bound on restarts and failed writes

ASSUME NullsAssumption ==
    /\ NoThread \notin Threads
    /\ NoFd \notin Fds
    /\ NoUser \notin Users
    /\ MaxFaults \in Nat

VARIABLES pc,         \* where each thread is
          sock,       \* client_sock of each thread
          who,        \* the local user_id of the handler a thread runs
          sessions,   \* active_sessions
          mutex,      \* holder of sessions_mutex
          userState,  \* accounts.user_state, the only persistent variable
          eof,        \* threads whose next recv reports end or error
          faults      \* restarts and failed writes so far

vars == <<pc, sock, who, sessions, mutex, userState, eof, faults>>

Critical == {"login_cs", "logout_cs", "bye_cs"}

\* The handler has erased the session and not yet written "offline".
Erased == {"logout_offline", "bye_offline"}

Locations == Critical \cup Erased \cup
    {"free", "recv", "login_lock", "login_online", "logout_lock",
     "bye_lock", "bye_close"}

Session == [fd : Fds, user : Users]
SessionsOf(fd) == {s \in sessions : s.fd = fd}
Live == {t \in Threads : pc[t] # "free"}

Init ==
    /\ pc = [t \in Threads |-> "free"]
    /\ sock = [t \in Threads |-> NoFd]
    /\ who = [t \in Threads |-> NoUser]
    /\ sessions = {}
    /\ mutex = NoThread
    /\ userState = [u \in Users |-> "offline"]
    /\ eof = {}
    /\ faults = 0
------------------------------------------------------------------------------
Goto(t, loc) == pc' = [pc EXCEPT ![t] = loc]

\* accept returns a descriptor that is not open.  SQLite opens and closes
\* files meanwhile, so it need not be the lowest of the free ones here.
Accept(t, fd) ==
    /\ pc[t] = "free"
    /\ fd \notin {sock[o] : o \in Threads}
    /\ Goto(t, "recv")
    /\ sock' = [sock EXCEPT ![t] = fd]
    /\ UNCHANGED <<who, sessions, mutex, userState, eof, faults>>

\* The peer closes, dies or breaks the framing.
ClientCloses(t) ==
    /\ pc[t] \notin {"free", "bye_lock", "bye_cs", "bye_offline", "bye_close"}
    /\ t \notin eof
    /\ eof' = eof \cup {t}
    /\ UNCHANGED <<pc, sock, who, sessions, mutex, userState, faults>>

\* pthread_mutex_lock on the way into one of the three critical sections.
Lock(t, from, to) ==
    /\ pc[t] = from
    /\ mutex = NoThread
    /\ mutex' = t
    /\ Goto(t, to)
    /\ UNCHANGED <<sock, who, sessions, userState, eof, faults>>

AcquireLock(t) ==
    \/ Lock(t, "login_lock", "login_cs")
    \/ Lock(t, "logout_lock", "logout_cs")
    \/ Lock(t, "bye_lock", "bye_cs")

\* Mutant: the two bound parameters of the UPDATE swapped.
SetStateSwapped(u, state) ==
    userState' = [userState EXCEPT ![u] = u] /\ UNCHANGED faults

\* update_user_state: the callers ignore its result, so a write that the
\* database refuses only leaves the old value behind.
SetState(u, state) ==
    \/ /\ userState' = [userState EXCEPT ![u] = state]
       /\ UNCHANGED faults
    \/ /\ faults < MaxFaults
       /\ faults' = faults + 1
       /\ UNCHANGED userState
------------------------------------------------------------------------------
\* handle_login, until verify_login has accepted the password.
LoginVerified(t, u) ==
    /\ pc[t] = "recv"
    /\ t \notin eof
    /\ Goto(t, "login_lock")
    /\ who' = [who EXCEPT ![t] = u]
    /\ UNCHANGED <<sock, sessions, mutex, userState, eof, faults>>

\* Mutants: one of the two checks is missing.
MaySignInAgain(fd, u) == \A s \in sessions : s.fd # fd
MaySignInOver(fd, u)  == \A s \in sessions : s.user # u

\* The two checks under the mutex.
MaySignIn(fd, u) ==
    /\ \A s \in sessions : s.fd # fd
    /\ \A s \in sessions : s.user # u

LoginCommitted(t) ==
    /\ pc[t] = "login_cs"
    /\ MaySignIn(sock[t], who[t])
    /\ sessions' = sessions \cup {[fd |-> sock[t], user |-> who[t]]}
    /\ mutex' = NoThread
    /\ Goto(t, "login_online")
    /\ UNCHANGED <<sock, who, userState, eof, faults>>

\* Mutant: an early return that keeps the mutex.
LoginDeniedLocked(t) ==
    /\ pc[t] = "login_cs"
    /\ ~ MaySignIn(sock[t], who[t])
    /\ Goto(t, "recv")
    /\ UNCHANGED <<sock, who, sessions, mutex, userState, eof, faults>>

LoginDenied(t) ==
    /\ pc[t] = "login_cs"
    /\ ~ MaySignIn(sock[t], who[t])
    /\ mutex' = NoThread
    /\ Goto(t, "recv")
    /\ who' = [who EXCEPT ![t] = NoUser]
    /\ UNCHANGED <<sock, sessions, userState, eof, faults>>

LoginOnline(t) ==
    /\ pc[t] = "login_online"
    /\ SetState(who[t], "online")
    /\ Goto(t, "recv")
    /\ who' = [who EXCEPT ![t] = NoUser]
    /\ UNCHANGED <<sock, sessions, mutex, eof>>
------------------------------------------------------------------------------
LogoutRequest(t) ==
    /\ pc[t] = "recv"
    /\ t \notin eof
    /\ Goto(t, "logout_lock")
    /\ UNCHANGED <<sock, who, sessions, mutex, userState, eof, faults>>

EndOfStream(t) ==
    /\ pc[t] = "recv"
    /\ t \in eof
    /\ Goto(t, "bye_lock")
    /\ UNCHANGED <<sock, who, sessions, mutex, userState, eof, faults>>

\* The loop over active_sessions that logout and the clean-up share: the
\* session of this socket is erased, its user remembered for the write.
Erase(t, from, to) ==
    /\ pc[t] = from
    /\ \E s \in SessionsOf(sock[t]) :
          /\ sessions' = sessions \ {s}
          /\ who' = [who EXCEPT ![t] = s.user]
    /\ mutex' = NoThread
    /\ Goto(t, to)
    /\ UNCHANGED <<sock, userState, eof, faults>>

NothingToErase(t, from, to) ==
    /\ pc[t] = from
    /\ SessionsOf(sock[t]) = {}
    /\ mutex' = NoThread
    /\ Goto(t, to)
    /\ UNCHANGED <<sock, who, sessions, userState, eof, faults>>

WriteOffline(t, from, to) ==
    /\ pc[t] = from
    /\ SetState(who[t], "offline")
    /\ Goto(t, to)
    /\ who' = [who EXCEPT ![t] = NoUser]
    /\ UNCHANGED <<sock, sessions, mutex, eof>>

LogoutErase(t)      == Erase(t, "logout_cs", "logout_offline")
LogoutNotLoggedIn(t) == NothingToErase(t, "logout_cs", "recv")
LogoutOffline(t)    == WriteOffline(t, "logout_offline", "recv")

\* Mutants: the clean-up forgets the session, or the "offline" write (the bug
\* that todo.txt records as done), or to release the mutex.
ByeKeepsSession(t) ==
    /\ pc[t] = "bye_cs"
    /\ mutex' = NoThread
    /\ Goto(t, "bye_close")
    /\ UNCHANGED <<sock, who, sessions, userState, eof, faults>>
ByeStaysOnline(t) == Erase(t, "bye_cs", "bye_close")
ByeKeepsLock(t) ==
    /\ pc[t] = "bye_cs"
    /\ SessionsOf(sock[t]) = {}
    /\ Goto(t, "bye_close")
    /\ UNCHANGED <<sock, who, sessions, mutex, userState, eof, faults>>

ByeErase(t)         == Erase(t, "bye_cs", "bye_offline")
ByeNoSession(t)     == NothingToErase(t, "bye_cs", "bye_close")
ByeOffline(t)       == WriteOffline(t, "bye_offline", "bye_close")

Close(t) ==
    /\ pc[t] = "bye_close"
    /\ Goto(t, "free")
    /\ sock' = [sock EXCEPT ![t] = NoFd]
    /\ eof' = eof \ {t}
    /\ UNCHANGED <<who, sessions, mutex, userState, faults>>

\* The process ends at any point and the container starts it again:
\* init_database opens the file and leaves user_state as it finds it.
Restart ==
    /\ faults < MaxFaults
    /\ faults' = faults + 1
    /\ pc' = [t \in Threads |-> "free"]
    /\ sock' = [t \in Threads |-> NoFd]
    /\ who' = [t \in Threads |-> NoUser]
    /\ sessions' = {}
    /\ mutex' = NoThread
    /\ eof' = {}
    /\ UNCHANGED userState
------------------------------------------------------------------------------
LoginStep(t)  == LoginCommitted(t) \/ LoginDenied(t) \/ LoginOnline(t)
LogoutStep(t) == LogoutErase(t) \/ LogoutNotLoggedIn(t) \/ LogoutOffline(t)
ByeStep(t)    == EndOfStream(t) \/ ByeErase(t) \/ ByeNoSession(t)
                    \/ ByeOffline(t) \/ Close(t)

Next ==
    \/ \E t \in Threads :
          \/ \E fd \in Fds : Accept(t, fd)
          \/ \E u \in Users : LoginVerified(t, u)
          \/ LogoutRequest(t) \/ ClientCloses(t) \/ AcquireLock(t)
          \/ LoginStep(t) \/ LogoutStep(t) \/ ByeStep(t)
    \/ Restart

\* A thread that can run does, and a thread that waits for the mutex is not
\* overtaken for ever: critical sections are finite and never nested.  What
\* clients do, and faults, are never forced.
Fairness ==
    \A t \in Threads :
        /\ WF_vars(LoginStep(t) \/ LogoutStep(t) \/ ByeStep(t))
        /\ SF_vars(AcquireLock(t))

Spec == Init /\ [][Next]_vars /\ Fairness
------------------------------------------------------------------------------
TypeOK ==
    /\ pc \in [Threads -> Locations]
    /\ sock \in [Threads -> Fds \cup {NoFd}]
    /\ who \in [Threads -> Users \cup {NoUser}]
    /\ sessions \subseteq Session
    /\ mutex \in Threads \cup {NoThread}
    /\ userState \in [Users -> {"online", "offline"}]
    /\ eof \subseteq Threads
    /\ faults \in 0..MaxFaults

\* handle_login's two 409 answers: no connection holds two sessions and no
\* user is signed in twice, whatever logins run at the same time.
SessionsUnique ==
    \A a, b \in sessions : a.fd = b.fd <=> a.user = b.user

\* client_handler erases the session of its socket before it closes the
\* socket.  So every session belongs to a thread that still serves that
\* descriptor, and a new connection never inherits the session of an older one
\* with the same descriptor.
SessionOwned ==
    \A s \in sessions : \E t \in Threads :
        /\ sock[t] = s.fd
        /\ pc[t] \notin {"free", "logout_offline", "bye_offline", "bye_close"}

\* Presence errs on one side only: as long as nothing has failed, a user that
\* the friend list shows online has a session, or a handler that is about to
\* write "offline" for it.
NoGhostOnline ==
    faults = 0 =>
        \A u \in Users : userState[u] = "online" =>
            \/ \E s \in sessions : s.user = u
            \/ \E t \in Threads : pc[t] \in Erased /\ who[t] = u

\* The other side, as the friend list promises it: a signed-in user whose
\* login has finished is recorded online.  The code does not keep it.
PresenceAccurate ==
    faults = 0 =>
        \A s \in sessions :
            (\E t \in Threads : sock[t] = s.fd /\ pc[t] = "recv")
                => userState[s.user] = "online"

\* The table is the registry: each step of a handler opens, binds, unbinds or
\* closes one connection there, or does nothing.
Registry == INSTANCE SessionRegistry WITH
    Conns <- Fds,
    open  <- {sock[t] : t \in Live},
    bound <- {<<s.fd, s.user>> : s \in sessions}

RegistrySpec == Registry!Spec

\* The thread of a connection that has ended gets through the clean-up and
\* returns: no path of login, logout or clean-up keeps the mutex.
DisconnectCompletes ==
    \A t \in Threads : t \in eof ~> pc[t] = "free"

\* A login or logout that has been started is answered, unless the process
\* restarts first: its thread gets back to reading requests.
HandlersReturn ==
    \A t \in Threads :
        pc[t] \in {"login_lock", "logout_lock"} ~> pc[t] \in {"recv", "free"}
==============================================================================
