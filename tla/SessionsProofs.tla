--------------------------- MODULE SessionsProofs ----------------------------
(***************************************************************************)
(* Proofs about Sessions, for any numbers of threads, descriptors, users   *)
(* and faults.  IInv is the inductive invariant: the safety properties of  *)
(* Sessions, and what they rest on.                                        *)
(***************************************************************************)
EXTENDS Sessions, TLAPS

\* A thread serves a descriptor of its own from accept to close.
SockOwned ==
    /\ \A t \in Threads : pc[t] = "free" <=> sock[t] = NoFd
    /\ \A t, o \in Threads : sock[t] = sock[o] /\ sock[t] # NoFd => t = o

\* The thread in a critical section is the holder of the mutex.
MutexHeld == \A t \in Threads : pc[t] \in Critical <=> mutex = t

\* The local user_id is set wherever a later step reads it.
WhoKnown ==
    \A t \in Threads :
        pc[t] \in {"login_lock", "login_cs", "login_online"} \cup Erased
            => who[t] \in Users

\* Between push_back and the "online" write only this thread could erase the
\* session it has just created.
FreshSession ==
    \A t \in Threads :
        pc[t] = "login_online" => [fd |-> sock[t], user |-> who[t]] \in sessions

Shape == TypeOK /\ SockOwned /\ MutexHeld /\ WhoKnown

IInv == Shape /\ SessionsUnique /\ SessionOwned /\ FreshSession /\ NoGhostOnline
------------------------------------------------------------------------------
\* What each step does to types, descriptors, the mutex and the locals.
LEMMA ShapeStep == Shape /\ [Next]_vars => Shape'
<1> SUFFICES ASSUME Shape, [Next]_vars PROVE Shape'
  OBVIOUS
<1> USE NullsAssumption DEF Shape, TypeOK, SockOwned, MutexHeld, WhoKnown,
      Critical, Erased, Locations, Session, Goto
<1>1. ASSUME NEW t \in Threads, NEW fd \in Fds, Accept(t, fd) PROVE Shape'
  BY <1>1 DEF Accept
<1>2. ASSUME NEW t \in Threads, NEW u \in Users, LoginVerified(t, u)
      PROVE  Shape'
  BY <1>2 DEF LoginVerified
<1>3. ASSUME NEW t \in Threads, LogoutRequest(t) PROVE Shape'
  BY <1>3 DEF LogoutRequest
<1>4. ASSUME NEW t \in Threads, ClientCloses(t) PROVE Shape'
  BY <1>4 DEF ClientCloses
<1>5. ASSUME NEW t \in Threads, AcquireLock(t) PROVE Shape'
  BY <1>5 DEF AcquireLock, Lock
<1>6. ASSUME NEW t \in Threads, LoginStep(t) PROVE Shape'
  <2>1. CASE LoginCommitted(t)
    BY <2>1 DEF LoginCommitted
  <2>2. CASE LoginDenied(t)
    BY <2>2 DEF LoginDenied
  <2>3. CASE LoginOnline(t)
    BY <2>3 DEF LoginOnline, SetState
  <2> QED BY <1>6, <2>1, <2>2, <2>3 DEF LoginStep
<1>7. ASSUME NEW t \in Threads, LogoutStep(t) PROVE Shape'
  <2>1. CASE LogoutErase(t)
    BY <2>1 DEF LogoutErase, Erase, SessionsOf
  <2>2. CASE LogoutNotLoggedIn(t)
    BY <2>2 DEF LogoutNotLoggedIn, NothingToErase
  <2>3. CASE LogoutOffline(t)
    BY <2>3 DEF LogoutOffline, WriteOffline, SetState
  <2> QED BY <1>7, <2>1, <2>2, <2>3 DEF LogoutStep
<1>8. ASSUME NEW t \in Threads, ByeStep(t) PROVE Shape'
  <2>1. CASE EndOfStream(t)
    BY <2>1 DEF EndOfStream
  <2>2. CASE ByeErase(t)
    BY <2>2 DEF ByeErase, Erase, SessionsOf
  <2>3. CASE ByeNoSession(t)
    BY <2>3 DEF ByeNoSession, NothingToErase
  <2>4. CASE ByeOffline(t)
    BY <2>4 DEF ByeOffline, WriteOffline, SetState
  <2>5. CASE Close(t)
    BY <2>5 DEF Close
  <2> QED BY <1>8, <2>1, <2>2, <2>3, <2>4, <2>5 DEF ByeStep
<1>9. CASE Restart
  BY <1>9 DEF Restart
<1>10. CASE UNCHANGED vars
  BY <1>10 DEF vars
<1> QED
  BY <1>1, <1>2, <1>3, <1>4, <1>5, <1>6, <1>7, <1>8, <1>9, <1>10 DEF Next
------------------------------------------------------------------------------
\* The safety part, one lemma per group of steps that touch it.
Quiet == UNCHANGED <<sock, who, sessions, userState, faults>>

\* Requests, the lock and end of stream move one thread between locations at
\* which it holds no promise about a session.
LEMMA QuietStep ==
    ASSUME IInv, Quiet, NEW t \in Threads,
           \A o \in Threads \ {t} : pc'[o] = pc[o],
           pc[t] \notin {"free", "login_online", "bye_close"} \cup Erased,
           pc'[t] \notin {"free", "login_online", "bye_close"} \cup Erased
    PROVE  (SessionsUnique /\ SessionOwned /\ FreshSession /\ NoGhostOnline)'
<1> USE DEF IInv, Shape, TypeOK, Quiet, Erased, Session
<1>1. SessionsUnique'
  BY DEF SessionsUnique
<1>2. SessionOwned'
  <2> SUFFICES ASSUME NEW s \in sessions
               PROVE  \E o \in Threads : sock[o] = s.fd /\
                  pc'[o] \notin {"free", "logout_offline", "bye_offline", "bye_close"}
    BY DEF SessionOwned
  <2>1. PICK o \in Threads : sock[o] = s.fd /\
           pc[o] \notin {"free", "logout_offline", "bye_offline", "bye_close"}
    BY DEF SessionOwned
  <2> QED BY <2>1
<1>3. FreshSession'
  BY DEF FreshSession
<1>4. NoGhostOnline'
  BY DEF NoGhostOnline
<1> QED BY <1>1, <1>2, <1>3, <1>4

LEMMA LoginSafe ==
    ASSUME IInv, NEW t \in Threads, LoginStep(t)
    PROVE  (SessionsUnique /\ SessionOwned /\ FreshSession /\ NoGhostOnline)'
<1> USE DEF IInv, Shape, TypeOK, SockOwned, WhoKnown, Erased, Session, Goto
<1>1. CASE LoginCommitted(t)
  <2>1. SessionsUnique'
    BY <1>1 DEF LoginCommitted, MaySignIn, SessionsUnique
  <2>2. SessionOwned'
    BY <1>1 DEF LoginCommitted, SessionOwned
  <2>3. FreshSession'
    BY <1>1 DEF LoginCommitted, FreshSession
  <2>4. NoGhostOnline'
    BY <1>1 DEF LoginCommitted, NoGhostOnline
  <2> QED BY <2>1, <2>2, <2>3, <2>4
<1>2. CASE LoginDenied(t)
  BY <1>2 DEF LoginDenied, SessionsUnique, SessionOwned, FreshSession, NoGhostOnline
<1>3. CASE LoginOnline(t)
  <2>1. SessionsUnique' /\ FreshSession'
    BY <1>3 DEF LoginOnline, SessionsUnique, FreshSession
  <2>2. SessionOwned'
    BY <1>3 DEF LoginOnline, SessionOwned
  <2>3. NoGhostOnline'
    <3> SUFFICES ASSUME faults' = 0, NEW u \in Users, userState'[u] = "online"
                 PROVE  \/ \E s \in sessions : s.user = u
                        \/ \E o \in Threads : pc'[o] \in Erased /\ who'[o] = u
      BY <1>3 DEF LoginOnline, NoGhostOnline
    <3>1. CASE u = who[t]
      BY <1>3, <3>1 DEF LoginOnline, FreshSession
    <3>2. CASE u # who[t]
      <4>1. userState[u] = "online" /\ faults = 0
        BY <1>3, <3>2 DEF LoginOnline, SetState
      <4> QED BY <1>3, <4>1 DEF LoginOnline, NoGhostOnline
    <3> QED BY <3>1, <3>2
  <2> QED BY <2>1, <2>2, <2>3
<1> QED BY <1>1, <1>2, <1>3 DEF LoginStep

LEMMA EraseSafe ==
    ASSUME IInv, NEW t \in Threads, NEW from, NEW to \in Erased,
           from \in {"logout_cs", "bye_cs"}, Erase(t, from, to)
    PROVE  (SessionsUnique /\ SessionOwned /\ FreshSession /\ NoGhostOnline)'
<1> USE DEF IInv, Shape, TypeOK, SockOwned, WhoKnown, Erased, Session, Goto,
        Erase, SessionsOf
<1>1. SessionsUnique'
  BY DEF SessionsUnique
<1>2. PICK s \in sessions : /\ s.fd = sock[t]
                            /\ sessions' = sessions \ {s}
                            /\ who' = [who EXCEPT ![t] = s.user]
  OBVIOUS
<1>3. \A r \in sessions' : r.fd # sock[t]
  BY <1>2 DEF SessionsUnique
<1>4. SessionOwned'
  BY <1>2, <1>3 DEF SessionOwned
<1>5. FreshSession'
  BY <1>2 DEF FreshSession
<1>6. NoGhostOnline'
  BY <1>2 DEF NoGhostOnline
<1> QED BY <1>1, <1>4, <1>5, <1>6

LEMMA OfflineSafe ==
    ASSUME IInv, NEW t \in Threads, NEW from \in Erased,
           NEW to \in {"recv", "bye_close"}, WriteOffline(t, from, to)
    PROVE  (SessionsUnique /\ SessionOwned /\ FreshSession /\ NoGhostOnline)'
<1> USE DEF IInv, Shape, TypeOK, SockOwned, WhoKnown, Erased, Session, Goto,
        WriteOffline
<1>1. SessionsUnique' /\ FreshSession'
  BY DEF SessionsUnique, FreshSession
<1>2. SessionOwned'
  BY DEF SessionOwned
<1>3. NoGhostOnline'
  BY DEF NoGhostOnline, SetState
<1> QED BY <1>1, <1>2, <1>3

\* A thread that found no session, or that closes, leaves none behind.
LEMMA NothingSafe ==
    ASSUME IInv, NEW t \in Threads, NEW from, NEW to,
           from \in Critical \cup {"bye_close"},
           to \in {"recv", "bye_close", "free"},
           UNCHANGED <<who, sessions, userState, faults>>,
           SessionsOf(sock[t]) = {}, pc[t] = from, Goto(t, to),
           \A o \in Threads \ {t} : sock'[o] = sock[o]
    PROVE  (SessionsUnique /\ SessionOwned /\ FreshSession /\ NoGhostOnline)'
<1> USE DEF IInv, Shape, TypeOK, SockOwned, Critical, Erased, Session, Goto,
        SessionsOf
<1>1. SessionsUnique'
  BY DEF SessionsUnique
<1>2. SessionOwned'
  BY DEF SessionOwned
<1>3. FreshSession'
  BY DEF FreshSession
<1>4. NoGhostOnline'
  BY DEF NoGhostOnline
<1> QED BY <1>1, <1>2, <1>3, <1>4
\* A new connection starts with no session: every session's descriptor is
\* somebody's, and accept returns one that is nobody's.
LEMMA AcceptSafe ==
    ASSUME IInv, NEW t \in Threads, NEW fd \in Fds, Accept(t, fd)
    PROVE  (SessionsUnique /\ SessionOwned /\ FreshSession /\ NoGhostOnline)'
<1> USE DEF IInv, Shape, TypeOK, SockOwned, Erased, Session, Goto, Accept
<1>1. SessionsUnique'
  BY DEF SessionsUnique
<1>2. SessionOwned'
  BY DEF SessionOwned
<1>3. FreshSession'
  BY DEF FreshSession
<1>4. NoGhostOnline'
  BY DEF NoGhostOnline
<1> QED BY <1>1, <1>2, <1>3, <1>4

LEMMA RestartSafe ==
    ASSUME IInv, Restart
    PROVE  (SessionsUnique /\ SessionOwned /\ FreshSession /\ NoGhostOnline)'
BY DEF IInv, Shape, TypeOK, Restart, SessionsUnique, SessionOwned, FreshSession,
       NoGhostOnline

\* A descriptor whose thread is about to close it has no session.
LEMMA ClosingHasNone ==
    ASSUME IInv, NEW t \in Threads, pc[t] = "bye_close"
    PROVE  SessionsOf(sock[t]) = {}
BY DEF IInv, Shape, TypeOK, SockOwned, SessionOwned, SessionsOf, Session
------------------------------------------------------------------------------
LEMMA InductiveStep == IInv /\ [Next]_vars => IInv'
<1> SUFFICES ASSUME IInv, [Next]_vars PROVE IInv'
  OBVIOUS
<1> DEFINE Safe == SessionsUnique /\ SessionOwned /\ FreshSession /\ NoGhostOnline
<1>1. Shape'
  BY ShapeStep DEF IInv
<1>2. ASSUME NEW t \in Threads, NEW fd \in Fds, Accept(t, fd) PROVE Safe'
  BY <1>2, AcceptSafe
<1>3. ASSUME NEW t \in Threads, NEW u \in Users, LoginVerified(t, u) PROVE Safe'
  <2> USE DEF IInv, Shape, TypeOK, Erased, Session, Goto, LoginVerified
  <2>1. SessionsUnique'
    BY <1>3 DEF SessionsUnique
  <2>2. SessionOwned'
    BY <1>3 DEF SessionOwned
  <2>3. FreshSession'
    BY <1>3 DEF FreshSession
  <2>4. NoGhostOnline'
    BY <1>3 DEF NoGhostOnline
  <2> QED BY <2>1, <2>2, <2>3, <2>4
<1>4. ASSUME NEW t \in Threads,
             LogoutRequest(t) \/ EndOfStream(t) \/ AcquireLock(t)
      PROVE  Safe'
  <2> USE DEF IInv, Shape, TypeOK, Erased, Goto, LogoutRequest, EndOfStream,
          AcquireLock, Lock
  <2>1. Quiet
    BY <1>4 DEF Quiet
  <2>2. \A o \in Threads \ {t} : pc'[o] = pc[o]
    BY <1>4
  <2>3. /\ pc[t] \notin {"free", "login_online", "bye_close"} \cup Erased
        /\ pc'[t] \notin {"free", "login_online", "bye_close"} \cup Erased
    BY <1>4
  <2> QED BY <2>1, <2>2, <2>3, QuietStep
<1>5. ASSUME NEW t \in Threads, ClientCloses(t) PROVE Safe'
  BY <1>5 DEF ClientCloses, IInv, SessionsUnique, SessionOwned, FreshSession,
              NoGhostOnline
<1>6. ASSUME NEW t \in Threads, LoginStep(t) PROVE Safe'
  BY <1>6, LoginSafe
<1>7. ASSUME NEW t \in Threads, LogoutErase(t) \/ ByeErase(t) PROVE Safe'
  <2>1. CASE Erase(t, "logout_cs", "logout_offline")
    <3> QED BY <2>1, EraseSafe DEF Erased
  <2>2. CASE Erase(t, "bye_cs", "bye_offline")
    <3> QED BY <2>2, EraseSafe DEF Erased
  <2> QED BY <1>7, <2>1, <2>2 DEF LogoutErase, ByeErase
<1>8. ASSUME NEW t \in Threads, LogoutOffline(t) \/ ByeOffline(t) PROVE Safe'
  <2>1. CASE WriteOffline(t, "logout_offline", "recv")
    <3> QED BY <2>1, OfflineSafe DEF Erased
  <2>2. CASE WriteOffline(t, "bye_offline", "bye_close")
    <3> QED BY <2>2, OfflineSafe DEF Erased
  <2> QED BY <1>8, <2>1, <2>2 DEF LogoutOffline, ByeOffline
<1>9. ASSUME NEW t \in Threads, LogoutNotLoggedIn(t) \/ ByeNoSession(t)
      PROVE  Safe'
  <2> USE DEF NothingToErase, Critical
  <2>1. CASE NothingToErase(t, "logout_cs", "recv")
    <3> QED BY <2>1, NothingSafe
  <2>2. CASE NothingToErase(t, "bye_cs", "bye_close")
    <3> QED BY <2>2, NothingSafe
  <2> QED BY <1>9, <2>1, <2>2 DEF LogoutNotLoggedIn, ByeNoSession
<1>10. ASSUME NEW t \in Threads, Close(t) PROVE Safe'
  <2>1. SessionsOf(sock[t]) = {}
    BY <1>10, ClosingHasNone DEF Close
  <2>2. \A o \in Threads \ {t} : sock'[o] = sock[o]
    BY <1>10 DEF Close, IInv, Shape, TypeOK
  <2> QED BY <1>10, <2>1, <2>2, NothingSafe DEF Close
<1>11. ASSUME Restart PROVE Safe'
  BY <1>11, RestartSafe
<1>12. ASSUME UNCHANGED vars PROVE Safe'
  BY <1>12 DEF vars, IInv, SessionsUnique, SessionOwned, FreshSession,
              NoGhostOnline
<1>13. Safe'
  BY <1>2, <1>3, <1>4, <1>5, <1>6, <1>7, <1>8, <1>9, <1>10, <1>11, <1>12
     DEF Next, LogoutStep, ByeStep
<1> QED BY <1>1, <1>13 DEF IInv

LEMMA InductiveInit == Init => IInv
<1> SUFFICES ASSUME Init PROVE IInv
  OBVIOUS
<1>1. Shape
  BY NullsAssumption DEF Init, Shape, TypeOK, SockOwned, MutexHeld, WhoKnown,
     Critical, Erased, Locations
<1>2. SessionsUnique /\ SessionOwned /\ FreshSession /\ NoGhostOnline
  BY DEF Init, SessionsUnique, SessionOwned, FreshSession, NoGhostOnline
<1> QED BY <1>1, <1>2 DEF IInv

LEMMA Invariance == Spec => []IInv
BY InductiveInit, InductiveStep, PTL DEF Spec
------------------------------------------------------------------------------
\* Every variable of the table, the threads and the database keeps its type,
\* whatever number of threads run the handlers.
THEOREM TypesCorrect == Spec => []TypeOK
<1>1. IInv => TypeOK
  BY DEF IInv, Shape
<1> QED BY <1>1, Invariance, PTL

\* No interleaving of logins, logouts and disconnects signs a user in twice or
\* gives one connection two sessions.
THEOREM NoDoubleLogin == Spec => []SessionsUnique
<1>1. IInv => SessionsUnique
  BY DEF IInv
<1> QED BY <1>1, Invariance, PTL

\* A session is always that of the connection that now has its descriptor.
THEOREM NoInheritedSession == Spec => []SessionOwned
<1>1. IInv => SessionOwned
  BY DEF IInv
<1> QED BY <1>1, Invariance, PTL

\* Until the first failed write or restart, a user shown online has a session
\* or is about to be written offline.
THEOREM OnlineMeansSession == Spec => []NoGhostOnline
<1>1. IInv => NoGhostOnline
  BY DEF IInv
<1> QED BY <1>1, Invariance, PTL

\* No path of a handler leaves sessions_mutex locked behind it, the early returns
\* included: whoever holds it is inside a critical section, and nobody else is.
THEOREM MutexIsReleased ==
    Spec => [](\A t \in Threads : pc[t] \in Critical <=> mutex = t)
<1>1. IInv => \A t \in Threads : pc[t] \in Critical <=> mutex = t
  BY DEF IInv, Shape, MutexHeld
<1> QED BY <1>1, Invariance, PTL
------------------------------------------------------------------------------
\* The handlers implement the abstract registry that DirectMessages builds on.
LEMMA RegistryInit == Init => Registry!Init
BY DEF Init, Registry!Init, Live

\* A step that keeps the table and the descriptors is invisible there.
LEMMA Invisible ==
    ASSUME UNCHANGED <<sock, sessions>>,
           \A t \in Threads : pc[t] = "free" <=> pc'[t] = "free"
    PROVE  UNCHANGED Registry!regVars
<1>1. Live' = Live
  BY DEF Live
<1>2. {sock'[t] : t \in Live'} = {sock[t] : t \in Live}
  BY <1>1
<1> QED BY <1>2 DEF Registry!regVars

LEMMA AcceptOpens ==
    ASSUME IInv, NEW t \in Threads, NEW fd \in Fds, Accept(t, fd)
    PROVE  Registry!Open(fd)
<1> USE DEF IInv, Shape, TypeOK, Accept, Goto, Live
<1>1. fd \notin {sock[o] : o \in Live}
  OBVIOUS
<1>2. {sock'[o] : o \in Live'} = {sock[o] : o \in Live} \cup {fd}
  <2>1. Live' = Live \cup {t} /\ t \notin Live
    OBVIOUS
  <2>2. sock'[t] = fd /\ \A o \in Live : sock'[o] = sock[o]
    BY <2>1
  <2> QED BY <2>1, <2>2
<1> QED BY <1>1, <1>2 DEF Registry!Open

LEMMA CommitSignsIn ==
    ASSUME IInv, NEW t \in Threads, LoginCommitted(t)
    PROVE  \E c \in Fds, u \in Users : Registry!SignIn(c, u)
<1> USE DEF IInv, Shape, TypeOK, SockOwned, WhoKnown, Goto, LoginCommitted,
        MaySignIn, Session
<1>1. sock[t] \in {sock[o] : o \in Live} /\ Live' = Live
  BY DEF Live
<1>2. sock[t] \notin Registry!BoundConns /\ who[t] \notin Registry!BoundUsers
  BY DEF Registry!BoundConns, Registry!BoundUsers
<1>3. {<<s.fd, s.user>> : s \in sessions'}
        = {<<s.fd, s.user>> : s \in sessions} \cup {<<sock[t], who[t]>>}
  <2> DEFINE new == [fd |-> sock[t], user |-> who[t]]
  <2>1. sessions' = sessions \cup {new}
    OBVIOUS
  <2>2. new.fd = sock[t] /\ new.user = who[t]
    OBVIOUS
  <2> HIDE DEF new, IInv, LoginCommitted
  <2>3. \A p : p \in {<<s.fd, s.user>> : s \in sessions'} <=>
               p \in {<<s.fd, s.user>> : s \in sessions} \/ p = <<new.fd, new.user>>
    BY <2>1
  <2> QED BY <2>2, <2>3
<1>4. sock[t] \in Fds /\ who[t] \in Users
  OBVIOUS
<1> QED BY <1>1, <1>2, <1>3, <1>4 DEF Registry!SignIn

LEMMA EraseSignsOut ==
    ASSUME IInv, NEW t \in Threads, NEW from, NEW to,
           from # "free", to # "free", Erase(t, from, to)
    PROVE  \E u \in Users : Registry!SignOut(sock[t], u)
<1> USE DEF IInv, Shape, TypeOK, Goto, Erase, SessionsOf, Session
<1>1. PICK s \in sessions : s.fd = sock[t] /\ sessions' = sessions \ {s}
  OBVIOUS
<1>2. <<sock[t], s.user>> \in {<<r.fd, r.user>> : r \in sessions}
  BY <1>1
<1>3. {<<r.fd, r.user>> : r \in sessions'}
        = {<<r.fd, r.user>> : r \in sessions} \ {<<sock[t], s.user>>}
  <2>1. \A r \in sessions : <<r.fd, r.user>> = <<sock[t], s.user>> => r = s
    BY <1>1
  <2> QED BY <1>1, <2>1
<1>4. {sock'[o] : o \in Live'} = {sock[o] : o \in Live}
  <2>1. Live' = Live
    BY DEF Live
  <2> QED BY <2>1
<1>5. s.user \in Users
  BY <1>1
<1> QED BY <1>2, <1>3, <1>4, <1>5 DEF Registry!SignOut

LEMMA CloseCloses ==
    ASSUME IInv, NEW t \in Threads, Close(t)
    PROVE  \E c \in Fds : Registry!Close(c)
<1> USE DEF IInv, Shape, TypeOK, SockOwned, Goto, Close
<1>1. sock[t] \in Fds /\ sock[t] \in {sock[o] : o \in Live}
  BY DEF Live
<1>2. sock[t] \notin Registry!BoundConns
  BY ClosingHasNone DEF Registry!BoundConns, SessionsOf, Session
<1>3. {sock'[o] : o \in Live'} = {sock[o] : o \in Live} \ {sock[t]}
  <2>1. Live' = Live \ {t} /\ t \in Live
    BY DEF Live
  <2>2. \A o \in Live' : sock'[o] = sock[o] /\ sock[o] # sock[t]
    BY <2>1 DEF Live
  <2>3. \A o \in Live : sock[o] # sock[t] => o \in Live'
    BY <2>1
  <2> QED BY <2>1, <2>2, <2>3
<1> QED BY <1>1, <1>2, <1>3 DEF Registry!Close

LEMMA RegistryStep == IInv /\ [Next]_vars => [Registry!Next]_(Registry!regVars)
<1> SUFFICES ASSUME IInv, [Next]_vars PROVE [Registry!Next]_(Registry!regVars)
  OBVIOUS
<1> DEFINE Done == Registry!Next \/ UNCHANGED Registry!regVars
<1>1. ASSUME NEW t \in Threads, NEW fd \in Fds, Accept(t, fd) PROVE Done
  BY <1>1, AcceptOpens DEF Registry!Next
<1>2. ASSUME NEW t \in Threads, LoginCommitted(t) PROVE Done
  BY <1>2, CommitSignsIn DEF Registry!Next
<1>3. ASSUME NEW t \in Threads, LogoutErase(t) \/ ByeErase(t) PROVE Done
  <2>1. sock[t] \in Fds
    BY <1>3 DEF LogoutErase, ByeErase, Erase, IInv, Shape, TypeOK, SockOwned
  <2>2. \E u \in Users : Registry!SignOut(sock[t], u)
    <3>1. CASE Erase(t, "logout_cs", "logout_offline")
      BY <3>1, EraseSignsOut
    <3>2. CASE Erase(t, "bye_cs", "bye_offline")
      BY <3>2, EraseSignsOut
    <3> QED BY <1>3, <3>1, <3>2 DEF LogoutErase, ByeErase
  <2> QED BY <2>1, <2>2 DEF Registry!Next
<1>4. ASSUME NEW t \in Threads, Close(t) PROVE Done
  BY <1>4, CloseCloses DEF Registry!Next
<1>5. ASSUME Restart PROVE Done
  <2>1. Registry!Reset
    BY <1>5 DEF Restart, Registry!Reset, Live
  <2> QED BY <2>1 DEF Registry!Next
<1>6. ASSUME NEW t \in Threads,
             \/ (\E u \in Users : LoginVerified(t, u)) \/ LogoutRequest(t)
             \/ ClientCloses(t) \/ AcquireLock(t) \/ LoginDenied(t)
             \/ LoginOnline(t) \/ LogoutNotLoggedIn(t) \/ LogoutOffline(t)
             \/ EndOfStream(t) \/ ByeNoSession(t) \/ ByeOffline(t)
      PROVE  Done
  <2>1. UNCHANGED <<sock, sessions>>
    BY <1>6 DEF LoginVerified, LogoutRequest, ClientCloses, AcquireLock, Lock,
         LoginDenied, LoginOnline, LogoutNotLoggedIn, LogoutOffline, EndOfStream,
         ByeNoSession, ByeOffline, NothingToErase, WriteOffline
  <2>2. pc \in [Threads -> Locations]
    BY DEF IInv, Shape, TypeOK
  <2>3. \A o \in Threads : pc[o] = "free" <=> pc'[o] = "free"
    BY <1>6, <2>2 DEF LoginVerified, LogoutRequest, ClientCloses, AcquireLock,
         Lock, LoginDenied, LoginOnline, LogoutNotLoggedIn, LogoutOffline,
         EndOfStream, ByeNoSession, ByeOffline, NothingToErase, WriteOffline, Goto
  <2> QED BY <2>1, <2>3, Invisible
<1>7. ASSUME UNCHANGED vars PROVE Done
  BY <1>7, Invisible DEF vars
<1> QED
  BY <1>1, <1>2, <1>3, <1>4, <1>5, <1>6, <1>7
     DEF Next, LoginStep, LogoutStep, ByeStep

\* login, logout, clean-up and accept, run by any number of threads over one
\* mutex, are the atomic operations of SessionRegistry.
THEOREM ImplementsRegistry == Spec => RegistrySpec
<1>1. RegistrySpec <=> Registry!Init /\ [][Registry!Next]_(Registry!regVars)
  BY DEF RegistrySpec, Registry!Spec
<1> QED BY <1>1, RegistryInit, RegistryStep, Invariance, PTL DEF Spec
==============================================================================
