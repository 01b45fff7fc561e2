---------------------------- MODULE SessionVector ----------------------------
(***************************************************************************)
(* active_sessions as the std::vector it is (server.cpp).                  *)
(*                                                                         *)
(* Login, logout and the clean-up change the vector under sessions_mutex.  *)
(* The other fifteen handlers begin with find_session_by_socket, which     *)
(* walks the vector WITHOUT the mutex, and keep the pointer it returns:    *)
(* session->user_id is read at once and session->username, in              *)
(* handle_send_message, after several database calls.  Meanwhile other     *)
(* threads erase (later elements slide down one slot) and push_back (which,*)
(* when the vector is full, moves all elements to a larger buffer and      *)
(* frees the old one).  What such a reader can fall between is a step:     *)
(*  - erase assigns the elements after the erased one to their left        *)
(*    neighbours one by one, and each of them member by member;            *)
(*  - push_back constructs the element before it counts it, and gives a    *)
(*    full buffer back before the vector has the new one (libstdc++).      *)
(*                                                                         *)
(* The vector is the memory of its current buffer.  What is left in a slot *)
(* past the end is modelled: erase leaves the integers of the last element *)
(* behind, but its string is destroyed.  A read of a freed buffer yields   *)
(* any value, as does the string of an element that is destroyed or that   *)
(* is being assigned.  A string moved from is empty, NoUser here.          *)
(***************************************************************************)
EXTENDS Naturals, Sequences, FiniteSets

CONSTANTS Conns,    \* connections, by descriptor
          Users,
          NoUser    \* an id that is no user's

ASSUME VectorAssumption == IsFiniteSet(Users) /\ NoUser \notin Users

VARIABLES open,     \* connections being served
          mem,      \* the slots of the buffer that have ever been constructed
          len,      \* size(): slots 1..len are alive
          cap,      \* capacity()
          hole,     \* the slot an erase is assigning to, 0 when none is
          moved,    \* how many members of the next slot it has assigned: 0..2
          pc,       \* where the handler of each connection is
          pos,      \* its iterator, later its pointer: a slot
          last,     \* the end() its loop compares with
          actor,    \* the user_id it has read and acts for, or signs in
          name,     \* whose username it has read
          freed,    \* handlers whose iterator or pointer is in a freed buffer
          \* History, read by properties only: handlers that stood on their own
          \* session, or on where it was going, while an erase moved it.
          slid

erase == <<hole, moved>>
vector == <<mem, len, cap>>
locals == <<pc, pos, last, actor, name>>
vars == <<open, vector, erase, locals, freed, slid>>

Session == [fd : Conns, user : Users, name : Users \cup {NoUser}]
NewSession(c, u) == [fd |-> c, user |-> u, name |-> u]

\* The slots that hold the sessions; the hole is a copy, or the erased one.
Live == 1..len
Slots == Live \ {hole}
SlotsOf(c) == {i \in Slots : mem[i].fd = c}
Bound == {<<mem[i].fd, mem[i].user>> : i \in Slots}

\* Handlers that read without the mutex, and the one that may have it.
Busy == {c \in Conns : pc[c] \in {"scan", "found", "refused", "acting", "named"}}
Holders == {c \in Conns : pc[c] \in {"pushing", "growing", "erasing"}}

Init ==
    /\ open = {}
    /\ mem = <<>> /\ len = 0 /\ cap = 0
    /\ hole = 0 /\ moved = 0
    /\ pc = [c \in Conns |-> "idle"]
    /\ pos = [c \in Conns |-> 0]
    /\ last = [c \in Conns |-> 0]
    /\ actor = [c \in Conns |-> NoUser]
    /\ name = [c \in Conns |-> NoUser]
    /\ freed = {} /\ slid = {}

Goto(c, loc) == pc' = [pc EXCEPT ![c] = loc]
------------------------------------------------------------------------------
\* Connections.

Open(c) ==
    /\ c \notin open
    /\ open' = open \cup {c}
    /\ UNCHANGED <<vector, erase, locals, freed, slid>>

Close(c) ==
    /\ c \in open /\ pc[c] = "idle" /\ SlotsOf(c) = {}
    /\ open' = open \ {c}
    /\ UNCHANGED <<vector, erase, locals, freed, slid>>
------------------------------------------------------------------------------
\* Login, under the mutex.

\* Mutants: the loop finds other users only, or looks at one element only.
MaySignInTwice(c, u) == \A i \in Live : mem[i].fd # c
MaySignInLast(c, u) == len > 0 => mem[len].fd # c /\ mem[len].user # u

\* The two checks of handle_login.
MaySignIn(c, u) == \A i \in Live : mem[i].fd # c /\ mem[i].user # u

\* push_back with room to spare constructs the slot after the last one.
Construct(c, u) ==
    /\ len < cap
    /\ mem' = [i \in 1..(IF len < Len(mem) THEN Len(mem) ELSE len + 1) |->
                  IF i = len + 1 THEN NewSession(c, u) ELSE mem[i]]
    /\ Goto(c, "pushing")
    /\ UNCHANGED freed

\* push_back into a full vector moves the elements to a new buffer and frees
\* the old one, which the running handlers are in.
Vacate(c) ==
    /\ len = cap
    /\ freed' = freed \cup Busy
    /\ Goto(c, "growing")
    /\ UNCHANGED mem

SignIn(c, u) ==
    /\ c \in open /\ pc[c] = "idle" /\ Holders = {}
    /\ MaySignIn(c, u)
    /\ Construct(c, u) \/ Vacate(c)
    /\ actor' = [actor EXCEPT ![c] = u]
    /\ UNCHANGED <<open, len, cap, erase, pos, last, name, slid>>

\* Mutant: doubling alone, which leaves an empty vector without room.
CapDoubled == 2 * cap

\* Growth doubles the capacity.
CapGrown == IF cap = 0 THEN 1 ELSE 2 * cap

\* The vector counts the new element, in the old buffer or in the new one.
SignedIn(c) ==
    /\ \/ pc[c] = "pushing" /\ UNCHANGED <<mem, cap>>
       \/ /\ pc[c] = "growing"
          /\ mem' = Append(SubSeq(mem, 1, len), NewSession(c, actor[c]))
          /\ cap' = CapGrown
    /\ len' = len + 1
    /\ Goto(c, "idle")
    /\ actor' = [actor EXCEPT ![c] = NoUser]
    /\ UNCHANGED <<open, erase, pos, last, name, freed, slid>>
------------------------------------------------------------------------------
\* Logout and the clean-up, under the mutex: erase(it).

SignOut(c, k) ==
    /\ k \in SlotsOf(c) /\ pc[c] = "idle" /\ Holders = {}
    /\ hole' = k
    /\ Goto(c, "erasing")
    /\ UNCHANGED <<open, vector, moved, pos, last, actor, name, freed, slid>>

\* The next element is assigned to the hole: socket_fd, user_id, username.
MoveFd(c) ==
    /\ pc[c] = "erasing" /\ hole < len /\ moved = 0
    /\ mem' = [mem EXCEPT ![hole].fd = mem[hole + 1].fd]
    /\ moved' = 1
    /\ slid' = slid \cup {d \in Busy : d = mem[hole + 1].fd /\ pos[d] = hole + 1}
    /\ UNCHANGED <<open, len, cap, hole, locals, freed>>

MoveUser(c) ==
    /\ pc[c] = "erasing" /\ moved = 1
    /\ mem' = [mem EXCEPT ![hole].user = mem[hole + 1].user]
    /\ moved' = 2
    /\ UNCHANGED <<open, len, cap, hole, locals, freed, slid>>

MoveName(c) ==
    /\ pc[c] = "erasing" /\ moved = 2
    /\ mem' = [mem EXCEPT ![hole].name = mem[hole + 1].name,
                          ![hole + 1].name = NoUser]
    /\ hole' = hole + 1 /\ moved' = 0
    /\ UNCHANGED <<open, len, cap, locals, freed, slid>>

\* The last slot is destroyed and keeps its integers.
SignedOut(c) ==
    /\ pc[c] = "erasing" /\ hole = len
    /\ len' = len - 1
    /\ hole' = 0
    /\ Goto(c, "idle")
    /\ UNCHANGED <<open, mem, cap, moved, pos, last, actor, name, freed, slid>>
------------------------------------------------------------------------------
\* A handler other than login and logout.

\* Mutant: the end is that of the memory, one past the live slots.
EndTooFar == IF len < Len(mem) THEN len + 1 ELSE len

End == len

\* begin() and end() are evaluated once, when the loop starts.  The vector does
\* not have its new buffer while it is growing.
Begin(c) ==
    /\ c \in open /\ pc[c] = "idle"
    /\ Goto(c, "scan")
    /\ pos' = [pos EXCEPT ![c] = 1]
    /\ last' = [last EXCEPT ![c] = End]
    /\ freed' = IF \E d \in Conns : pc[d] = "growing" THEN freed \cup {c} ELSE freed
    /\ UNCHANGED <<open, vector, erase, actor, name, slid>>

\* The socket_fd in the slot the iterator is at, compared with that of c.
Matches(c) == mem[pos[c]].fd = c

\* Mutant: the loop stops one element early.
AtEndEarly(c) == pos[c] >= last[c]

AtEnd(c) == pos[c] > last[c]

Found(c) ==
    /\ pc[c] = "scan" /\ ~ AtEnd(c)
    /\ c \in freed \/ Matches(c)
    /\ Goto(c, "found")
    /\ slid' = IF pos[c] = hole /\ moved > 0 THEN slid \cup {c} ELSE slid
    /\ UNCHANGED <<open, vector, erase, pos, last, actor, name, freed>>

Advance(c) ==
    /\ pc[c] = "scan" /\ ~ AtEnd(c)
    /\ c \in freed \/ ~ Matches(c)
    /\ pos' = [pos EXCEPT ![c] = @ + 1]
    /\ UNCHANGED <<open, vector, erase, pc, last, actor, name, freed, slid>>

\* nullptr: the handler answers 401.
NotFound(c) ==
    /\ pc[c] = "scan" /\ AtEnd(c)
    /\ Goto(c, "refused")
    /\ UNCHANGED <<open, vector, erase, pos, last, actor, name, freed, slid>>

AnyUser == Users \cup {NoUser}

\* session->user_id, an integer: whatever the slot holds now.
ReadUser(c) ==
    /\ pc[c] = "found"
    /\ \E u \in IF c \in freed THEN AnyUser ELSE {mem[pos[c]].user} :
          actor' = [actor EXCEPT ![c] = u]
    /\ Goto(c, "acting")
    /\ UNCHANGED <<open, vector, erase, pos, last, name, freed, slid>>

\* The string in the slot is destroyed, or at one end of an assignment.
Torn(i) == i > len \/ (moved = 2 /\ i \in {hole, hole + 1})

\* session->username, after the database calls of the handler.
ReadName(c) ==
    /\ pc[c] = "acting"
    /\ \E u \in IF c \in freed \/ Torn(pos[c]) THEN AnyUser ELSE {mem[pos[c]].name} :
          name' = [name EXCEPT ![c] = u]
    /\ Goto(c, "named")
    /\ UNCHANGED <<open, vector, erase, pos, last, actor, freed, slid>>

Return(c) ==
    /\ pc[c] \in {"refused", "acting", "named"}
    /\ Goto(c, "idle")
    /\ pos' = [pos EXCEPT ![c] = 0]
    /\ last' = [last EXCEPT ![c] = 0]
    /\ actor' = [actor EXCEPT ![c] = NoUser]
    /\ name' = [name EXCEPT ![c] = NoUser]
    /\ freed' = freed \ {c}
    /\ slid' = slid \ {c}
    /\ UNCHANGED <<open, vector, erase>>

\* The process ends, for instance on a read of freed memory.
Restart ==
    /\ open' = {}
    /\ mem' = <<>> /\ len' = 0 /\ cap' = 0
    /\ hole' = 0 /\ moved' = 0
    /\ pc' = [c \in Conns |-> "idle"]
    /\ pos' = [c \in Conns |-> 0]
    /\ last' = [c \in Conns |-> 0]
    /\ actor' = [c \in Conns |-> NoUser]
    /\ name' = [c \in Conns |-> NoUser]
    /\ freed' = {} /\ slid' = {}

Connection(c) ==
    \/ Open(c) \/ Close(c)
    \/ \E u \in Users : SignIn(c, u)
    \/ SignedIn(c)
    \/ \E k \in Live : SignOut(c, k)
    \/ MoveFd(c) \/ MoveUser(c) \/ MoveName(c) \/ SignedOut(c)

Handler(c) ==
    \/ Begin(c) \/ Found(c) \/ Advance(c) \/ NotFound(c)
    \/ ReadUser(c) \/ ReadName(c) \/ Return(c)

Next == (\E c \in Conns : Connection(c) \/ Handler(c)) \/ Restart

Spec == Init /\ [][Next]_vars
------------------------------------------------------------------------------
VectorTypeOK ==
    /\ open \subseteq Conns
    /\ mem \in Seq(Session)
    /\ len \in 0..Len(mem) /\ cap \in Nat /\ Len(mem) <= cap
    /\ hole \in 0..len /\ moved \in 0..2
    /\ pc \in [Conns -> {"idle", "pushing", "growing", "erasing",
                         "scan", "found", "refused", "acting", "named"}]
    /\ pos \in [Conns -> Nat] /\ last \in [Conns -> Nat]
    /\ actor \in [Conns -> AnyUser] /\ name \in [Conns -> AnyUser]
    /\ freed \subseteq Conns /\ slid \subseteq Conns

\* push_back and erase, the shift and the spare slots included, keep the
\* registry of SessionRegistry: a set of one-to-one sessions.
Registry == INSTANCE SessionRegistry WITH bound <- Bound
RegistrySpec == Registry!Spec

\* What the unlocked scan is worth.  A handler finds the session of its
\* connection exactly when there is one, acts for its user, and reads that
\* user's name: erases elsewhere, and push_backs into spare capacity, do it no
\* harm.  It may fail in two cases only.  The buffer was freed under it.  Or it
\* stood on its own session while an erase moved that session one slot down: in
\* the slot it leaves, the neighbour's user_id or name arrives (or the scan goes
\* on without having seen its descriptor); in the slot it comes to, its
\* descriptor is there before its user_id is, and the handler acts for whoever
\* had the slot before.
OwnSessionSeen ==
    \A c \in Conns \ (freed \cup slid) :
        /\ pc[c] = "refused" => SlotsOf(c) = {}
        /\ pc[c] \in {"acting", "named"} => <<c, actor[c]>> \in Bound
        /\ pc[c] = "named" => name[c] = actor[c]

\* "If a session exists here, the user is authenticated": as long as its
\* buffer is not freed, a connection without a session is refused, whatever
\* erase leaves in the slots past the end, slides under the scan or has half
\* assigned.
StrangersRefused ==
    \A c \in Conns \ freed :
        pc[c] \in {"found", "acting", "named"} => SlotsOf(c) # {}

\* The buffer is freed only while the vector grows to a size it has never had.
\* Once it has had room for every user, no handler's pointer dangles again.
RoomForAllIsSafe ==
    [][cap >= Cardinality(Users) => freed' \subseteq freed]_vars
==============================================================================
