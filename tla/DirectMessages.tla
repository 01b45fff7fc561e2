--------------------------- MODULE DirectMessages ----------------------------
(***************************************************************************)
(* Direct messages: handle_send_message and its push to a receiver that is *)
(* online, the backlog that handle_login sends, and the is_read column     *)
(* that decides what a backlog holds.                                      *)
(*                                                                         *)
(* Sessions come from SessionRegistry, which module Sessions implements: a *)
(* sign-in or sign-out is one step here.  Every connection has one thread, *)
(* so the program counter and the locals of a handler belong to the        *)
(* connection.  Each SQL statement and each send is a step: the handlers   *)
(* hold no lock across them, and the receiver's descriptor is used after   *)
(* sessions_mutex is released.                                             *)
(*                                                                         *)
(* Friendships do not change here.  A message is its row number; of its    *)
(* content only the length counts, as far as send_json_packet refuses the  *)
(* notification that carries it (row numbers grow with timestamps).        *)
(***************************************************************************)
EXTENDS Naturals, Sequences, FiniteSetsExt

CONSTANTS Conns, Users,
          Friends,      \* the friendships: a set of two-element sets of users
          NoConn, NoUser,
          Fittings,     \* which notifications of a row the packet limit admits
          MaxMessages   \* bound on the rows of direct_messages

ASSUME DMAssumption ==
    /\ Friends \subseteq SUBSET Users
    /\ NoConn \notin Conns
    /\ NoUser \notin Users
    /\ MaxMessages \in Nat

\* The packet of a backlog is the longer one.
ASSUME FittingAssumption ==
    Fittings \subseteq {{}, {"push"}, {"push", "backlog"}}

VARIABLES open, bound,  \* the registry
          pc,           \* where the thread of each connection is
          rows,         \* direct_messages: who wrote to whom, and which
                        \* of its notifications are small enough to be sent
          read,         \* the rows with is_read = 1
          job,          \* the row a send handler has just inserted, or 0
          target,       \* receiver_sock of a send handler
          backlog,      \* rows a login handler still has to send
          \* The rest is history, read by properties only.
          out,          \* rows written to a connection in its present session
          reached,      \* <<row, user>>: written while the user had the connection
          met,          \* rows whose receiver has had a session since the insert
          failed        \* connections whose backlog query failed

store == <<rows, read>>
locals == <<pc, job, target, backlog>>
history == <<out, reached, met, failed>>
vars == <<open, bound, store, locals, history>>

Registry == INSTANCE SessionRegistry

Ids == DOMAIN rows
Row == [from : Users, to : Users, fits : Fittings]
Goto(c, loc) == pc' = [pc EXCEPT ![c] = loc]
UserOn(c) ==
    IF \E u \in Users : <<c, u>> \in bound
    THEN CHOOSE u \in Users : <<c, u>> \in bound
    ELSE NoUser

Init ==
    /\ Registry!Init
    /\ pc = [c \in Conns |-> "closed"]
    /\ rows = <<>> /\ read = {}
    /\ job = [c \in Conns |-> 0]
    /\ target = [c \in Conns |-> NoConn]
    /\ backlog = [c \in Conns |-> {}]
    /\ out = [c \in Conns |-> {}]
    /\ reached = {} /\ met = {} /\ failed = {}
------------------------------------------------------------------------------
\* Connections.

Open(c) ==
    /\ Registry!Open(c)
    /\ Goto(c, "recv")
    /\ UNCHANGED <<store, job, target, backlog, history>>

\* logout, or the clean-up of a connection that is about to close.
SignOut(c, u) ==
    /\ pc[c] = "recv"
    /\ Registry!SignOut(c, u)
    /\ out' = [out EXCEPT ![c] = {}]
    /\ failed' = failed \ {c}
    /\ UNCHANGED <<store, locals, reached, met>>

Close(c) ==
    /\ pc[c] = "recv"
    /\ Registry!Close(c)
    /\ Goto(c, "closed")
    /\ UNCHANGED <<store, job, target, backlog, history>>

\* send_json_packet refuses a text over its limit, and its callers do not look at
\* what it returns.  The request that stored the row was under the limit; the
\* notification adds the sender's name and a timestamp, a longer one (the text of
\* the database, not a number of seconds) in a backlog than in a push.  Otherwise
\* it writes row m to c, whoever has the connection by now.
WriteTo(c, m, way) ==
    IF way \in rows[m].fits
    THEN /\ out' = [out EXCEPT ![c] = @ \cup {m}]
         /\ reached' = reached \cup {<<m, UserOn(c)>>}
    ELSE UNCHANGED <<out, reached>>
------------------------------------------------------------------------------
\* handle_login, from the session on.

SignIn(c, u) ==
    /\ pc[c] = "recv"
    /\ Registry!SignIn(c, u)
    /\ Goto(c, "fetch")
    /\ out' = [out EXCEPT ![c] = {}]
    /\ met' = met \cup {m \in Ids : rows[m].to = u}
    /\ UNCHANGED <<store, job, target, backlog, reached, failed>>

\* get_unread_messages
Unread(u) == {m \in Ids \ read : rows[m].to = u}

\* Mutant: the loop over the rows is missing, the first one is taken.
FetchOne(c) ==
    /\ pc[c] = "fetch"
    /\ backlog' = [backlog EXCEPT ![c] =
                     {m \in Unread(UserOn(c)) : m = Min(Unread(UserOn(c)))}]
    /\ Goto(c, "flush")
    /\ UNCHANGED <<open, bound, store, job, target, history>>

FetchBacklog(c) ==
    /\ pc[c] = "fetch"
    /\ backlog' = [backlog EXCEPT ![c] = Unread(UserOn(c))]
    /\ Goto(c, "flush")
    /\ UNCHANGED <<open, bound, store, job, target, history>>

FetchFails(c) ==
    /\ pc[c] = "fetch"
    /\ failed' = failed \cup {c}
    /\ Goto(c, "recv")
    /\ UNCHANGED <<open, bound, store, job, target, backlog, out, reached, met>>

\* One packet of the loop: oldest first, and is_read is left alone.  The loop goes
\* on after a packet that was refused.
SendBacklog(c) ==
    /\ pc[c] = "flush"
    /\ backlog[c] # {}
    /\ LET m == Min(backlog[c]) IN
          /\ WriteTo(c, m, "backlog")
          /\ backlog' = [backlog EXCEPT ![c] = @ \ {m}]
    /\ UNCHANGED <<open, bound, store, pc, job, target, met, failed>>

\* Mutant: the loop ends before the backlog does.
BacklogAbandoned(c) ==
    /\ pc[c] = "flush"
    /\ backlog' = [backlog EXCEPT ![c] = {}]
    /\ Goto(c, "recv")
    /\ UNCHANGED <<open, bound, store, job, target, history>>

BacklogSent(c) ==
    /\ pc[c] = "flush"
    /\ backlog[c] = {}
    /\ Goto(c, "recv")
    /\ UNCHANGED <<open, bound, store, job, target, backlog, history>>
------------------------------------------------------------------------------
\* handle_send_message

\* Mutant: a row number that is one ahead.
NextIdAhead == Len(rows) + 2

\* message_id is AUTOINCREMENT.
NextId == Len(rows) + 1

\* The session is found, the friendship checked and the row inserted.
Insert(c, u, v) ==
    /\ pc[c] = "recv"
    /\ <<c, u>> \in bound
    /\ {u, v} \in Friends
    /\ Len(rows) < MaxMessages
    /\ \E fits \in Fittings :
          rows' = Append(rows, [from |-> u, to |-> v, fits |-> fits])
    /\ job' = [job EXCEPT ![c] = NextId]
    /\ met' = IF v \in Registry!BoundUsers THEN met \cup {NextId} ELSE met
    /\ Goto(c, "lookup")
    /\ UNCHANGED <<open, bound, read, target, backlog, out, reached, failed>>

SocketsOf(u) == {b[1] : b \in {p \in bound : p[2] = u}}

\* The scan for the receiver, under sessions_mutex.
LookupFound(c) ==
    /\ pc[c] = "lookup"
    /\ \E r \in SocketsOf(rows[job[c]].to) : target' = [target EXCEPT ![c] = r]
    /\ Goto(c, "push")
    /\ UNCHANGED <<open, bound, store, job, backlog, history>>

\* Mutant: the messages are marked read whether there was somebody to push to.
LookupMissedMarks(c) ==
    /\ pc[c] = "lookup"
    /\ SocketsOf(rows[job[c]].to) = {}
    /\ Goto(c, "mark")
    /\ UNCHANGED <<open, bound, store, job, target, backlog, history>>

LookupMissed(c) ==
    /\ pc[c] = "lookup"
    /\ SocketsOf(rows[job[c]].to) = {}
    /\ job' = [job EXCEPT ![c] = 0]
    /\ Goto(c, "recv")
    /\ UNCHANGED <<open, bound, store, target, backlog, history>>

\* The descriptor may be closed by now (the write fails, unnoticed), or have
\* been given to another connection, or to another user's session.
Push(c) ==
    /\ pc[c] = "push"
    /\ IF target[c] \in open THEN WriteTo(target[c], job[c], "push")
                             ELSE UNCHANGED <<out, reached>>
    /\ target' = [target EXCEPT ![c] = NoConn]
    /\ Goto(c, "mark")
    /\ UNCHANGED <<open, bound, store, job, backlog, met, failed>>

\* mark_messages_read: every unread row from this sender to this receiver.
Marked(m) == {n \in Ids : rows[n].from = rows[m].from /\ rows[n].to = rows[m].to}

Mark(c) ==
    /\ pc[c] = "mark"
    /\ \/ read' = read \cup Marked(job[c])
       \/ UNCHANGED read                    \* the statement fails, unnoticed
    /\ job' = [job EXCEPT ![c] = 0]
    /\ Goto(c, "recv")
    /\ UNCHANGED <<open, bound, rows, target, backlog, history>>
------------------------------------------------------------------------------
\* The process ends (a write to a vanished peer is enough: no MSG_NOSIGNAL, no
\* handler for SIGPIPE) and comes back with the database only.
Restart ==
    /\ Registry!Reset
    /\ pc' = [c \in Conns |-> "closed"]
    /\ job' = [c \in Conns |-> 0]
    /\ target' = [c \in Conns |-> NoConn]
    /\ backlog' = [c \in Conns |-> {}]
    /\ out' = [c \in Conns |-> {}]
    /\ failed' = {}
    /\ UNCHANGED <<store, reached, met>>

LoginStep(c) ==
    FetchBacklog(c) \/ FetchFails(c) \/ SendBacklog(c) \/ BacklogSent(c)
SendStep(c) == LookupFound(c) \/ LookupMissed(c) \/ Push(c) \/ Mark(c)

Next ==
    \/ \E c \in Conns :
          \/ Open(c) \/ Close(c) \/ LoginStep(c) \/ SendStep(c)
          \/ \E u \in Users :
                \/ SignIn(c, u) \/ SignOut(c, u)
                \/ \E v \in Users : Insert(c, u, v)
    \/ Restart

\* A handler that has begun runs to its end.
Fairness == \A c \in Conns : WF_vars(LoginStep(c) \/ SendStep(c))

Spec == Init /\ [][Next]_vars /\ Fairness
------------------------------------------------------------------------------
DMTypeOK ==
    /\ Registry!RegTypeOK
    /\ pc \in [Conns -> {"closed", "recv", "fetch", "flush",
                         "lookup", "push", "mark"}]
    /\ rows \in Seq(Row) /\ Len(rows) <= MaxMessages
    /\ read \subseteq Ids
    /\ job \in [Conns -> Ids \cup {0}]
    /\ target \in [Conns -> Conns \cup {NoConn}]
    /\ backlog \in [Conns -> SUBSET Ids]
    /\ out \in [Conns -> SUBSET Ids]
    /\ reached \subseteq Ids \X (Users \cup {NoUser})
    /\ met \subseteq Ids
    /\ failed \subseteq open

\* The row is on its way: its sender's handler has still to look the receiver
\* up or to push.
InFlight(m) == \E c \in Conns : job[c] = m /\ pc[c] \in {"lookup", "push"}

\* The row is addressed to the user that is signed in on c.
IsFor(m, c) == m \in Ids /\ rows[m].to = UserOn(c)

\* No backlog packet can carry the row: it is stored, its sender is told 200, and
\* no login will ever show it.
TooLarge(m) == "backlog" \notin rows[m].fits

\* Insert-then-look-up on one side and sign-in-then-fetch on the other leave no
\* gap: when a login has finished, each unread message for its user has been
\* written to that session, or is about to be, unless it is too large for that.
NoSilentBacklog ==
    \A c \in Conns, u \in Users :
        <<c, u>> \in bound /\ pc[c] = "recv" /\ c \notin failed =>
            \A m \in Unread(u) : m \in out[c] \/ InFlight(m) \/ TooLarge(m)

\* A message stored while its receiver is away waits: until the receiver signs
\* in, nothing marks it read, so the next backlog will hold it.
OfflineMessageKept == read \subseteq met

\* A message that is unread once its receiver's login has fetched the backlog gets
\* to that session, unless the session ends first or the packet would be too large:
\* the backlog holds it or its sender's push is still to come, and a push by
\* somebody else that marks it meanwhile does not keep it away.  (One that marks it
\* before the fetch does: ReadMeansWritten.)
BacklogDelivered ==
    \A c \in Conns, m \in 1..MaxMessages :
        (/\ IsFor(m, c) /\ m \notin read /\ ~ TooLarge(m)
         /\ pc[c] # "fetch" /\ c \notin failed)
            ~> (m \in out[c] \/ ~ IsFor(m, c))

\* What the comments on is_read say: a read row has been written to its
\* receiver, or a login handler holds it and will write it.  The code does not
\* keep it, even where no query fails and no packet is too large.
ReadMeansWritten ==
    failed = {} =>
        \A m \in read :
            <<m, rows[m].to>> \in reached \/ \E c \in Conns : m \in backlog[c]

\* What design.txt says of the push, "Server->Receiver": no message is written
\* to a connection that another user has.  The code does not keep it.
WrittenToReceiver ==
    failed = {} => \A w \in reached : w[2] \in {rows[w[1]].to, NoUser}
==============================================================================
