# Verification of the chat server

TLA+ models of the chat server under `src/`, the TLC runs that check them and
the TLAPS proofs about them. The server is one process: `main` accepts
connections and starts a detached thread per connection; the threads share a
vector of sessions (one mutex), one SQLite connection and the sockets. Line
numbers are those of the commit under `src/`; `server.cpp` is
`src/src/server/server.cpp`, and so on.

## 1. Inventory

| Part | State | Operations | Talks to |
|---|---|---|---|
| Session table, presence and the look-ups of sessions (`server.cpp` 25-73, 164-229, 376-525; `account_service.cpp`) | `active_sessions`, `sessions_mutex`; column `accounts.user_state` | accept, login, logout, clean-up at the end of a connection; `find_session_by_socket`, without the mutex | every handler looks its session up; friend lists read `user_state` |
| Accounts (`server.cpp` 333-407; `account_service.cpp`) | table `accounts` | `register_user`, `verify_login`, look-ups | the shared connection's `last_insert_rowid` and `changes` |
| Direct messages (`server.cpp` 456-477, 527-584; `chat_service.cpp`) | table `direct_messages` with `is_read`; packets on the receiver's socket | send and push, mark as read, backlog at login | session table (receiver's socket), friendships |
| Friends (`server.cpp` 691-996; `friend_service.cpp`) | tables `friend_requests`, `friendships` | send, accept, reject, unfriend; lists | direct messages (only friends may write) |
| Groups (`server.cpp` 638-689, 998-1335; `group_service.cpp`) | tables `groups`, `group_members`, `group_messages` | create, add, remove, leave (dissolve), send; lists | the shared connection's `last_insert_rowid` |
| Activity log (`write_log.cpp`) | table `activity_logs` | one INSERT per handler | moves `last_insert_rowid` and `changes` of the shared connection |
| Framing (`utils/protocol.cpp`) | bytes of a socket | send and receive a packet: length, JSON, delimiter | every reply and push |
| Dispatcher (`server.cpp` 87-161, 164-229) | none | one request, one handler, one answer | client, handlers |
| Client (`client/client.cpp`) | `cached_friends` and its mutex, flags | a main thread with menus, a receive thread | dispatcher; pushes of other threads |
| Schema and seed tool (`database/reset_db.cpp`) | the database file | create, reset, seed by hand | constraints of every table |

What is hard, and what would make each part correct:

- **Session table.** Threads race for the mutex; descriptors are reused; the
  presence column is written after the mutex is released; the process can stop
  between the two; fifteen handlers walk the vector without the mutex. Correct:
  one session per user and per connection, a session never outlives its
  connection, presence agrees with the table, no path keeps the mutex, a handler
  acts for the user of its own connection.
- **Direct messages.** The row, the look-up of the receiver, the push and the
  mark are four steps without a lock, and the receiver may log in or out between
  any two. Correct: every message is either unread and in the next backlog, or
  has been written to its receiver; a push goes to its receiver only.
- **Friends.** Check-then-act over two tables by two users. Correct: a friend
  has been asked and has answered; no request between friends; the constraints
  of the schema never surface as a database error.
- **Groups.** Check-then-act on a group that may be dissolved, and on a name
  that may be taken again; the rowid of a shared connection. Correct: handlers
  act on the group they looked up, nothing outlives a group, the creator is a
  member.
- **Framing.** Sends and receives are partial; two threads may write to one
  socket; oversize packets are dropped. Correct: whole packets, in order, and
  both sides agree on the limits.
- **Accounts.** Check, insert and rowid are three steps over a connection that
  every thread uses. Correct: one registration of a name wins, and an answer is
  about the handler's own statement.
- **Client.** It sleeps for a second and goes on with what has arrived by then;
  the cache is shared with the receive thread; answers do not say what they
  answer. Correct: one answer to each request in order, no half list, an old list
  only when the answer was late or none.

`PROJECT.json` lists these hazards at their lines, with the properties that
watch each of them.

## 2. Modules

| Module | Models | Code |
|---|---|---|
| `SessionRegistry` | abstract: what the session table promises its users | `active_sessions` |
| `Sessions` | threads, mutex, table, presence, faults; implements `SessionRegistry` | accept, `handle_login`, `handle_logout`, `client_handler` |
| `SessionVector` | the vector as memory, the scan without the mutex; implements `SessionRegistry` | `find_session_by_socket` and its callers |
| `Accounts` | registration, login and removals over the shared connection | `handle_register`, `handle_login`, `account_service.cpp`, the users of `sqlite3_changes`, `write_log.cpp` |
| `DirectMessages` | send, push, mark, backlog, over `SessionRegistry` | `handle_send_message`, end of `handle_login`, `chat_service.cpp` |
| `Friends` | four handlers, statement by statement | `handle_*friend*`, `friend_service.cpp` |
| `Groups` | six handlers, statement by statement, with the schema | `handle_*group*`, `group_service.cpp` |
| `PacketChannel` | abstract: what a connection promises the code above it | `protocol.cpp` |
| `Wire` | partial sends and receives, several writers; implements `PacketChannel` | `protocol.cpp` |
| `Client` | both threads of the client against the dispatcher | `client.cpp`, `client_handler`, `process_client_request` |
| `*Proofs` | proofs about the module they are named after | |
| `MC*` | instances for TLC | |

How they fit together: `Sessions` and `SessionVector` both implement
`SessionRegistry`, and `DirectMessages` is written over it; `Wire` implements
`PacketChannel`, whose queues are the two directions of `Client`.

**Granularity.** What runs under `sessions_mutex` is one step, and so is one SQL
statement (SQLite serialises the statements of a shared connection) and one
packet. Everything between two steps interleaves with every other thread. In
`Sessions` the lock itself is a step too. `SessionVector` is about readers that
do not take the mutex, so a critical section is several steps there: an erase
assigns `socket_fd`, `user_id` and `username` of each later element one after the
other (`MoveFd`, `MoveUser`, `MoveName`) before the vector gets shorter
(`SignedOut`); a `push_back` constructs the element, or gives the full buffer
back, before the vector counts it (`SignIn`, `SignedIn`). `DirectMessages` takes sign-in and
sign-out as single steps of `SessionRegistry`: that is what
`ImplementsRegistry` allows. `Friends` and `Groups` give each user one program
counter: by `SessionsUnique` a user has one connection, which has one thread.
`Accounts` makes every read of `last_insert_rowid` and `changes` a step. `Wire`
counts cells: two for the length prefix, one for each unit of JSON, one for the
delimiter. In `Client` a step is a packet, the taking of the mutex, or an element
of the list that is copied.

**Correspondence.** A program counter names the next step of a handler
(`login_lock`, `login_cs`, `login_online`, ...); locals that a later step reads
are variables (`who` is `user_id`, `target` is `receiver_sock` or
`target_user_id`, `grp` is `group_id`). `SetState` is `update_user_state`;
`MaySignIn` the two 409 checks of login; `Erase` the loop that logout and the
clean-up share. Replies and log lines are left out, and so are requests that a
handler refuses before it changes anything: they would be steps that change
nothing. History variables are marked as such where they are declared; no guard
reads them. Definitions introduced by a comment "Mutant" are defects the
properties must catch and are part of no specification.

**Reading a session.** Handlers other than login and logout call
`find_session_by_socket` without the mutex. The models of the tables take the
sender's own session as it is when the handler begins. `SessionVector` says what
that rests on. `OwnSessionSeen` holds for a handler except in two cases. Its
buffer is freed by a growing `push_back`: the read is undefined behaviour, any
value. Or it stands on its own session, or in the slot just before, while an erase
elsewhere moves that session down by one. In the slot that is left, the scan may
pass without having seen the descriptor, and a handler answers 401 to a user that
is signed in; or the fields of the next element arrive, and it acts for that user.
In the slot that is reached, `socket_fd` is there before `user_id` is, so the scan
finds its own descriptor beside the `user_id` of whoever had the slot before, and
the handler acts for *that* user. `freed` and `slid` record the two cases; the
property says that there is no third.

## 3. Runs

| Run | Instance | Shows |
|---|---|---|
| `Sessions` | 2 threads, 3 descriptors, 2 users, 1 fault, fairness | `TypeOK`; `SessionsUnique`; `SessionOwned` (no inherited session); `NoGhostOnline`; `RegistrySpec` (refinement); `DisconnectCompletes`, `HandlersReturn` (no path keeps the mutex) |
| `SessionsPresence` | 2 threads, 2 descriptors, no fault | `PresenceAccurate` fails: an old session's "offline" overwrites a new one's "online" |
| `DirectMessages` | 3 connections, 2 users, 2 messages, each so long that no notification can carry it or so short that both can, fairness | `NoSilentBacklog`, `OfflineMessageKept`, `BacklogDelivered` |
| `DMRead` | 2 connections, 2 users, 2 messages | `ReadMeansWritten` fails: a message is marked read that was never sent |
| `DMPush` | 2 connections, 3 users, 1 message | `WrittenToReceiver` fails: a push reaches the connection's next user |
| `FriendsSafety` | 3 users, 2 requests ever made | `InsertNeverConflicts`, `FriendshipWasAsked`, `CheckedRequestStays` |
| `FriendsConsent` | 2 users | `AcceptedWasAsked` fails: a user accepts its own request |
| `Groups` | 2 users, 2 names, 2 groups | `ActsOnNamedGroup`, `OwnerCheckHolds`, `NothingOutlivesGroup`, `SenderWasMember`, `OwnerIsMember` (unless disturbed), `OwnerStaysMember` |
| `SessionVector` | 3 connections, 3 users, every step of an erase and a `push_back` | `OwnSessionSeen`, `StrangersRefused`, `RegistrySpec` (refinement), `RoomForAllIsSafe` |
| `Accounts` | 2 threads, 3 names, 2 passwords, 1 item, 3 accounts of which 1 seeded and banned | `OneWinner`, `OwnAnswer` |
| `Wire` | 2 writers, 3 packets of 1, 3 and 4 units, a limit of 3, room for 5 cells, fairness | `ChannelSpec` (refinement), `StopsAtEndOnly`, `SentIsHandled` |
| `Client` | 4 requests, 1 push, 1 friend, fairness | `OneAnswerEach`, `MenuSeesWholeList`, `StaleOnlyIfUnanswered`, `RequestAnswered`, `DisconnectNoticed` |

Every run that passes also checks its module's type invariant.

**Bounds.** Two threads are enough for every race of `Sessions`: a step concerns
its own thread and the holder of a session; a third descriptor lets a connection
end, another reuse its descriptor and a third stay. `DirectMessages` has a
connection for the sender and two for the receiver, which may leave one and come
back on the other, and a second message so that one can overtake or mark the
other. A second group is enough for a name that is taken again and an id that
might be. Three sessions make the vector grow 1, 2, 4 and put a session before
and one after the one that is looked for. `Accounts` has a seeded name, and two
more to fight over or to overtake each other with. In `Wire` a packet of three
units does not fit the room, so that it is sent in parts whatever the reader does,
and one of four is over the limit. In `Client` four requests are a login, a list
and two more, enough for the chat menu to ask twice; one friend is enough for a
list to be whole, empty or half copied. `MaxFaults`, `MaxMessages`, `MaxGroups`,
`MaxAsked`, `MaxAccounts`, `MaxPackets`, `MaxRequests` and `MaxPushes` are bounds
of the model only. Symmetry is used in `SessionVector` and `Accounts`, which have
no liveness property.

**Deadlock** is checked except in `Wire` and `Client`: a connection that is closed
and a client that has ended stop for good.

**Fairness.** `Sessions`: weak fairness of a thread's own steps (the scheduler
runs every thread) and strong fairness of taking the mutex: every critical
section is a scan of a vector, is left by every path and never nested, so a
waiting thread finds it free again and again, and glibc wakes waiters.
`DirectMessages`: weak fairness of the steps of a handler; a send that blocks
for ever because the peer stops reading is outside the model. `Wire`: weak
fairness of the reader and of a send that has begun: `send` and `recv` block and
are woken, and both ends have a thread whose loop comes back to `recv`. `Client`:
weak fairness of the receive thread, of the server's thread, of the end of a sleep
and of what the main thread does under the mutex; strong fairness of taking it, as
above. What users and clients choose, and faults, are never forced.

**Faults.** `Restart` (the process ends at any step; sessions, threads and locks
are lost, the database stays) is in every module about the server's tables; in
`Client` the server may close the connection at any step; in `Wire` the sending
side closes, and only it. A packet over the limit is not sent, and nobody notices:
a notification (`WriteTo`), or the answer to a query (`ServeTooLarge`).
Writes may be refused: `SetState`, `Mark`, `SendInsert`, `AcceptAdd`,
`RemoveRequest`, `UnfriendRemove`, `Refused`, `RegisterRefused`, `RemoveRefused`,
`LogRefused`. Queries may fail in `Accounts` and for a backlog; the SELECTs of
`Friends` and `Groups` do not fail in the model.

## 4. Proofs

`SessionsProofs`: the inductive invariant `IInv` is the safety properties with
what they rest on: a thread owns its descriptor from accept to close
(`SockOwned`), the mutex is held exactly in critical sections (`MutexHeld`), the
local `user_id` is set where it is read (`WhoKnown`), and between `push_back`
and the "online" write the session is still there (`FreshSession`).
`SessionsUnique` is inductive because both checks and the insertion are one
critical section; `SessionOwned` because erase comes before close and accept
returns a descriptor nobody has; `NoGhostOnline` needs `FreshSession`. The
lemmas take the groups of steps one by one; `TypesCorrect`, `NoDoubleLogin`,
`NoInheritedSession` and `OnlineMeansSession` follow, and `ImplementsRegistry`
maps every step to one of `SessionRegistry` or to a stutter. `MutexIsReleased` is
the part of `HandlersReturn` that needs no fairness.

`FriendsProofs`: the invariant adds that a send handler's check still holds
(`SendStillFree`: only a user's own handler inserts its requests) and that what
accept found was asked (`FoundWasAsked`). `InsertsAreClean`, `FriendsWereAsked`
and the action property `ChecksHold` follow.
The last follows the two directions in which accept's check looks: the
peer's request is taken away by nobody, the user's own by the peer's answer only
(`PeerAnswers`), since each handler removes the one row that leads to its user.

`GroupsProofs`: a handler past its lookup holds an id that has already been given
(`FoundIsOld`), so AUTOINCREMENT never gives it to a later group, and what the
SELECTs found of its owner and its name holds for as long as the group exists;
`RemovesAnother` and `SendWasChecked` carry the other checks to the write.
`HandlersKeepTheirGroup`, `CascadeIsComplete`, `SendersWereMembers` and the action
property `OwnersStay` follow.

`DirectMessagesProofs`: the argument for the hand-over between a sender and a
login. `UnreadComes` says of every session past its fetch that each unread row
is written, in the backlog, too large for a backlog packet, or on its way by a push *to that very connection*:
the lookup of a row that a fetch missed comes after the sign-in and so finds the
session, which is the only one (`OneToOne`). `MarksMet` says that the rows a send
handler will mark have met their receiver: it found a session, and while it runs
nobody else inserts rows of the same two users, since the sender's only session
is busy (`ThreadServes`). `NoMessageLeftBehind` and `BacklogSurvives` follow.
`MinIsMember` is the one fact about data, from the well-foundedness of < on Nat.

`GroupsProofs` has one more part: `CreatorInv` says that a group whose owner is no
member is one whose creation is still under way, with the rowid or the group id it
needs in hand, as long as nothing has disturbed one. `CreatorsJoin` follows.

`SessionVectorProofs`: the mutex gives one holder (`Mutex`), so what a login has
checked still holds when the vector counts the element (`MidSignIn`), and at most
one slot, the hole, is neither here nor there; `HoleCopies` says what is in it
between two assignments: the descriptor of the connection that erases or of the
element just moved, then a copy of the next element, member by member. The other
slots are one-to-one (`Unique`) and each name is that of its user (`NamesMatch`).
`InBuffer` ties the iterators of handlers to the buffer: one that is not in a freed
buffer points into the current one. `NothingToFind` covers the end of a scan: a
connection without a session occurs nowhere the scan will look, the hole and the
dead slots included. `AheadOrHeld` says where a session is otherwise: at the
iterator, ahead of it, or held by the pointer, and not half moved away from
either. A step of an erase keeps this unless the session that moves is the one the
handler stands on (`MoveFd`), and a find keeps it unless it is in the hole, where
the descriptor comes first (`Found`): that is what `slid` records.
`NoGrowthWithRoom` is a counting argument: sessions of distinct users inject into
the finite set of users, so a vector with room for all of them is full only when
nobody is left to sign in. `VectorImplementsRegistry` maps the end of a `push_back`
to adding a pair and the beginning of an erase to removing one; the assignments in
between stutter, since the pair that moves is always in one of the two slots.

`AccountsProofs`: `ClaimsOK` says that of each name at most one handler is between
its INSERT and its 201, and none once 201 was sent, since either has left a row of
that name that UNIQUE keeps alone; `SeedKept` and `NamesUnique` carry it to the
seed and to the passwords. `ThreadOK` says that what a handler has yet to read off
the connection is about its own statement unless a later one is on record in
`overtaken`. The lemma `Frame` settles all steps that leave the table alone.

`WireProofs`: the invariant has three parts beside the types. *Writers*: every
packet is in `sent` from its first cell on, and packets are told apart by their
numbers. *Marks* hold even when packets are mixed: the cells of one packet travel
in order, its writer is beyond all of them, and of a packet that was handled only
the end can still be on its way (`HandledIsBehind`). That is why no packet is
handled twice. That a text put together from several packets is never read as one
that somebody sent is part of the model (`Handled` takes a mixed text for one that
does not parse, or for no request), not something the proof shows. *Straight* holds until packets are
mixed: the cells from the reader to the writers form one line, in which each cell
follows the one before it, in its packet or as the first of the next packet sent.
The line is stated with the length prefix put back while the reader is in a body,
so that reading the prefix does not break it; the end of the line is where the
one writer in the middle of a packet stands. It gives the reader the right length
and the delimiter it expects. `ReaderStopsAtEnd`, `HandledInTurn` (what was handled
is a prefix of what was sent) and `WireImplementsChannel` follow; for the last,
the first cell of a packet is `Send`, the delimiter read is `Handle`, or
`HandleSpoiled` after a mix, and all other steps stutter.

`ClientProofs`: `MutexHeld` (who is in a critical section has the mutex) and
`CacheFilled` (outside the receive thread's critical section the cache is the list
cached last) are inductive together and give `CacheIsWhole`. `Ordered` follows a
request through five places: the queue to the server, the server's hands, the
queue back, the receive thread's hands, handled. What is in one place is older
than all that is in the places before it (`Chain`), and `Complete` says that while
both ends are there the places hold all the requests but those whose answer was
too large. Each step is one of a few moves of sets, and the lemmas about `About`,
`InTurn` and `Numbers` translate appending and taking off into them. `OneAnswerEach`
strings the five places together: `AnswersInTurn`. `ListOrRefusal` says what can
come to the request of a chat menu that waits: from it, and since nothing older can
be cached once that request is handled, come `StaleOnlyWithoutAnswer` and the action
property `CacheOnlyNewer` (a list in the cache gives way to a younger one only).

Assumptions: the constants that stand for nobody are not members of the sets they
extend, bounds are naturals (in `Wire` positive ones: a packet has something in it,
and a buffer room for something), the seed has one account to a name, and users are
finitely many where they are counted, a push fits wherever a backlog packet does
(`FittingAssumption`; `NullsAssumption`, `FriendsAssumption`,
`GroupsAssumption`, `DMAssumption`, `VectorAssumption`, `AccountsAssumption`,
`ClientAssumption`, `WireAssumption`); nothing else. `MaxSize` and `Room` are any
such numbers: the proofs need no relation between them.

Only model-checked: liveness (`DisconnectCompletes`, `HandlersReturn`,
`BacklogDelivered`, `SentIsHandled`, `RequestAnswered`, `DisconnectNoticed`),
which the prover does not handle under fairness. All the invariants, the action
properties and the refinements of the passing runs are theorems. `HandledInTurn`,
`MutexIsReleased` and `CacheOnlyNewer` are theorems that no run checks by
themselves.

## 5. Where code and documents disagree

Four runs end in a violation; `PROJECT.json` quotes the line each contradicts.
Besides, met while modelling and without a run of their own:

- Two users that ask each other for friendship at the same time both get 200 and
  both rows stay (`server.cpp` 760: check and INSERT are separate, and UNIQUE
  covers one direction), although `test/TEST_SUITE_README.md` 57 lists "Duplicate
  request prevention".
- `create_group` reads `last_insert_rowid` after other threads may have inserted
  (`group_service.cpp` 122): the creator is then added to another group or to
  none. `OwnerIsMember` states exactly when that cannot happen.
- `create_group`, a `bool`, returns -1, which its caller takes for true, when the
  group's INSERT cannot be prepared (`group_service.cpp` 103); when adding the
  creator fails it returns false (126), so the creator is told 500 and the group
  stays. `delete_group` returns true when the DELETE fails.
- A message just under the packet limit is stored and its sender told 200, but its
  notification, which adds a name and a timestamp, is over the limit:
  `send_json_packet` refuses it (`protocol.cpp` 100-104) and both callers ignore
  that (`server.cpp` 473, 574). The push then marks the row read, or every login
  tries it again in vain; the receiver never sees it. `NoSilentBacklog` and
  `BacklogDelivered` hold for all other messages (`TooLarge`).
- A user may accept its own request (`AcceptedWasAsked`), and the other user may
  reject that request between accept's check (`server.cpp` 830) and
  `add_friendship` (838): one is told that the request is rejected, and they are
  friends. `CheckedRequestStays` leaves this one way open and no other.
- A handler that scans `active_sessions` while an erase moves its session can act
  for a neighbour: see "Reading a session" in section 2.
- Of two registrations of one name at the same time the loser is told 500, not
  409; a failed login logs an uninitialised `user_id` (`server.cpp` 391-407).
- `handle_reject_friend_request` logs an accept when there is no session.
- design.txt announces pushes to group members and presence updates (types 2002,
  2006) that the server never sends; type 1005 (history), which the chat menu asks
  for, is not dispatched and is answered "Unknown request type".
- The client sets `is_logged_in` whatever the server answers and never reads it.

## 6. Not modelled

- `libs/json.hpp` is vendored and has 25,526 of the repository's 29,625 lines, so
  the modules can only ever be about a small part of all lines.
- The test programs: clients that send one request after another.
- The seed tool, run by hand on a file that no server has open; its schema is part
  of the steps that write the tables, and one of its accounts of `Accounts`.
- The texts of replies and logs; the lists and look-ups that only read;
  `handle_get_message_history`, which nothing calls.
- A peer that stops reading for ever: the thread that writes to it blocks, and a
  push blocks its sender's thread.

What is left of the plan: friendships that change while messages are sent (a
message may be stored after an unfriend, as the check and the INSERT of
`send_direct_message` are two statements).
