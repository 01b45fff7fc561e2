-------------------------------- MODULE Client -------------------------------
(***************************************************************************)
(* The client program (client.cpp) against the dispatcher of the server    *)
(* (client_handler and process_client_request in server.cpp).              *)
(*                                                                         *)
(* The client has two threads.  The main thread runs the menus: it sends a *)
(* request, sleeps for a second and goes on, whether the answer has come   *)
(* or not.  The receive thread prints what arrives, and copies a friend    *)
(* list into cached_friends, under friends_cache_mutex, where the chat     *)
(* menu looks for the friend to chat with.  The server has one thread per  *)
(* connection, which answers request after request; threads of other       *)
(* connections push messages.                                              *)
(*                                                                         *)
(* A direction of the connection is a queue of packets, as PacketChannel   *)
(* promises while no packets are mixed (module Wire).  Requests are        *)
(* numbered; what a handler does to the tables is in the other modules,    *)
(* and of its answer only a friend list is kept.                           *)
(***************************************************************************)
EXTENDS Naturals, Sequences, SequencesExt

CONSTANTS Friends,      \* ids that friend lists may hold, and others
          NoFriend,     \* -1
          MaxRequests,  \* bound on the requests of the user
          MaxPushes     \* bound on the pushes to this client

ASSUME ClientAssumption ==
    /\ NoFriend \notin Friends
    /\ {MaxRequests, MaxPushes} \subseteq Nat

VARIABLES menu,         \* where the main thread is
          receiver,     \* where the receive thread is
          packet,       \* the packet the receive thread works on
          is_running, in_chat_mode, current_chat_partner_id,
          cached_friends,
          mutex,        \* who has friends_cache_mutex: "free", "main", "receive"
          receiver_id,  \* the id typed into the chat menu
          asked,        \* the number of the last request
          toServer, toClient,
          session,      \* whether the server has a session for this connection
          server,       \* where its thread is: "recv", "serving" or "closed"
          job,          \* the request it serves
          pushes,       \* how many pushes there have been
          \* The rest is history, read by properties only.
          answers,      \* numbers of the answers handled, in that order
          dropped,      \* requests whose answer was too large to send
          refused,      \* requests for a list that were answered with a refusal
          cached,       \* the list that was cached last, and its request
          chatAsk,      \* the request of the chat menu for the list
          basis,        \* cached, when the friend to chat with was looked up
          late          \* its answer had not been handled by then

flags == <<is_running, in_chat_mode, current_chat_partner_id>>
cache == <<cached_friends, mutex>>
queues == <<toServer, toClient>>
serverState == <<session, server, job, pushes, dropped, refused>>
chat == <<receiver_id, chatAsk, basis, late>>
vars == <<menu, receiver, packet, flags, cache, asked, queues, serverState, chat,
          answers, cached>>

\* "list" asks for the friend list, "query" for friend requests, groups or the
\* messages of a group: their answers grow with the tables.
Kinds == {"login", "logout", "list", "query", "history", "other"}
Request == [number : 1..MaxRequests, kind : Kinds]
Numbers(queue) == [i \in DOMAIN queue |-> queue[i].number]

Reply(n) == [type |-> 2000, number |-> n, friends |-> {}]
FriendList(n, s) == [type |-> 2004, number |-> n, friends |-> s]
Pushed == [type |-> 2001, number |-> 0, friends |-> {}]
NoRequest == [number |-> 0, kind |-> "other"]
NoList == [number |-> 0, friends |-> {}]

Init ==
    /\ menu = "main" /\ receiver = "test" /\ packet = Pushed
    /\ is_running = TRUE /\ in_chat_mode = FALSE
    /\ current_chat_partner_id = NoFriend
    /\ cached_friends = {} /\ mutex = "free"
    /\ receiver_id = NoFriend /\ asked = 0
    /\ toServer = <<>> /\ toClient = <<>>
    /\ session = FALSE /\ server = "recv"
    /\ job = NoRequest /\ pushes = 0
    /\ answers = <<>> /\ dropped = {} /\ refused = {}
    /\ cached = NoList /\ chatAsk = 0 /\ basis = NoList /\ late = FALSE
------------------------------------------------------------------------------
\* The main thread.

\* send_request.  Nobody reads what is sent to a server that has gone.
SendRequest(kind) ==
    /\ asked < MaxRequests
    /\ asked' = asked + 1
    /\ toServer' = IF server = "closed" THEN toServer
                   ELSE Append(toServer, [number |-> asked + 1, kind |-> kind])
    /\ UNCHANGED toClient

\* The locals of the chat menu end with it.
LeaveChatMenu ==
    /\ menu' = "pause"
    /\ receiver_id' = NoFriend
    /\ chatAsk' = 0 /\ basis' = NoList /\ late' = FALSE

\* An entry of a menu that sends its request and returns.
MenuRequest(kind) ==
    /\ menu = "main"
    /\ SendRequest(kind)
    /\ menu' = "pause"
    /\ UNCHANGED <<receiver, packet, flags, cache, serverState, chat, answers, cached>>

\* "Chat with Friend": the list is asked for, then the thread sleeps.
ChatAskList ==
    /\ menu = "main"
    /\ SendRequest("list")
    /\ menu' = "sleep"
    /\ chatAsk' = asked + 1
    /\ UNCHANGED <<receiver, packet, flags, cache, serverState, receiver_id, basis, late,
                   answers, cached>>

LockCache(from, to) ==
    /\ menu = from /\ mutex = "free"
    /\ mutex' = "main"
    /\ menu' = to
    /\ UNCHANGED <<receiver, packet, flags, cached_friends, asked, queues, serverState, chat,
                   answers, cached>>

ChatLock == LockCache("sleep", "look")

\* An empty cache ends the menu.
ChatLook ==
    /\ menu = "look"
    /\ IF cached_friends = {} THEN LeaveChatMenu ELSE menu' = "prompt" /\ UNCHANGED chat
    /\ mutex' = "free"
    /\ UNCHANGED <<receiver, packet, flags, cached_friends, asked, queues, serverState, answers,
                   cached>>

ChatChoose(f) ==
    /\ menu = "prompt"
    /\ receiver_id' = f
    /\ menu' = "chosen"
    /\ UNCHANGED <<receiver, packet, flags, cache, asked, queues, serverState, chatAsk, basis,
                   late, answers, cached>>

\* The input is not a number.
ChatAbandon ==
    /\ menu = "prompt"
    /\ LeaveChatMenu
    /\ UNCHANGED <<receiver, packet, flags, cache, asked, queues, serverState, answers, cached>>

ChatLockAgain == LockCache("chosen", "validate")

ChatValidate ==
    /\ menu = "validate"
    /\ IF receiver_id \in cached_friends
       THEN /\ menu' = "enter"
            /\ basis' = cached
            /\ late' = ~ Contains(answers, chatAsk)
            /\ UNCHANGED <<receiver_id, chatAsk>>
       ELSE LeaveChatMenu
    /\ mutex' = "free"
    /\ UNCHANGED <<receiver, packet, flags, cached_friends, asked, queues, serverState, answers,
                   cached>>

\* in_chat_mode is set before the partner, and reset before it.
ChatEnter ==
    /\ menu = "enter"
    /\ in_chat_mode' = TRUE
    /\ menu' = "greet"
    /\ UNCHANGED <<receiver, packet, is_running, current_chat_partner_id, cache, asked, queues,
                   serverState, chat, answers, cached>>

ChatHistory ==
    /\ menu = "greet"
    /\ current_chat_partner_id' = receiver_id
    /\ SendRequest("history")
    /\ menu' = "chat"
    /\ UNCHANGED <<receiver, packet, is_running, in_chat_mode, cache, serverState, chat,
                   answers, cached>>

\* The loop sends until the user types /quit; it does not look at is_running.
ChatSend ==
    /\ menu = "chat"
    /\ SendRequest("other")
    /\ UNCHANGED <<menu, receiver, packet, flags, cache, serverState, chat, answers, cached>>

\* Mutant: the flag stays set.
ChatQuitStill ==
    /\ menu = "chat"
    /\ menu' = "leave"
    /\ UNCHANGED <<receiver, packet, flags, cache, asked, queues, serverState, chat, answers,
                   cached>>

ChatQuit ==
    /\ menu = "chat"
    /\ in_chat_mode' = FALSE
    /\ menu' = "leave"
    /\ UNCHANGED <<receiver, packet, is_running, current_chat_partner_id, cache, asked, queues,
                   serverState, chat, answers, cached>>

ChatLeave ==
    /\ menu = "leave"
    /\ current_chat_partner_id' = NoFriend
    /\ LeaveChatMenu
    /\ UNCHANGED <<receiver, packet, is_running, in_chat_mode, cache, asked, queues,
                   serverState, answers, cached>>

\* "0. Exit", or any entry that sends nothing.
MenuNothing ==
    /\ menu = "main"
    /\ is_running' \in {is_running, FALSE}
    /\ menu' = "pause"
    /\ UNCHANGED <<receiver, packet, in_chat_mode, current_chat_partner_id, cache, asked, queues,
                   serverState, chat, answers, cached>>

\* After the second, the loop condition.
Wake ==
    /\ menu = "pause" /\ is_running
    /\ menu' = "main"
    /\ UNCHANGED <<receiver, packet, flags, cache, asked, queues, serverState, chat, answers,
                   cached>>

\* The process, its memory and its end of the connection are gone.
Gone ==
    /\ menu' = "ended" /\ receiver' = "ended" /\ packet' = Pushed
    /\ is_running' = FALSE /\ in_chat_mode' = FALSE
    /\ current_chat_partner_id' = NoFriend /\ receiver_id' = NoFriend
    /\ cached_friends' = {} /\ mutex' = "free"
    /\ cached' = NoList /\ basis' = NoList /\ late' = FALSE /\ chatAsk' = 0
    /\ toClient' = <<>>

\* main closes the socket and returns, wherever the receive thread is.
Exit ==
    /\ menu = "pause" /\ ~ is_running
    /\ Gone
    /\ UNCHANGED <<asked, toServer, serverState, answers>>

\* A write to a connection whose server has gone raises SIGPIPE.
BrokenPipe ==
    /\ menu \in {"main", "greet", "chat"} /\ server = "closed"
    /\ Gone
    /\ UNCHANGED <<asked, toServer, serverState, answers>>
------------------------------------------------------------------------------
\* The receive thread.

Test ==
    /\ receiver = "test"
    /\ receiver' = IF is_running THEN "recv" ELSE "ended"
    /\ UNCHANGED <<menu, packet, flags, cache, asked, queues, serverState, chat, answers, cached>>

\* The loop is done with the packet, and with the request it answers.
Handled ==
    /\ answers' = IF packet.type = 2001 THEN answers ELSE Append(answers, packet.number)
    /\ packet' = Pushed
    /\ receiver' = "test"

ReceivePacket ==
    /\ receiver = "recv" /\ toClient # <<>>
    /\ packet' = Head(toClient)
    /\ toClient' = Tail(toClient)
    /\ receiver' = IF packet'.type = 2004 THEN "list" ELSE "print"
    /\ UNCHANGED <<menu, flags, cache, asked, toServer, serverState, chat, answers, cached>>

\* Printed, or in chat mode a reply passed over.
Show ==
    /\ receiver = "print"
    /\ Handled
    /\ UNCHANGED <<menu, flags, cache, asked, queues, serverState, chat, cached>>

\* Mutants: the cache is cleared before the mutex is taken; it is not cleared.
ListClearUnlocked ==
    /\ receiver = "list"
    /\ cached_friends' = {}
    /\ receiver' = "fill"
    /\ UNCHANGED <<menu, packet, flags, mutex, asked, queues, serverState, chat, answers, cached>>

ListLockOnly ==
    /\ receiver = "list" /\ mutex = "free"
    /\ mutex' = "receive"
    /\ receiver' = "fill"
    /\ UNCHANGED <<menu, packet, flags, cached_friends, asked, queues, serverState, chat, answers,
                   cached>>

ListLock ==
    /\ receiver = "list" /\ mutex = "free"
    /\ mutex' = "receive"
    /\ cached_friends' = {}
    /\ receiver' = "fill"
    /\ UNCHANGED <<menu, packet, flags, asked, queues, serverState, chat, answers, cached>>

ListFill(f) ==
    /\ receiver = "fill"
    /\ f \in packet.friends \ cached_friends
    /\ cached_friends' = cached_friends \cup {f}
    /\ UNCHANGED <<menu, receiver, packet, flags, mutex, asked, queues, serverState, chat, answers,
                   cached>>

\* Mutant: no unlock when the list is empty.
ListUnlockFilled ==
    /\ receiver = "fill" /\ packet.friends \subseteq cached_friends
    /\ mutex' = IF packet.friends = {} THEN mutex ELSE "free"
    /\ cached' = [number |-> packet.number, friends |-> packet.friends]
    /\ Handled
    /\ UNCHANGED <<menu, flags, cached_friends, asked, queues, serverState, chat>>

ListUnlock ==
    /\ receiver = "fill" /\ packet.friends \subseteq cached_friends
    /\ mutex' = "free"
    /\ cached' = [number |-> packet.number, friends |-> packet.friends]
    /\ Handled
    /\ UNCHANGED <<menu, flags, cached_friends, asked, queues, serverState, chat>>

\* Mutant: an empty read is taken for a packet that was not one.
DisconnectedSkipped ==
    /\ receiver = "recv" /\ toClient = <<>> /\ server = "closed"
    /\ receiver' = "test"
    /\ UNCHANGED <<menu, packet, flags, cache, asked, queues, serverState, chat, answers, cached>>

\* The server has closed the connection.
Disconnected ==
    /\ receiver = "recv" /\ toClient = <<>> /\ server = "closed"
    /\ is_running' = FALSE
    /\ receiver' = "ended"
    /\ UNCHANGED <<menu, packet, in_chat_mode, current_chat_partner_id, cache, asked, queues,
                   serverState, chat, answers, cached>>
------------------------------------------------------------------------------
\* The server's thread for this connection.

client == <<menu, receiver, packet, flags, cache, asked, chat, answers, cached>>

Take ==
    /\ server = "recv" /\ toServer # <<>>
    /\ job' = Head(toServer)
    /\ toServer' = Tail(toServer)
    /\ server' = "serving"
    /\ UNCHANGED <<client, toClient, session, pushes, dropped, refused>>

\* What is sent to a client that has gone is lost.
ToClient(p) == toClient' = IF menu = "ended" THEN toClient ELSE Append(toClient, p)

Respond(answer) ==
    /\ ToClient(answer)
    /\ server' = "recv" /\ job' = NoRequest
    /\ UNCHANGED <<client, toServer, pushes, dropped>>

\* Mutant: a case without its break goes on to "Unknown request type".
ServeFallingThrough ==
    /\ server = "serving" /\ job.kind # "list"
    /\ session' \in CASE job.kind = "login" -> {session, TRUE}
                      [] job.kind = "logout" -> {FALSE}
                      [] OTHER -> {session}
    /\ toClient' = toClient \o <<Reply(job.number), Reply(job.number)>>
    /\ server' = "recv" /\ job' = NoRequest
    /\ UNCHANGED <<client, toServer, pushes, dropped, refused>>

\* A handler that answers with a status or with what was queried.  1005, the
\* history, has no case and gets "Unknown request type".
Serve ==
    /\ server = "serving" /\ job.kind # "list"
    /\ session' \in CASE job.kind = "login" -> {session, TRUE}
                      [] job.kind = "logout" -> {FALSE}
                      [] OTHER -> {session}
    /\ Respond(Reply(job.number))
    /\ UNCHANGED refused

\* handle_get_friend_list.
ServeListDenied ==
    /\ server = "serving" /\ job.kind = "list" /\ ~ session
    /\ Respond(Reply(job.number))
    /\ refused' = refused \cup {job.number}
    /\ UNCHANGED session

ServeList(s) ==
    /\ server = "serving" /\ job.kind = "list" /\ session
    /\ Respond(FriendList(job.number, s))
    /\ UNCHANGED <<session, refused>>

\* An answer that is too large for a packet is not sent; nothing else is, either.
ServeTooLarge ==
    /\ server = "serving" /\ job.kind \in {"list", "query"} /\ session
    /\ server' = "recv" /\ job' = NoRequest
    /\ dropped' = dropped \cup {job.number}
    /\ UNCHANGED <<client, queues, session, pushes, refused>>

\* A message, from a thread of another connection or from the backlog.
Push ==
    /\ session /\ server # "closed" /\ pushes < MaxPushes
    /\ ToClient(Pushed)
    /\ pushes' = pushes + 1
    /\ UNCHANGED <<client, toServer, session, server, job, dropped, refused>>

\* The client has gone, or the server's process ends.
ServerCloses ==
    /\ server # "closed"
    /\ server' = "closed"
    /\ session' = FALSE
    /\ toServer' = <<>> /\ job' = NoRequest
    /\ UNCHANGED <<client, toClient, pushes, dropped, refused>>

Main ==
    \/ \E k \in Kinds \ {"history"} : MenuRequest(k)
    \/ MenuNothing \/ Wake \/ Exit \/ BrokenPipe
    \/ ChatAskList \/ ChatLock \/ ChatLook
    \/ \E f \in Friends : ChatChoose(f)
    \/ ChatAbandon \/ ChatLockAgain \/ ChatValidate \/ ChatEnter \/ ChatHistory
    \/ ChatSend \/ ChatQuit \/ ChatLeave

Receiver ==
    \/ Test \/ ReceivePacket \/ Show \/ Disconnected
    \/ ListLock \/ (\E f \in Friends : ListFill(f)) \/ ListUnlock

Server ==
    \/ Take \/ Serve
    \/ ServeListDenied \/ ServeTooLarge \/ \E s \in SUBSET Friends : ServeList(s)

Next == Main \/ Receiver \/ Server \/ Push \/ ServerCloses

\* Both threads that wait for packets are scheduled, a waiting mutex is handed
\* over and a sleep ends.  The user promises nothing.
Fairness ==
    /\ WF_vars(Receiver) /\ WF_vars(Server)
    /\ SF_vars(ChatLock) /\ SF_vars(ChatLockAgain)
    /\ WF_vars(ChatLook) /\ WF_vars(ChatValidate) /\ WF_vars(Wake) /\ WF_vars(Exit)

Spec == Init /\ [][Next]_vars /\ Fairness
------------------------------------------------------------------------------
ClientTypeOK ==
    /\ menu \in {"main", "pause", "sleep", "look", "prompt", "chosen", "validate", "enter",
                 "greet", "chat", "leave", "ended"}
    /\ receiver \in {"test", "recv", "print", "list", "fill", "ended"}
    /\ {is_running, in_chat_mode, session, late} \subseteq BOOLEAN
    /\ {current_chat_partner_id, receiver_id} \subseteq Friends \cup {NoFriend}
    /\ in_chat_mode => receiver_id \in Friends
    /\ mutex \in {"free", "main", "receive"}
    /\ ToSet(toServer) \subseteq Request
    /\ server \in {"recv", "serving", "closed"}
    /\ {cached_friends, cached.friends, basis.friends} \subseteq SUBSET Friends

\* The requests that a sequence of numbers is about: a push has number 0.
About(s) == ToSet(s) \ {0}

InTurn(s) ==
    \A i, j \in DOMAIN s : i < j /\ 0 \notin {s[i], s[j]} => s[i] < s[j]

inHand == IF receiver \in {"print", "list", "fill"} THEN <<packet.number>> ELSE <<>>
inService == IF server = "serving" THEN <<job.number>> ELSE <<>>

\* Each request is answered once and in its turn: what has been handled, what is
\* on its way, what is being served and what is still to be read are together
\* the requests in the order they were sent, except those whose answer was too
\* large.  Pushes in between do not disturb this, which is why a client that
\* never looks at what an answer is to can still be understood.
OneAnswerEach ==
    server # "closed" /\ receiver # "ended" =>
        LET everything == answers \o inHand \o Numbers(toClient) \o inService
                            \o Numbers(toServer)
        IN InTurn(everything) /\ About(everything) = (1..asked) \ dropped

\* When the chat menu reads the cache, under the mutex, it sees the whole of the
\* list that was received last: never one that the receive thread is clearing and
\* filling, which would end the menu of a user that has friends.
MenuSeesWholeList ==
    menu \in {"look", "validate"} => cached_friends = cached.friends

\* The friend a user chats with is in the list that the chat menu asked for; or
\* in the list before it, if the answer took longer than the menu waited, was a
\* refusal, or was never sent.
StaleOnlyIfUnanswered ==
    menu \in {"enter", "greet", "chat"} =>
        /\ receiver_id \in basis.friends
        /\ basis.number = chatAsk \/ late \/ chatAsk \in refused \cup dropped

\* A request the server does not lose with the connection is answered, unless its
\* answer is too large, and the answer handled unless the client ends.
RequestAnswered ==
    \A n \in 1..MaxRequests :
        asked >= n ~> \/ Contains(answers, n) \/ n \in dropped
                      \/ server = "closed" \/ receiver = "ended"

\* A server that has gone is noticed: the receive thread ends and clears the flag
\* of the main loop.  That the main thread ends too is not promised: the chat loop
\* does not look at the flag.
DisconnectNoticed ==
    server = "closed" ~> receiver = "ended" /\ ~ is_running
==============================================================================
