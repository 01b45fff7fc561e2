------------------------------- MODULE Friends -------------------------------
(***************************************************************************)
(* Friend requests and friendships: the handlers for send, accept, reject  *)
(* and unfriend in server.cpp over friend_service.cpp.                     *)
(*                                                                         *)
(* Every SQL statement is a step of its own: the handlers take no lock and *)
(* open no transaction, so those of different users interleave between     *)
(* what they check and what they do.  A user has one session and a         *)
(* connection one thread (module Sessions), so a user runs one handler at  *)
(* a time, and its program counter belongs to the user.                    *)
(*                                                                         *)
(* add_friendship sorts the two ids before it inserts, and every query     *)
(* takes them in both orders: a friendship is a set of two users.  A write *)
(* that the database refuses changes nothing; queries do not fail.  The    *)
(* replies are left out.                                                   *)
(***************************************************************************)
CONSTANTS Users, NoUser

ASSUME FriendsAssumption == NoUser \notin Users

VARIABLES pc,           \* where the handler of each user is
          peer,         \* the user it is about
          requests,     \* friend_requests: <<sender_id, receiver_id>>
          friendships,  \* friendships
          \* The rest is history, read by properties only.
          asked,        \* every request there has ever been
          accepted      \* <<u, v>>: u's accept made u and v friends

vars == <<pc, peer, requests, friendships, asked, accepted>>
tables == <<requests, friendships, asked, accepted>>

Init ==
    /\ pc = [u \in Users |-> "idle"]
    /\ peer = [u \in Users |-> NoUser]
    /\ requests = {} /\ friendships = {}
    /\ asked = {} /\ accepted = {}

Begin(u, v, loc) ==
    /\ pc' = [pc EXCEPT ![u] = loc]
    /\ peer' = [peer EXCEPT ![u] = v]

Goto(u, loc) == pc' = [pc EXCEPT ![u] = loc] /\ UNCHANGED peer

Done(u) == Begin(u, NoUser, "idle")

\* Mutant: only the other direction.
RequestFromPeer(u, v) == <<v, u>> \in requests

\* friend_request_exists looks in both directions.
RequestExists(u, v) == <<u, v>> \in requests \/ <<v, u>> \in requests

AreFriends(u, v) == {u, v} \in friendships
------------------------------------------------------------------------------
\* handle_send_friend_request

Send(u, v) ==
    /\ pc[u] = "idle"
    /\ u # v
    /\ ~ RequestExists(u, v)
    /\ Begin(u, v, "send_check")
    /\ UNCHANGED tables

SendCheck(u) ==
    /\ pc[u] = "send_check"
    /\ IF AreFriends(u, peer[u]) THEN Done(u) ELSE Goto(u, "send_insert")
    /\ UNCHANGED tables

\* Mutant: the receiver of a user that does not exist, not checked.
NewRequestToNobody(u) == <<u, NoUser>>

NewRequest(u) == <<u, peer[u]>>

SendInsert(u) ==
    /\ pc[u] = "send_insert"
    /\ \/ /\ requests' = requests \cup {NewRequest(u)}
          /\ asked' = asked \cup {NewRequest(u)}
       \/ UNCHANGED <<requests, asked>>
    /\ Done(u)
    /\ UNCHANGED <<friendships, accepted>>
------------------------------------------------------------------------------
\* handle_accept_friend_request and handle_reject_friend_request: u answers v.

Answer(u, v, find) ==
    /\ pc[u] = "idle"
    /\ ~ AreFriends(u, v)
    /\ Begin(u, v, find)
    /\ UNCHANGED tables

Find(u, find, act) ==
    /\ pc[u] = find
    /\ IF RequestExists(peer[u], u) THEN Goto(u, act) ELSE Done(u)
    /\ UNCHANGED tables

\* Mutant: removed in both directions.
AnsweredBoth(u) == {<<peer[u], u>>, <<u, peer[u]>>}

\* remove_friend_request, in the one direction peer -> u.
Answered(u) == {<<peer[u], u>>}

RemoveRequest(u, from) ==
    /\ pc[u] = from
    /\ requests' = requests \ Answered(u) \/ UNCHANGED requests
    /\ Done(u)
    /\ UNCHANGED <<friendships, asked, accepted>>

Accept(u, v)    == Answer(u, v, "accept_find")

\* Mutant: the check before add_friendship is missing.
AcceptUnasked(u) ==
    /\ pc[u] = "accept_find"
    /\ Goto(u, "accept_add")
    /\ UNCHANGED tables
AcceptFind(u)   == Find(u, "accept_find", "accept_add")
AcceptRemove(u) == RemoveRequest(u, "accept_remove")

\* INSERT OR IGNORE; a failure ends the handler before the request is removed.
AcceptAdd(u) ==
    /\ pc[u] = "accept_add"
    /\ \/ /\ friendships' = friendships \cup {{u, peer[u]}}
          /\ accepted' = accepted \cup {<<u, peer[u]>>}
          /\ Goto(u, "accept_remove")
       \/ UNCHANGED <<friendships, accepted>> /\ Done(u)
    /\ UNCHANGED <<requests, asked>>

Reject(u, v)    == Answer(u, v, "reject_find")
RejectFind(u)   == Find(u, "reject_find", "reject_remove")
RejectRemove(u) == RemoveRequest(u, "reject_remove")
------------------------------------------------------------------------------
\* handle_unfriend

Unfriend(u, v) ==
    /\ pc[u] = "idle"
    /\ AreFriends(u, v)
    /\ Begin(u, v, "unfriend")
    /\ UNCHANGED tables

UnfriendRemove(u) ==
    /\ pc[u] = "unfriend"
    /\ friendships' = friendships \ {{u, peer[u]}} \/ UNCHANGED friendships
    /\ Done(u)
    /\ UNCHANGED <<requests, asked, accepted>>

\* The process ends between two statements; the tables are what it left.
Restart ==
    /\ pc' = [u \in Users |-> "idle"]
    /\ peer' = [u \in Users |-> NoUser]
    /\ UNCHANGED tables

Step(u) ==
    \/ SendCheck(u) \/ SendInsert(u)
    \/ AcceptFind(u) \/ AcceptAdd(u) \/ AcceptRemove(u)
    \/ RejectFind(u) \/ RejectRemove(u)
    \/ UnfriendRemove(u)

Next ==
    \/ \E u \in Users : Step(u)
    \/ \E u, v \in Users :
          Send(u, v) \/ Accept(u, v) \/ Reject(u, v) \/ Unfriend(u, v)
    \/ Restart

Spec == Init /\ [][Next]_vars
------------------------------------------------------------------------------
FriendsTypeOK ==
    /\ pc \in [Users -> {"idle", "send_check", "send_insert", "accept_find",
                         "accept_add", "accept_remove", "reject_find",
                         "reject_remove", "unfriend"}]
    /\ peer \in [Users -> Users \cup {NoUser}]
    /\ requests \subseteq Users \X Users
    /\ friendships \subseteq {{u, v} : u \in Users, v \in Users}
    /\ asked \subseteq Users \X Users
    /\ accepted \subseteq Users \X Users

\* friend_requests is UNIQUE (sender_id, receiver_id) and rejects a request to
\* oneself, and add_friend_request reports either as a database error (500).
\* With the checks so far before the INSERT, the constraints still never fire.
InsertNeverConflicts ==
    \A u \in Users :
        pc[u] = "send_insert" => peer[u] # u /\ <<u, peer[u]>> \notin requests

\* Nobody becomes a friend of a user that neither asked nor was asked: what
\* accept has found in friend_requests was put there by one of the two, even if
\* it has been removed by the time accept acts on it.
FriendshipWasAsked ==
    \A u, v \in Users :
        AreFriends(u, v) => <<u, v>> \in asked \/ <<v, u>> \in asked

\* The handler of u's peer is about to remove the request of u.
PeerAnswers(u) ==
    /\ pc[peer[u]] \in {"accept_remove", "reject_remove"}
    /\ peer[peer[u]] = u

\* What accept has checked between its check and its last write.  The check looks
\* in both directions.  A request of the peer stays until the handler is done:
\* nobody else takes it away.  A request of the user's own, which passes the
\* check as well, stays unless the peer answers it in between; then accept makes
\* a friendship, or has made one, from a request that the peer has turned down or
\* taken up by itself.  No third user's step removes either.
CheckedRequestStays ==
    [][\A u \in Users :
          pc[u] \in {"accept_add", "accept_remove"} /\ pc'[u] # "idle" =>
              /\ <<peer[u], u>> \in requests => <<peer[u], u>> \in requests'
              /\ <<u, peer[u]>> \in requests =>
                    <<u, peer[u]>> \in requests' \/ PeerAnswers(u)]_vars

\* The comment on accept's check says "does the request exist (sender ->
\* receiver)": who accepts a friend has been asked by that friend.  The code
\* does not keep it.
AcceptedWasAsked == \A p \in accepted : <<p[2], p[1]>> \in asked
==============================================================================
