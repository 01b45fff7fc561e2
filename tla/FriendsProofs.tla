---------------------------- MODULE FriendsProofs ----------------------------
(***************************************************************************)
(* Proofs about Friends, for any set of users.                             *)
(***************************************************************************)
EXTENDS Friends, TLAPS

\* The locals of a handler: it knows its peer until it is done.
PeerKnown == \A u \in Users : pc[u] # "idle" => peer[u] \in Users

\* Only u inserts requests of u, so what a send handler found still holds
\* when it gets to its INSERT.
SendStillFree ==
    \A u \in Users :
        pc[u] \in {"send_check", "send_insert"} =>
            peer[u] # u /\ <<u, peer[u]>> \notin requests

\* Requests, and what accept took from them, have been asked.
FoundWasAsked ==
    /\ requests \subseteq asked
    /\ \A u \in Users : pc[u] = "accept_add" =>
           <<u, peer[u]>> \in asked \/ <<peer[u], u>> \in asked

IInv == /\ FriendsTypeOK /\ PeerKnown
        /\ SendStillFree
        /\ FoundWasAsked /\ FriendshipWasAsked

USE FriendsAssumption
------------------------------------------------------------------------------
LEMMA Start == Init => IInv
BY DEF Init, IInv, FriendsTypeOK, PeerKnown, SendStillFree, FoundWasAsked,
       FriendshipWasAsked, AreFriends

LEMMA SendPart ==
    ASSUME IInv, NEW u \in Users,
           (\E v \in Users : Send(u, v)) \/ SendCheck(u) \/ SendInsert(u)
    PROVE  IInv'
<1> USE DEF IInv, FriendsTypeOK, PeerKnown, Begin, Goto, Done, tables
<1>1. ASSUME NEW v \in Users, Send(u, v) PROVE IInv'
  BY <1>1 DEF Send, RequestExists, SendStillFree, FoundWasAsked,
              FriendshipWasAsked, AreFriends
<1>2. CASE SendCheck(u)
  BY <1>2 DEF SendCheck, SendStillFree, FoundWasAsked, FriendshipWasAsked,
              AreFriends
<1>3. CASE SendInsert(u)
  <2>1. FriendsTypeOK' /\ PeerKnown'
    BY <1>3 DEF SendInsert, NewRequest
  <2>2. SendStillFree'
    BY <1>3 DEF SendInsert, NewRequest, SendStillFree
  <2>3. FoundWasAsked'
    BY <1>3 DEF SendInsert, NewRequest, FoundWasAsked
  <2>4. FriendshipWasAsked'
    BY <1>3 DEF SendInsert, NewRequest, FriendshipWasAsked, AreFriends
  <2> QED BY <2>1, <2>2, <2>3, <2>4
<1> QED BY <1>1, <1>2, <1>3

LEMMA AnswerPart ==
    ASSUME IInv, NEW u \in Users,
           NEW find, NEW act,
           <<find, act>> \in {<<"accept_find", "accept_add">>,
                              <<"reject_find", "reject_remove">>},
           (\E v \in Users : Answer(u, v, find)) \/ Find(u, find, act)
    PROVE  IInv'
<1> USE DEF IInv, FriendsTypeOK, PeerKnown, Begin, Goto, Done, tables
<1>1. ASSUME NEW v \in Users, Answer(u, v, find) PROVE IInv'
  BY <1>1 DEF Answer, SendStillFree, FoundWasAsked, FriendshipWasAsked,
              AreFriends
<1>2. CASE Find(u, find, act)
  <2>1. FriendsTypeOK' /\ PeerKnown' /\ SendStillFree' /\ FriendshipWasAsked'
    BY <1>2 DEF Find, SendStillFree, FriendshipWasAsked, AreFriends
  <2>2. FoundWasAsked'
    BY <1>2 DEF Find, RequestExists, FoundWasAsked
  <2> QED BY <2>1, <2>2
<1> QED BY <1>1, <1>2

LEMMA RemovePart ==
    ASSUME IInv, NEW u \in Users, NEW from \in {"accept_remove", "reject_remove"},
           RemoveRequest(u, from)
    PROVE  IInv'
BY DEF IInv, FriendsTypeOK, PeerKnown, RemoveRequest, Answered, Begin, Done,
       SendStillFree, FoundWasAsked, FriendshipWasAsked, AreFriends

LEMMA AddPart ==
    ASSUME IInv, NEW u \in Users, AcceptAdd(u)
    PROVE  IInv'
<1> USE DEF IInv, FriendsTypeOK, PeerKnown, AcceptAdd, Begin, Goto, Done
<1>1. peer[u] \in Users
  OBVIOUS
<1>2. FriendsTypeOK' /\ PeerKnown'
  BY <1>1
<1>3. SendStillFree' /\ FoundWasAsked'
  BY DEF SendStillFree, FoundWasAsked
<1>4. FriendshipWasAsked'
  <2> SUFFICES ASSUME NEW a \in Users, NEW b \in Users, {a, b} \in friendships'
               PROVE  <<a, b>> \in asked \/ <<b, a>> \in asked
    BY DEF FriendshipWasAsked, AreFriends
  <2>1. CASE {a, b} \in friendships
    BY <2>1 DEF FriendshipWasAsked, AreFriends
  <2>2. CASE {a, b} = {u, peer[u]}
    <3>1. (a = u /\ b = peer[u]) \/ (a = peer[u] /\ b = u)
      BY <2>2
    <3> QED BY <3>1 DEF FoundWasAsked
  <2> QED BY <2>1, <2>2
<1> QED BY <1>2, <1>3, <1>4

LEMMA UnfriendPart ==
    ASSUME IInv, NEW u \in Users,
           (\E v \in Users : Unfriend(u, v)) \/ UnfriendRemove(u)
    PROVE  IInv'
<1> USE DEF IInv, FriendsTypeOK, PeerKnown, Begin, Done, tables
<1>1. ASSUME NEW v \in Users, Unfriend(u, v) PROVE IInv'
  BY <1>1 DEF Unfriend, SendStillFree, FoundWasAsked, FriendshipWasAsked,
              AreFriends
<1>2. CASE UnfriendRemove(u)
  <2>1. FriendsTypeOK' /\ PeerKnown'
    BY <1>2 DEF UnfriendRemove
  <2>2. SendStillFree' /\ FoundWasAsked'
    BY <1>2 DEF UnfriendRemove, SendStillFree, FoundWasAsked
  <2>3. FriendshipWasAsked'
    BY <1>2 DEF UnfriendRemove, FriendshipWasAsked, AreFriends
  <2> QED BY <2>1, <2>2, <2>3
<1> QED BY <1>1, <1>2

LEMMA InductiveStep == IInv /\ [Next]_vars => IInv'
<1> SUFFICES ASSUME IInv, [Next]_vars PROVE IInv'
  OBVIOUS
<1>1. ASSUME NEW u \in Users,
             (\E v \in Users : Send(u, v)) \/ SendCheck(u) \/ SendInsert(u)
      PROVE  IInv'
  BY <1>1, SendPart
<1>2. ASSUME NEW u \in Users, (\E v \in Users : Accept(u, v)) \/ AcceptFind(u)
      PROVE  IInv'
  BY <1>2, AnswerPart DEF Accept, AcceptFind
<1>3. ASSUME NEW u \in Users, (\E v \in Users : Reject(u, v)) \/ RejectFind(u)
      PROVE  IInv'
  BY <1>3, AnswerPart DEF Reject, RejectFind
<1>4. ASSUME NEW u \in Users, AcceptAdd(u) PROVE IInv'
  BY <1>4, AddPart
<1>5. ASSUME NEW u \in Users, AcceptRemove(u) \/ RejectRemove(u) PROVE IInv'
  BY <1>5, RemovePart DEF AcceptRemove, RejectRemove
<1>6. ASSUME NEW u \in Users,
             (\E v \in Users : Unfriend(u, v)) \/ UnfriendRemove(u)
      PROVE  IInv'
  BY <1>6, UnfriendPart
<1>7. CASE Restart
  BY <1>7 DEF Restart, tables, IInv, FriendsTypeOK, PeerKnown, SendStillFree,
              FoundWasAsked, FriendshipWasAsked, AreFriends
<1>8. CASE UNCHANGED vars
  BY <1>8 DEF vars, IInv, FriendsTypeOK, PeerKnown, SendStillFree,
              FoundWasAsked, FriendshipWasAsked, AreFriends
<1> QED
  BY <1>1, <1>2, <1>3, <1>4, <1>5, <1>6, <1>7, <1>8 DEF Next, Step

LEMMA Invariance == Spec => []IInv
BY Start, InductiveStep, PTL DEF Spec
------------------------------------------------------------------------------
\* The UNIQUE and CHECK constraints of friend_requests never refuse the INSERT
\* of a send handler, however the handlers interleave.
THEOREM InsertsAreClean == Spec => []InsertNeverConflicts
<1>1. IInv => InsertNeverConflicts
  BY DEF IInv, SendStillFree, InsertNeverConflicts
<1> QED BY <1>1, Invariance, PTL

\* The tables and the locals of the handlers have their types: no request and no
\* friendship is ever stored with nobody, however handlers and restarts interleave.
THEOREM FriendsTypesCorrect == Spec => []FriendsTypeOK
<1>1. IInv => FriendsTypeOK
  BY DEF IInv
<1> QED BY <1>1, Invariance, PTL

\* Every friendship goes back to a request between the two.
THEOREM FriendsWereAsked == Spec => []FriendshipWasAsked
<1>1. IInv => FriendshipWasAsked
  BY DEF IInv
<1> QED BY <1>1, Invariance, PTL

\* Every step keeps the requests that accept's check may have found, except that
\* the peer may answer the one that its user had sent.
THEOREM ChecksHold == Spec => CheckedRequestStays
<1> DEFINE Acting(u) ==
      pc[u] \in {"accept_add", "accept_remove"} /\ pc'[u] # "idle"
    PeersStays(u) ==
      <<peer[u], u>> \in requests => <<peer[u], u>> \in requests'
    OwnStays(u) ==
      <<u, peer[u]>> \in requests => <<u, peer[u]>> \in requests' \/ PeerAnswers(u)
    Stays(u) ==
      pc[u] \in {"accept_add", "accept_remove"} /\ pc'[u] # "idle" =>
          /\ <<peer[u], u>> \in requests => <<peer[u], u>> \in requests'
          /\ <<u, peer[u]>> \in requests =>
                <<u, peer[u]>> \in requests' \/ PeerAnswers(u)
<1>1. ASSUME IInv, [Next]_vars, NEW u \in Users, Acting(u)
      PROVE  PeersStays(u) /\ OwnStays(u)
  <2> USE <1>1 DEF IInv, FriendsTypeOK
  <2>1. ASSUME NEW w \in Users, AcceptRemove(w) \/ RejectRemove(w)
        PROVE  PeersStays(u) /\ OwnStays(u)
    <3>1. w # u
      BY <2>1 DEF AcceptRemove, RejectRemove, RemoveRequest, Done, Begin
    <3>2. requests' = requests \ {<<peer[w], w>>} \/ requests' = requests
      BY <2>1 DEF AcceptRemove, RejectRemove, RemoveRequest, Answered
    <3>3. PeersStays(u)
      BY <3>1, <3>2
    <3>4. ASSUME <<u, peer[u]>> \in requests, <<u, peer[u]>> \notin requests'
          PROVE  PeerAnswers(u)
      <4>1. peer[w] = u /\ w = peer[u]
        BY <3>2, <3>4
      <4> QED
        BY <2>1, <4>1 DEF AcceptRemove, RejectRemove, RemoveRequest, PeerAnswers
    <3> QED BY <3>3, <3>4
  <2>2. ASSUME NEW w \in Users, SendInsert(w)
        PROVE  PeersStays(u) /\ OwnStays(u)
    BY <2>2 DEF SendInsert, NewRequest
  <2>3. CASE UNCHANGED requests
    BY <2>3
  <2> QED
    BY <2>1, <2>2, <2>3
       DEF Next, Step, Send, SendCheck, Accept, AcceptFind, AcceptAdd, Reject,
           RejectFind, Answer, Find, Unfriend, UnfriendRemove, Restart, tables,
           vars
<1>2. IInv /\ [Next]_vars => [\A u \in Users : Stays(u)]_vars
  BY <1>1
<1> QED BY <1>2, Invariance, PTL DEF Spec, CheckedRequestStays
==============================================================================
