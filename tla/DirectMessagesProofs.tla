------------------------ MODULE DirectMessagesProofs -------------------------
(***************************************************************************)
(* Proofs about DirectMessages, for any connections, users, friendships    *)
(* and any bound on the messages.                                          *)
(***************************************************************************)
EXTENDS DirectMessages, WellFoundedInduction, TLAPS

Sending == {"lookup", "push", "mark"}

HasSession(c) == \E u \in Users : <<c, u>> \in bound

\* A thread serves its connection until it closes it, and a handler that needs
\* a session has it until it returns.
ThreadServes ==
    \A c \in Conns :
        /\ pc[c] # "closed" <=> c \in open
        /\ pc[c] \in {"fetch", "flush"} => HasSession(c)
        /\ pc[c] # "flush" => backlog[c] = {}
        /\ pc[c] \in Sending =>
              job[c] \in Ids /\ <<c, rows[job[c]].from>> \in bound

\* Only sessions have a failed backlog.
FailedHasSession == \A c \in failed : HasSession(c)

\* A receiver with a session has met all its rows.
BoundHasMet ==
    \A c \in Conns, u \in Users : <<c, u>> \in bound =>
        \A m \in Ids : rows[m].to = u => m \in met

\* What a handler is going to mark has met its receiver: nobody but the sender
\* inserts such rows, and the sender is busy.
MarksMet ==
    \A c \in Conns : pc[c] \in {"push", "mark"} => Marked(job[c]) \subseteq met

\* The row m is written to c, waits in its backlog, or comes by a push; a row too
\* large for a backlog need not.
Comes(m, c) ==
    \/ m \in out[c] \cup backlog[c] \/ TooLarge(m)
    \/ \E d \in Conns : /\ job[d] = m
                        /\ pc[d] = "lookup" \/ (pc[d] = "push" /\ target[d] = c)

UnreadComes ==
    \A c \in Conns, u \in Users :
        <<c, u>> \in bound /\ pc[c] # "fetch" /\ c \notin failed =>
            \A m \in Unread(u) : Comes(m, c)

IInv == /\ DMTypeOK /\ Registry!OneToOne
        /\ ThreadServes /\ FailedHasSession
        /\ BoundHasMet /\ MarksMet /\ OfflineMessageKept
        /\ UnreadComes

USE DMAssumption
------------------------------------------------------------------------------
\* The packet that SendBacklog takes is one of the backlog.
LEMMA MinIsMember ==
    ASSUME NEW S, S \subseteq Nat, S # {}
    PROVE  Min(S) \in S
<1> DEFINE R == OpToRel(<, Nat)
<1>1. IsWellFoundedOn(R, Nat)
  BY NatLessThanWellFounded, Zenon
<1>2. R = {ss \in Nat \X Nat : ss[1] < ss[2]}
  BY Zenon DEF OpToRel
<1> HIDE DEF R
<1>3. PICK x \in S : \A y \in S : ~ (<<y, x>> \in R)
  <2>1. ASSUME NEW Q, NEW T, IsWellFoundedOn(Q, T), S \subseteq T
        PROVE  \E x \in S : \A y \in S : ~ (<<y, x>> \in Q)
    BY <2>1, WFMin
  <2> QED BY <1>1, <2>1
<1>4. \A y \in S : x =< y
  <2> SUFFICES ASSUME NEW y \in S PROVE x =< y
    OBVIOUS
  <2>1. <<y, x>> \in Nat \X Nat /\ ~ (y < x)
    BY <1>2, <1>3
  <2> QED BY <2>1
<1> QED BY <1>4 DEF Min

\* No two connections of one user, no two users of one connection.
LEMMA Single ==
    ASSUME Registry!OneToOne,
           NEW c, NEW u, <<c, u>> \in bound,
           NEW d, NEW v, <<d, v>> \in bound
    PROVE  c = d <=> u = v
BY DEF Registry!OneToOne

LEMMA UserOnBound ==
    ASSUME Registry!OneToOne,
           NEW c \in Conns, NEW u \in Users, <<c, u>> \in bound
    PROVE  UserOn(c) = u
BY Single DEF UserOn

LEMMA UserOnType == ASSUME NEW c \in Conns PROVE UserOn(c) \in Users \cup {NoUser}
BY DEF UserOn

LEMMA BoundConnsHaveSessions ==
    ASSUME Registry!RegTypeOK, NEW c
    PROVE  c \in Registry!BoundConns <=> HasSession(c)
<1>1. ASSUME NEW u \in Users, <<c, u>> \in bound
      PROVE  c \in Registry!BoundConns
  <2>1. <<c, u>>[1] = c
    OBVIOUS
  <2> QED BY <1>1, <2>1 DEF Registry!BoundConns
<1>2. ASSUME NEW b \in bound PROVE HasSession(b[1])
  BY <1>2 DEF Registry!RegTypeOK, HasSession
<1> QED BY <1>1, <1>2 DEF HasSession, Registry!BoundConns

LEMMA SessionIsOpen ==
    ASSUME Registry!RegTypeOK, NEW c, NEW u, <<c, u>> \in bound
    PROVE  c \in open /\ u \in Users
BY DEF Registry!RegTypeOK

\* Every step on open and bound is one of the registry's.
LEMMA RegistryPart ==
    ASSUME Registry!RegTypeOK, Registry!OneToOne,
           \/ \E c \in Conns : Registry!Open(c) \/ Registry!Close(c)
           \/ \E c \in Conns, u \in Users :
                 Registry!SignIn(c, u) \/ Registry!SignOut(c, u)
           \/ Registry!Reset
    PROVE  Registry!RegTypeOK' /\ Registry!OneToOne'
<1> USE DEF Registry!RegTypeOK, Registry!OneToOne, Registry!BoundConns
<1>1. ASSUME NEW c \in Conns, Registry!Open(c) \/ Registry!Close(c)
      PROVE  Registry!RegTypeOK' /\ Registry!OneToOne'
  BY <1>1 DEF Registry!Open, Registry!Close
<1>2. ASSUME NEW c \in Conns, NEW u \in Users, Registry!SignIn(c, u)
      PROVE  Registry!RegTypeOK' /\ Registry!OneToOne'
  BY <1>2 DEF Registry!SignIn, Registry!BoundUsers
<1>3. ASSUME NEW c \in Conns, NEW u \in Users, Registry!SignOut(c, u)
      PROVE  Registry!RegTypeOK' /\ Registry!OneToOne'
  BY <1>3 DEF Registry!SignOut
<1>4. CASE Registry!Reset
  BY <1>4 DEF Registry!Reset
<1> QED BY <1>1, <1>2, <1>3, <1>4

LEMMA Start == Init => IInv
<1> SUFFICES ASSUME Init PROVE IInv
  OBVIOUS
<1> USE DEF Init, Registry!Init
<1>1. Ids = {} /\ Len(rows) = 0 /\ rows \in Seq(Row)
  BY DEF Ids
<1>2. DMTypeOK
  BY <1>1 DEF DMTypeOK, Registry!RegTypeOK
<1>3. Registry!OneToOne
  BY DEF Registry!OneToOne, Registry!BoundConns
<1>4. ThreadServes /\ FailedHasSession
  BY DEF ThreadServes, Sending, FailedHasSession
<1>5. BoundHasMet /\ MarksMet /\ OfflineMessageKept /\ UnreadComes
  BY DEF BoundHasMet, MarksMet, OfflineMessageKept, UnreadComes
<1> QED BY <1>2, <1>3, <1>4, <1>5 DEF IInv
------------------------------------------------------------------------------
\* Connections.

LEMMA OpenPart == ASSUME IInv, NEW c \in Conns, Open(c) PROVE IInv'
<1> USE DEF IInv, DMTypeOK, Open, Goto, store, history
<1>1. Registry!RegTypeOK' /\ Registry!OneToOne'
  BY RegistryPart
<1>2. DMTypeOK'
  BY <1>1 DEF Ids, Registry!Open
<1>3. ThreadServes' /\ FailedHasSession'
  BY DEF ThreadServes, FailedHasSession, HasSession, Registry!Open,
         Registry!RegTypeOK, Sending, Ids
<1>4. BoundHasMet' /\ MarksMet' /\ OfflineMessageKept'
  BY DEF BoundHasMet, MarksMet, Marked, OfflineMessageKept, Registry!Open, Ids
<1>5. UnreadComes'
  <2>1. ASSUME NEW u \in Users, <<c, u>> \in bound PROVE FALSE
    <3>1. c \in open
      BY <2>1, SessionIsOpen, Zenon DEF IInv, DMTypeOK
    <3> QED BY <3>1 DEF Registry!Open
  <2>2. pc[c] = "closed"
    BY DEF ThreadServes, Registry!Open
  <2> QED BY <2>1, <2>2 DEF UnreadComes, Unread, Comes, TooLarge, Registry!Open, Ids
<1> QED BY <1>1, <1>2, <1>3, <1>4, <1>5

LEMMA ClosePart == ASSUME IInv, NEW c \in Conns, Close(c) PROVE IInv'
<1> USE DEF IInv, DMTypeOK, Close, Goto, store, history
<1>1. Registry!RegTypeOK' /\ Registry!OneToOne'
  BY RegistryPart
<1>2. DMTypeOK'
  <2>1. c \notin failed
    BY BoundConnsHaveSessions DEF Registry!Close, FailedHasSession
  <2> QED BY <1>1, <2>1 DEF Ids, Registry!Close
<1>3. ThreadServes' /\ FailedHasSession'
  <2>1. /\ open' = open \ {c} /\ pc[c] = "recv" /\ pc'[c] = "closed" /\ backlog[c] = {}
        /\ \A d \in Conns \ {c} : pc'[d] = pc[d] /\ (HasSession(d)' <=> HasSession(d))
    BY DEF ThreadServes, HasSession, Registry!Close
  <2>3. ThreadServes'
    BY <2>1 DEF ThreadServes, Sending, Ids, Registry!Close
  <2>2. FailedHasSession'
    BY DEF FailedHasSession, HasSession, Registry!Close, Registry!RegTypeOK
  <2> QED BY <2>2, <2>3
<1>4. BoundHasMet' /\ MarksMet' /\ OfflineMessageKept'
  BY DEF BoundHasMet, MarksMet, Marked, OfflineMessageKept, Registry!Close, Ids
<1>5. UnreadComes'
  BY DEF UnreadComes, Unread, Comes, TooLarge, Registry!Close, Ids
<1> QED BY <1>1, <1>2, <1>3, <1>4, <1>5

LEMMA SignOutPart ==
    ASSUME IInv, NEW c \in Conns, NEW u \in Users, SignOut(c, u)
    PROVE  IInv'
<1> USE DEF IInv, DMTypeOK, SignOut, store, locals
<1>1. Registry!RegTypeOK' /\ Registry!OneToOne'
  BY RegistryPart
<1>2. DMTypeOK'
  BY <1>1 DEF Ids, Registry!SignOut
<1>3. \A d \in Conns, v \in Users :
        <<d, v>> \in bound /\ d # c => <<d, v>> \in bound'
  BY DEF Registry!SignOut
<1>4. ThreadServes'
  BY <1>3 DEF ThreadServes, HasSession, Registry!SignOut,
              Registry!RegTypeOK, Sending, Ids
<1>5. FailedHasSession'
  BY <1>3 DEF FailedHasSession, HasSession, Registry!SignOut,
              Registry!RegTypeOK
<1>6. BoundHasMet' /\ MarksMet' /\ OfflineMessageKept'
  BY DEF BoundHasMet, MarksMet, Marked, OfflineMessageKept, Registry!SignOut, Ids
<1>7. UnreadComes'
  <2> SUFFICES ASSUME NEW d \in Conns, NEW v \in Users, <<d, v>> \in bound',
                      pc[d] # "fetch", d \notin failed', NEW m \in Unread(v)
               PROVE  Comes(m, d)'
    BY DEF UnreadComes, Unread, Ids
  <2>1. <<d, v>> \in bound /\ <<c, u>> \in bound /\ <<d, v>> # <<c, u>>
    BY SMT DEF Registry!SignOut, SignOut
  <2>2. d # c
    <3>1. d = c => u = v
      BY <2>1, Single, ZenonT(30)
    <3> QED BY <2>1, <3>1
  <2>3. d \notin failed /\ Comes(m, d)
    BY <2>1, <2>2 DEF UnreadComes
  <2> QED BY <2>2, <2>3 DEF Comes, TooLarge
<1> QED BY <1>1, <1>2, <1>4, <1>5, <1>6, <1>7

LEMMA SignInPart ==
    ASSUME IInv, NEW c \in Conns, NEW u \in Users, SignIn(c, u)
    PROVE  IInv'
<1> USE DEF IInv, DMTypeOK, SignIn, Goto, store
<1>1. Registry!RegTypeOK' /\ Registry!OneToOne'
  BY RegistryPart
<1>2. DMTypeOK'
  BY <1>1 DEF Ids, Registry!SignIn
<1>3. bound \subseteq bound' /\ <<c, u>> \in bound'
  BY DEF Registry!SignIn
<1>4. ThreadServes' /\ FailedHasSession'
  <2>1. \A d \in Conns : HasSession(d) => HasSession(d)'
    BY <1>3 DEF HasSession
  <2>2. HasSession(c)' /\ c \in open /\ UNCHANGED open
    BY <1>3 DEF HasSession, Registry!SignIn
  <2>3. FailedHasSession'
    BY <2>1 DEF FailedHasSession, Registry!RegTypeOK
  <2>4. ThreadServes'
    BY <1>3, <2>1, <2>2 DEF ThreadServes, Sending, Ids
  <2> QED BY <2>3, <2>4
<1>5. BoundHasMet'
  <2> SUFFICES ASSUME NEW d \in Conns, NEW v \in Users, <<d, v>> \in bound',
                      NEW m \in Ids, rows[m].to = v
               PROVE  m \in met'
    BY DEF BoundHasMet, Ids
  <2>1. <<d, v>> \in bound \/ v = u
    BY DEF Registry!SignIn
  <2> QED BY <2>1 DEF BoundHasMet
<1>7. MarksMet' /\ OfflineMessageKept'
  BY DEF MarksMet, Marked, OfflineMessageKept, Ids
<1>6. UnreadComes'
  <2> SUFFICES ASSUME NEW d \in Conns, NEW v \in Users, <<d, v>> \in bound',
                      pc'[d] # "fetch", d \notin failed, NEW m \in Unread(v)
               PROVE  Comes(m, d)'
    BY DEF UnreadComes, Unread, Ids
  <2>1. d # c /\ <<d, v>> \in bound
    BY DEF Registry!SignIn
  <2>2. pc[d] # "fetch" /\ Comes(m, d)
    BY <2>1 DEF UnreadComes
  <2> QED BY <2>1, <2>2 DEF Comes, TooLarge
<1> QED BY <1>1, <1>2, <1>4, <1>5, <1>6, <1>7
------------------------------------------------------------------------------
\* handle_login

LEMMA SameRegistry ==
    ASSUME Registry!RegTypeOK, Registry!OneToOne, UNCHANGED <<open, bound>>
    PROVE  /\ Registry!RegTypeOK' /\ Registry!OneToOne'
           /\ \A c : HasSession(c)' <=> HasSession(c)
BY DEF Registry!RegTypeOK, Registry!OneToOne, Registry!BoundConns, HasSession

LEMMA FetchPart ==
    ASSUME IInv, NEW c \in Conns, FetchBacklog(c)
    PROVE  IInv'
<1> USE DEF IInv, DMTypeOK, FetchBacklog, Goto, store, history
<1>1. Registry!RegTypeOK' /\ Registry!OneToOne' /\ \A d : HasSession(d)' <=> HasSession(d)
  BY SameRegistry
<1>2. Unread(UserOn(c)) \subseteq Ids
  BY DEF Unread
<1>3. DMTypeOK'
  BY <1>1, <1>2 DEF Ids
<1>4. ThreadServes' /\ FailedHasSession'
  BY <1>1 DEF ThreadServes, FailedHasSession, Sending, Ids
<1>5. BoundHasMet' /\ MarksMet' /\ OfflineMessageKept'
  BY DEF BoundHasMet, MarksMet, Marked, OfflineMessageKept, Ids
<1>6. UnreadComes'
  <2> SUFFICES ASSUME NEW d \in Conns, NEW v \in Users, <<d, v>> \in bound,
                      pc'[d] # "fetch", d \notin failed, NEW m \in Unread(v)
               PROVE  Comes(m, d)'
    BY DEF UnreadComes, Unread, Ids
  <2>1. CASE d = c
    <3>1. UserOn(c) = v
      BY <2>1, UserOnBound
    <3> QED BY <2>1, <3>1 DEF Comes, TooLarge
  <2>2. CASE d # c
    <3>1. Comes(m, d)
      BY <2>2 DEF UnreadComes
    <3> QED BY <2>2, <3>1 DEF Comes, TooLarge
  <2> QED BY <2>1, <2>2
<1> QED BY <1>1, <1>3, <1>4, <1>5, <1>6

LEMMA FetchFailsPart ==
    ASSUME IInv, NEW c \in Conns, FetchFails(c)
    PROVE  IInv'
<1> USE DEF IInv, DMTypeOK, FetchFails, Goto, store
<1>1. Registry!RegTypeOK' /\ Registry!OneToOne' /\ \A d : HasSession(d)' <=> HasSession(d)
  BY SameRegistry
<1>2. c \in open /\ HasSession(c)
  BY DEF ThreadServes
<1>3. DMTypeOK'
  BY <1>1, <1>2 DEF Ids
<1>4. ThreadServes' /\ FailedHasSession'
  BY <1>1, <1>2 DEF ThreadServes, FailedHasSession, Sending, Ids
<1>5. BoundHasMet' /\ MarksMet' /\ OfflineMessageKept'
  BY DEF BoundHasMet, MarksMet, Marked, OfflineMessageKept, Ids
<1>6. UnreadComes'
  BY DEF UnreadComes, Unread, Comes, TooLarge, Ids
<1> QED BY <1>1, <1>3, <1>4, <1>5, <1>6

LEMMA SendBacklogPart ==
    ASSUME IInv, NEW c \in Conns, SendBacklog(c)
    PROVE  IInv'
<1> USE DEF IInv, DMTypeOK, SendBacklog, store
<1> DEFINE m == Min(backlog[c])
<1>1. Registry!RegTypeOK' /\ Registry!OneToOne' /\ \A d : HasSession(d)' <=> HasSession(d)
  BY SameRegistry
<1>2. m \in backlog[c] /\ m \in Ids
  <2>1. backlog[c] \subseteq Ids /\ Ids \subseteq Nat /\ backlog[c] # {}
    BY DEF Ids
  <2> QED BY <2>1, MinIsMember
<1>3. UserOn(c) \in Users \cup {NoUser}
  BY UserOnType
<1> HIDE DEF m
<1>4. /\ \/ /\ out' = [out EXCEPT ![c] = @ \cup {m}]
            /\ reached' = reached \cup {<<m, UserOn(c)>>}
         \/ TooLarge(m) /\ UNCHANGED <<out, reached>>
      /\ backlog' = [backlog EXCEPT ![c] = @ \ {m}]
  BY DEF m, WriteTo, TooLarge
<1>5. DMTypeOK'
  BY <1>1, <1>2, <1>3, <1>4 DEF Ids
<1>6. ThreadServes' /\ FailedHasSession'
  BY <1>1, <1>4 DEF ThreadServes, FailedHasSession, Sending, Ids
<1>7. BoundHasMet' /\ MarksMet' /\ OfflineMessageKept'
  BY DEF BoundHasMet, MarksMet, Marked, OfflineMessageKept, Ids
<1>8. UnreadComes'
  <2>1. \A d \in Conns : \A n \in out[d] \cup backlog[d] :
            n \in out'[d] \cup backlog'[d] \/ TooLarge(n)
    BY <1>4
  <2> QED BY <2>1 DEF UnreadComes, Unread, Comes, TooLarge, Ids
<1> QED BY <1>1, <1>5, <1>6, <1>7, <1>8

LEMMA BacklogSentPart ==
    ASSUME IInv, NEW c \in Conns, BacklogSent(c)
    PROVE  IInv'
<1> USE DEF IInv, DMTypeOK, BacklogSent, Goto, store, history
<1>1. Registry!RegTypeOK' /\ Registry!OneToOne' /\ \A d : HasSession(d)' <=> HasSession(d)
  BY SameRegistry
<1>2. DMTypeOK'
  BY <1>1 DEF Ids
<1>3. ThreadServes' /\ FailedHasSession'
  BY <1>1 DEF ThreadServes, FailedHasSession, Sending, Ids
<1>4. BoundHasMet' /\ MarksMet' /\ OfflineMessageKept'
  BY DEF BoundHasMet, MarksMet, Marked, OfflineMessageKept, Ids
<1>5. UnreadComes'
  BY DEF UnreadComes, Unread, Comes, TooLarge, Ids
<1> QED BY <1>1, <1>2, <1>3, <1>4, <1>5
------------------------------------------------------------------------------
\* handle_send_message

LEMMA InsertPart ==
    ASSUME IInv, NEW c \in Conns, NEW u \in Users, NEW v \in Users, Insert(c, u, v)
    PROVE  IInv'
<1> USE DEF IInv, DMTypeOK, Insert, Goto, NextId
<1>1. Registry!RegTypeOK' /\ Registry!OneToOne' /\ \A d : HasSession(d)' <=> HasSession(d)
  BY SameRegistry
<1>2. /\ rows' \in Seq(Row) /\ Len(rows') = Len(rows) + 1
      /\ Ids = 1..Len(rows) /\ Ids' = 1..(Len(rows) + 1)
      /\ \A m \in Ids : rows'[m] = rows[m]
      /\ rows'[Len(rows) + 1].from = u /\ rows'[Len(rows) + 1].to = v
  <2>1. PICK fits \in Fittings :
           rows' = Append(rows, [from |-> u, to |-> v, fits |-> fits])
    OBVIOUS
  <2>2. [from |-> u, to |-> v, fits |-> fits] \in Row
    BY DEF Row
  <2> QED BY <2>1, <2>2 DEF Ids
<1>3. Ids \subseteq Ids' /\ NextId \in Ids' /\ NextId \notin Ids
  BY <1>2
<1>4. met \subseteq met' /\ met' \subseteq Ids'
  BY <1>3
<1>5. DMTypeOK'
  BY <1>1, <1>2, <1>3, <1>4
<1>6. ThreadServes' /\ FailedHasSession'
  <2>1. FailedHasSession'
    BY <1>1 DEF FailedHasSession
  <2>2. /\ job'[c] \in Ids' /\ <<c, rows'[job'[c]].from>> \in bound
        /\ pc[c] = "recv" /\ pc'[c] = "lookup" /\ backlog[c] = {}
    <3>1. job'[c] = NextId /\ rows'[NextId].from = u
      BY <1>2
    <3>2. pc[c] = "recv" /\ pc'[c] = "lookup" /\ backlog[c] = {}
      BY DEF ThreadServes
    <3> QED BY <1>3, <3>1, <3>2
  <2>3. \A d \in Conns \ {c} :
            /\ pc'[d] = pc[d] /\ job'[d] = job[d]
            /\ pc[d] \in Sending =>
                  job[d] \in Ids' /\ rows'[job[d]] = rows[job[d]]
    <3>1. \A d \in Conns \ {c} : pc'[d] = pc[d] /\ job'[d] = job[d]
      OBVIOUS
    <3>2. \A d \in Conns : pc[d] \in Sending => job[d] \in Ids
      BY DEF ThreadServes
    <3> QED BY <1>2, <1>3, <3>1, <3>2
  <2>4. ThreadServes'
    <3>1. open' = open /\ bound' = bound /\ backlog' = backlog
      OBVIOUS
    <3> SUFFICES ASSUME NEW d \in Conns
                 PROVE  /\ pc'[d] # "closed" <=> d \in open'
                        /\ pc'[d] \in {"fetch", "flush"} => HasSession(d)'
                        /\ pc'[d] # "flush" => backlog'[d] = {}
                        /\ pc'[d] \in Sending =>
                              /\ job'[d] \in Ids'
                              /\ <<d, rows'[job'[d]].from>> \in bound'
      BY DEF ThreadServes
    <3>2. CASE d = c
      <4>1. c \in open
        BY <2>2 DEF ThreadServes
      <4> QED BY <2>2, <3>1, <3>2, <4>1
    <3>3. CASE d # c
      BY <1>1, <2>3, <3>1, <3>3 DEF ThreadServes
    <3> QED BY <3>2, <3>3
  <2> QED BY <2>1, <2>4
<1>7. BoundHasMet'
  <2> SUFFICES ASSUME NEW d \in Conns, NEW w \in Users, <<d, w>> \in bound,
                      NEW m \in Ids', rows'[m].to = w
               PROVE  m \in met'
    BY DEF BoundHasMet
  <2>1. CASE m \in Ids
    BY <2>1, <1>2, <1>4 DEF BoundHasMet
  <2>2. CASE m = NextId
    <3>1. v = w
      BY <2>2, <1>2
    <3>2. w \in Registry!BoundUsers
      <4>1. <<d, w>>[2] = w
        OBVIOUS
      <4> QED BY <4>1 DEF Registry!BoundUsers
    <3> QED BY <2>2, <3>1, <3>2
  <2> QED BY <2>1, <2>2, <1>2
<1>8. MarksMet'
  <2> SUFFICES ASSUME NEW d \in Conns, pc'[d] \in {"push", "mark"},
                      NEW m \in Ids', rows'[m].from = rows'[job'[d]].from,
                      rows'[m].to = rows'[job'[d]].to
               PROVE  m \in met'
    BY DEF MarksMet, Marked
  <2>1. d # c /\ pc[d] \in {"push", "mark"} /\ job'[d] = job[d]
    OBVIOUS
  <2>2. job[d] \in Ids /\ <<d, rows[job[d]].from>> \in bound
    BY <2>1 DEF ThreadServes, Sending
  <2>3. u # rows[job[d]].from
    <3>1. ASSUME <<d, u>> \in bound PROVE FALSE
      <4>1. <<c, u>> \in bound /\ Registry!OneToOne
        OBVIOUS
      <4> HIDE DEF IInv, DMTypeOK, Insert, Goto, NextId
      <4>2. c = d
        BY <3>1, <4>1, Single
      <4> QED BY <2>1, <4>2
    <3> QED BY <2>2, <3>1
  <2>4. m \in Ids
    BY <2>1, <2>2, <2>3, <1>2
  <2>5. rows'[m] = rows[m] /\ rows'[job'[d]] = rows[job[d]]
    BY <2>1, <2>2, <2>4, <1>2
  <2>6. m \in Marked(job[d])
    BY <2>4, <2>5 DEF Marked
  <2>7. m \in met
    BY <2>1, <2>6 DEF MarksMet
  <2> QED BY <2>7, <1>4
<1>9. OfflineMessageKept'
  BY <1>4 DEF OfflineMessageKept
<1>10. UnreadComes'
  <2> SUFFICES ASSUME NEW d \in Conns, NEW w \in Users, <<d, w>> \in bound,
                      pc'[d] # "fetch", d \notin failed,
                      NEW m \in Ids', m \notin read, rows'[m].to = w
               PROVE  Comes(m, d)'
    BY DEF UnreadComes, Unread
  <2>1. CASE m \in Ids
    <3>1. Comes(m, d)
      BY <2>1, <1>2 DEF UnreadComes, Unread
    <3>2. rows'[m] = rows[m]
      BY <2>1, <1>2
    <3>3. TooLarge(m) => TooLarge(m)'
      BY <3>2 DEF TooLarge
    <3> QED BY <3>1, <3>3 DEF Comes
  <2>2. CASE m = NextId
    BY <2>2 DEF Comes, TooLarge
  <2> QED BY <2>1, <2>2, <1>2
<1> QED BY <1>1, <1>5, <1>6, <1>7, <1>8, <1>9, <1>10
LEMMA LookupPart ==
    ASSUME IInv, NEW c \in Conns, LookupFound(c)
    PROVE  IInv'
<1> USE DEF IInv, DMTypeOK, LookupFound, Goto, store, history
<1>1. Registry!RegTypeOK' /\ Registry!OneToOne' /\ \A d : HasSession(d)' <=> HasSession(d)
  BY SameRegistry
<1>2. job[c] \in Ids
  BY DEF ThreadServes, Sending
<1>3. PICK r : /\ <<r, rows[job[c]].to>> \in bound
               /\ target' = [target EXCEPT ![c] = r]
  <2>1. PICK p \in bound : /\ p[2] = rows[job[c]].to
                           /\ target' = [target EXCEPT ![c] = p[1]]
    BY DEF SocketsOf
  <2>2. p = <<p[1], p[2]>>
    BY DEF Registry!RegTypeOK
  <2>3. <<p[1], rows[job[c]].to>> \in bound
    BY <2>1, <2>2, Zenon
  <2> HIDE DEF IInv, DMTypeOK, LookupFound
  <2> QED BY <2>1, <2>3, Zenon
<1>4. rows[job[c]].to \in Users /\ r \in Conns
  BY <1>3, SessionIsOpen DEF Registry!RegTypeOK
<1>5. DMTypeOK'
  BY <1>1, <1>3, <1>4 DEF Ids
<1>6. ThreadServes' /\ FailedHasSession'
  BY <1>1 DEF ThreadServes, FailedHasSession, Sending, Ids
<1>7. BoundHasMet' /\ OfflineMessageKept'
  BY DEF BoundHasMet, OfflineMessageKept, Ids
<1>8. MarksMet'
  <2>1. \A m \in Ids : rows[m].to = rows[job[c]].to => m \in met
    BY <1>3, <1>4 DEF BoundHasMet
  <2> QED BY <2>1 DEF MarksMet, Marked, Ids
<1>9. UnreadComes'
  <2> SUFFICES ASSUME NEW d \in Conns, NEW v \in Users, <<d, v>> \in bound,
                      pc'[d] # "fetch", d \notin failed, NEW m \in Unread(v)
               PROVE  Comes(m, d)'
    BY DEF UnreadComes, Unread, Ids
  <2>1. Comes(m, d)
    BY DEF UnreadComes
  <2>2. CASE job[c] = m
    <3>1. rows[job[c]].to = v
      BY <2>2 DEF Unread
    <3>2. r = d
      <4>1. <<r, v>> \in bound
        BY <3>1, <1>3
      <4> QED BY <4>1, Single, ZenonT(30)
    <3> QED BY <2>2, <3>2, <1>3 DEF Comes, TooLarge
  <2>3. CASE job[c] # m
    BY <2>1, <2>3, <1>3 DEF Comes, TooLarge
  <2> QED BY <2>2, <2>3
<1> QED BY <1>1, <1>5, <1>6, <1>7, <1>8, <1>9

LEMMA LookupMissedPart ==
    ASSUME IInv, NEW c \in Conns, LookupMissed(c)
    PROVE  IInv'
<1> USE DEF IInv, DMTypeOK, LookupMissed, Goto, store, history
<1>1. Registry!RegTypeOK' /\ Registry!OneToOne' /\ \A d : HasSession(d)' <=> HasSession(d)
  BY SameRegistry
<1>2. DMTypeOK'
  BY <1>1 DEF Ids
<1>3. ThreadServes' /\ FailedHasSession'
  BY <1>1 DEF ThreadServes, FailedHasSession, Sending, Ids
<1>4. BoundHasMet' /\ MarksMet' /\ OfflineMessageKept'
  BY DEF BoundHasMet, MarksMet, Marked, OfflineMessageKept, Ids
<1>5. UnreadComes'
  <2> SUFFICES ASSUME NEW d \in Conns, NEW v \in Users, <<d, v>> \in bound,
                      pc'[d] # "fetch", d \notin failed, NEW m \in Unread(v)
               PROVE  Comes(m, d)'
    BY DEF UnreadComes, Unread, Ids
  <2>1. Comes(m, d)
    BY DEF UnreadComes
  <2>2. job[c] # m
    <3>1. <<d, v>>[1] = d /\ <<d, v>>[2] = v
      OBVIOUS
    <3>2. d \in SocketsOf(v)
      BY <3>1 DEF SocketsOf
    <3> QED BY <3>2 DEF Unread
  <2> QED BY <2>1, <2>2 DEF Comes, TooLarge
<1> QED BY <1>1, <1>2, <1>3, <1>4, <1>5

LEMMA PushPart ==
    ASSUME IInv, NEW c \in Conns, Push(c)
    PROVE  IInv'
<1> USE DEF IInv, DMTypeOK, Push, Goto, store
<1>1. Registry!RegTypeOK' /\ Registry!OneToOne' /\ \A d : HasSession(d)' <=> HasSession(d)
  BY SameRegistry
<1>2. job[c] \in Ids
  BY DEF ThreadServes, Sending
<1>3. /\ \A d \in Conns : out[d] \subseteq out'[d]
      /\ target[c] \in open => job[c] \in out'[target[c]] \/ TooLarge(job[c])
      /\ out' \in [Conns -> SUBSET Ids]
  <2>1. CASE target[c] \in open
    <3>1. CASE "push" \in rows[job[c]].fits
      BY <2>1, <3>1, <1>2 DEF WriteTo, Registry!RegTypeOK
    <3>2. CASE "push" \notin rows[job[c]].fits
      <4>1. rows[job[c]].fits \in Fittings
        <5>1. rows \in Seq(Row) /\ job[c] \in 1..Len(rows)
          BY <1>2 DEF Ids
        <5>2. rows[job[c]] \in Row
          BY <5>1
        <5> QED BY <5>2 DEF Row
      <4>2. TooLarge(job[c])
        BY <3>2, <4>1, FittingAssumption DEF TooLarge
      <4> QED BY <2>1, <3>2, <4>2 DEF WriteTo
    <3> QED BY <3>1, <3>2
  <2>2. CASE target[c] \notin open
    BY <2>2
  <2> QED BY <2>1, <2>2
<1>4. reached' \subseteq Ids \X (Users \cup {NoUser})
  <2>1. CASE target[c] \in open
    <3>1. UserOn(target[c]) \in Users \cup {NoUser}
      BY <2>1, UserOnType DEF Registry!RegTypeOK
    <3> QED BY <2>1, <3>1, <1>2 DEF WriteTo
  <2>2. CASE target[c] \notin open
    BY <2>2
  <2> QED BY <2>1, <2>2
<1>5. DMTypeOK'
  BY <1>1, <1>3, <1>4 DEF Ids
<1>6. ThreadServes' /\ FailedHasSession'
  BY <1>1 DEF ThreadServes, FailedHasSession, Sending, Ids
<1>7. BoundHasMet' /\ MarksMet' /\ OfflineMessageKept'
  BY DEF BoundHasMet, MarksMet, Marked, OfflineMessageKept, Ids
<1>8. UnreadComes'
  <2> SUFFICES ASSUME NEW d \in Conns, NEW v \in Users, <<d, v>> \in bound,
                      pc'[d] # "fetch", d \notin failed, NEW m \in Unread(v)
               PROVE  Comes(m, d)'
    BY DEF UnreadComes, Unread, Ids
  <2>1. Comes(m, d)
    BY DEF UnreadComes
  <2>2. d \in open
    BY SessionIsOpen
  <2>3. CASE job[c] = m /\ target[c] = d
    BY <2>2, <2>3, <1>3 DEF Comes, TooLarge
  <2>4. CASE ~ (job[c] = m /\ target[c] = d)
    BY <2>1, <2>4, <1>3 DEF Comes, TooLarge
  <2> QED BY <2>3, <2>4
<1> QED BY <1>1, <1>5, <1>6, <1>7, <1>8

LEMMA MarkPart ==
    ASSUME IInv, NEW c \in Conns, Mark(c)
    PROVE  IInv'
<1> USE DEF IInv, DMTypeOK, Mark, Goto, history
<1>1. Registry!RegTypeOK' /\ Registry!OneToOne' /\ \A d : HasSession(d)' <=> HasSession(d)
  BY SameRegistry
<1>2. read \subseteq read' /\ read' \subseteq read \cup Marked(job[c])
  OBVIOUS
<1>3. DMTypeOK'
  BY <1>1, <1>2 DEF Ids, Marked
<1>4. ThreadServes' /\ FailedHasSession'
  BY <1>1 DEF ThreadServes, FailedHasSession, Sending, Ids
<1>5. BoundHasMet' /\ MarksMet'
  BY DEF BoundHasMet, MarksMet, Marked, Ids
<1>6. OfflineMessageKept'
  BY <1>2 DEF OfflineMessageKept, MarksMet
<1>7. UnreadComes'
  <2> SUFFICES ASSUME NEW d \in Conns, NEW v \in Users, <<d, v>> \in bound,
                      pc'[d] # "fetch", d \notin failed, NEW m \in Unread(v)
               PROVE  Comes(m, d)'
    BY <1>2 DEF UnreadComes, Unread, Ids
  <2>1. pc[d] # "fetch" /\ Comes(m, d)
    BY DEF UnreadComes
  <2> QED BY <2>1 DEF Comes, TooLarge
<1> QED BY <1>1, <1>3, <1>4, <1>5, <1>6, <1>7
------------------------------------------------------------------------------
LEMMA RestartPart == ASSUME IInv, Restart PROVE IInv'
<1> USE DEF IInv, DMTypeOK, Restart, store
<1>1. Registry!RegTypeOK' /\ Registry!OneToOne'
  BY RegistryPart
<1>2. DMTypeOK'
  BY <1>1 DEF Ids, Registry!Reset
<1>3. ThreadServes' /\ FailedHasSession'
  BY DEF ThreadServes, FailedHasSession, Registry!Reset, Sending
<1>4. BoundHasMet' /\ MarksMet' /\ OfflineMessageKept' /\ UnreadComes'
  BY DEF BoundHasMet, MarksMet, OfflineMessageKept, UnreadComes, Registry!Reset
<1> QED BY <1>1, <1>2, <1>3, <1>4

LEMMA StutterPart == ASSUME IInv, UNCHANGED vars PROVE IInv'
<1> USE DEF IInv, DMTypeOK, vars, store, locals, history
<1>1. Registry!RegTypeOK' /\ Registry!OneToOne' /\ \A d : HasSession(d)' <=> HasSession(d)
  BY SameRegistry
<1> QED
  BY <1>1 DEF ThreadServes, FailedHasSession, Sending, BoundHasMet, MarksMet,
     Marked, OfflineMessageKept, UnreadComes, Unread, Comes, TooLarge, Ids

LEMMA InductiveStep == IInv /\ [Next]_vars => IInv'
<1> SUFFICES ASSUME IInv, [Next]_vars PROVE IInv'
  OBVIOUS
<1>1. ASSUME NEW c \in Conns, LoginStep(c) PROVE IInv'
  BY <1>1, FetchPart, FetchFailsPart, SendBacklogPart, BacklogSentPart
     DEF LoginStep
<1>2. ASSUME NEW c \in Conns, SendStep(c) PROVE IInv'
  BY <1>2, LookupPart, LookupMissedPart, PushPart, MarkPart DEF SendStep
<1> QED
  BY <1>1, <1>2, OpenPart, ClosePart, SignInPart, SignOutPart, InsertPart,
     RestartPart, StutterPart DEF Next

LEMMA Invariance == Spec => []IInv
BY Start, InductiveStep, PTL DEF Spec
------------------------------------------------------------------------------
\* Type correctness, the registry's types included.
THEOREM DMTypesCorrect == Spec => []DMTypeOK
<1>1. IInv => DMTypeOK
  BY DEF IInv
<1> QED BY <1>1, Invariance, PTL

\* Insert-then-look-up and sign-in-then-fetch leave no message behind: once a
\* login is over, what is unread has been written to it or is about to be, or is a
\* message whose notification send_json_packet refuses for its length.
THEOREM NoMessageLeftBehind == Spec => []NoSilentBacklog
<1>1. ASSUME IInv PROVE NoSilentBacklog
  <2> SUFFICES ASSUME NEW c \in Conns, NEW u \in Users, <<c, u>> \in bound,
                      pc[c] = "recv", c \notin failed, NEW m \in Unread(u)
               PROVE  m \in out[c] \/ InFlight(m) \/ TooLarge(m)
    BY DEF NoSilentBacklog
  <2>1. Comes(m, c)
    BY <1>1 DEF IInv, UnreadComes
  <2>2. backlog[c] = {}
    BY <1>1 DEF IInv, ThreadServes
  <2> QED BY <2>1, <2>2 DEF Comes, InFlight
<1> QED BY <1>1, Invariance, PTL

\* Nothing marks a message read before its receiver has had a session.
THEOREM BacklogSurvives == Spec => []OfflineMessageKept
<1>1. IInv => OfflineMessageKept
  BY DEF IInv
<1> QED BY <1>1, Invariance, PTL
==============================================================================
