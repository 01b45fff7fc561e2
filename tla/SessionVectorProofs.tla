------------------------- MODULE SessionVectorProofs -------------------------
(***************************************************************************)
(* Proofs about SessionVector, for any connections and any finite set of   *)
(* users, and so for a vector of any size.                                 *)
(***************************************************************************)
EXTENDS SessionVector, SequenceTheorems, FiniteSetTheorems, TLAPS

Holding == {"found", "acting", "named"}

\* One connection at a time has sessions_mutex, and an element is erased by the
\* one that has it.
Mutex ==
    /\ \A c, d \in Holders : c = d
    /\ hole > 0 <=> \E c \in Conns : pc[c] = "erasing"

\* No two sessions share a connection or a user.
Unique ==
    \A i, j \in Slots :
        mem[i].fd = mem[j].fd \/ mem[i].user = mem[j].user => i = j

\* A session's username is that of its user.
NamesMatch == \A i \in Slots : mem[i].name = mem[i].user

\* Before the next element is touched, the hole holds the descriptor of the
\* connection that erases, or that of the element just moved to its left; then
\* it is a copy of the next element, member by member.
HoleCopies ==
    /\ hole > 0 /\ moved = 0 =>
          \/ \E c \in Conns : pc[c] = "erasing" /\ mem[hole].fd = c
          \/ hole > 1 /\ mem[hole].fd = mem[hole - 1].fd
    /\ moved > 0 => /\ hole > 0 /\ hole < len
                    /\ mem[hole].fd = mem[hole + 1].fd
    /\ moved = 2 => mem[hole].user = mem[hole + 1].user

\* Between the checks of a login and its end the connection stays open and the
\* sessions stay what it checked.
\* A new element waits after the last slot, or everybody is off the buffer.
MidSignIn ==
    \A c \in Conns :
        /\ pc[c] \in {"pushing", "growing"} =>
              c \in open /\ actor[c] \in Users /\ MaySignIn(c, actor[c])
        /\ pc[c] = "pushing" =>
              len < Len(mem) /\ mem[len + 1] = NewSession(c, actor[c])
        /\ pc[c] = "growing" => len = cap /\ Busy \subseteq freed

\* Iterators and pointers into the current buffer stay inside it.
InBuffer ==
    \A c \in Busy \ freed :
        /\ pos[c] >= 1 /\ last[c] <= Len(mem)
        /\ pc[c] \in Holding => pos[c] <= last[c]

\* A connection without a session occurs nowhere in what its scan will visit,
\* the hole and the dead slots included.
NothingToFind ==
    \A c \in Busy \ freed :
        SlotsOf(c) = {} => \A i \in 1..last[c] : mem[i].fd # c

\* A session that was not moved from under the scan is still ahead of it, in the
\* hole at the latest, and the pointer of a handler that found it is still at it.
AheadOrHeld ==
    \A c \in Busy \ (freed \cup slid) :
        /\ pc[c] = "scan" =>
              \A i \in SlotsOf(c) :
                 /\ pos[c] <= i /\ i <= last[c]
                 /\ moved > 0 /\ i = hole + 1 => pos[c] # i
        /\ pc[c] = "refused" => SlotsOf(c) = {}
        /\ pc[c] \in Holding =>
              pos[c] \in SlotsOf(c) /\ (moved > 0 => pos[c] # hole + 1)
        /\ pc[c] \in {"acting", "named"} => actor[c] = mem[pos[c]].user
        /\ pc[c] = "named" => name[c] = actor[c]

IInv == /\ VectorTypeOK
        /\ Mutex /\ Unique /\ NamesMatch /\ HoleCopies /\ MidSignIn
        /\ InBuffer /\ NothingToFind /\ StrangersRefused
        /\ AheadOrHeld

USE VectorAssumption
------------------------------------------------------------------------------
\* What push_back and erase do to the memory.

LEMMA NewSessionFields ==
    ASSUME NEW c \in Conns, NEW u \in Users
    PROVE  /\ NewSession(c, u) \in Session
           /\ NewSession(c, u).fd = c
           /\ NewSession(c, u).user = u /\ NewSession(c, u).name = u
BY DEF NewSession, Session

LEMMA ElementTypes ==
    ASSUME VectorTypeOK
    PROVE  /\ Len(mem) \in Nat /\ len \in Nat /\ len <= Len(mem)
           /\ \A i \in 1..Len(mem) : /\ mem[i] \in Session /\ mem[i].fd \in Conns
                                    /\ mem[i].user \in Users /\ mem[i].name \in AnyUser
<1>1. mem \in Seq(Session) /\ Len(mem) \in Nat /\ len \in 0..Len(mem)
  BY DEF VectorTypeOK
<1>2. \A i \in 1..Len(mem) : mem[i] \in Session
  BY <1>1, ElementOfSeq
<1> QED BY <1>1, <1>2 DEF Session, AnyUser

\* In place, nothing but the slot after the last one changes.
LEMMA ConstructEffect ==
    ASSUME VectorTypeOK, NEW c \in Conns, NEW u \in Users, Construct(c, u)
    PROVE  /\ mem' \in Seq(Session) /\ Len(mem') <= cap
           /\ Len(mem) <= Len(mem') /\ len < Len(mem')
           /\ mem'[len + 1] = NewSession(c, u)
           /\ \A i \in 1..Len(mem) : i # len + 1 => mem'[i] = mem[i]
<1> DEFINE n == IF len < Len(mem) THEN Len(mem) ELSE len + 1
           s == NewSession(c, u)
<1>1. len \in Nat /\ Len(mem) \in Nat /\ len <= Len(mem) /\ Len(mem) <= cap /\ cap \in Nat
  BY DEF VectorTypeOK
<1>2. n \in Nat /\ len + 1 \in 1..n /\ Len(mem) <= n /\ n <= cap
  BY <1>1 DEF Construct
<1>3. mem' = [i \in 1..n |-> IF i = len + 1 THEN s ELSE mem[i]]
  BY DEF Construct
<1>4. \A i \in 1..n : (IF i = len + 1 THEN s ELSE mem[i]) \in Session
  <2>1. s \in Session /\ \A i \in 1..Len(mem) : mem[i] \in Session
    BY NewSessionFields, ElementTypes
  <2> HIDE DEF s
  <2> QED BY <1>1, <2>1
<1> HIDE DEF n, s
<1>5. mem' \in Seq(Session) /\ Len(mem') = n
  BY <1>2, <1>3, <1>4
<1>6. mem'[len + 1] = s
  BY <1>2, <1>3
<1>7. \A i \in 1..Len(mem) : i # len + 1 => mem'[i] = mem[i]
  BY <1>1, <1>2, <1>3
<1> QED BY <1>1, <1>2, <1>5, <1>6, <1>7 DEF s

LEMMA GrownEffect ==
    ASSUME VectorTypeOK, len = cap, NEW s \in Session,
           mem' = Append(SubSeq(mem, 1, len), s), cap' = CapGrown
    PROVE  /\ mem' \in Seq(Session) /\ Len(mem') = len + 1
           /\ cap' \in Nat /\ len + 1 <= cap'
           /\ mem'[len + 1] = s /\ \A i \in Live : mem'[i] = mem[i]
<1>1. \A i \in 1..len : mem[i] \in Session
  BY ElementTypes
<1>2. /\ SubSeq(mem, 1, len) \in Seq(Session)
      /\ Len(SubSeq(mem, 1, len)) = len
      /\ \A i \in 1..len : SubSeq(mem, 1, len)[i] = mem[i]
  BY <1>1, SubSeqProperties DEF VectorTypeOK
<1>3. /\ mem' \in Seq(Session) /\ Len(mem') = len + 1
      /\ mem'[len + 1] = s /\ \A i \in 1..len : mem'[i] = mem[i]
  BY <1>2 DEF VectorTypeOK
<1>4. cap' \in Nat /\ len + 1 <= cap'
  BY DEF CapGrown, VectorTypeOK
<1> QED BY <1>3, <1>4 DEF Live

LEMMA MoveFdEffect ==
    ASSUME VectorTypeOK, hole > 0, hole < len, NEW c \in Conns, MoveFd(c)
    PROVE  /\ mem' \in Seq(Session) /\ Len(mem') = Len(mem)
           /\ mem'[hole].fd = mem[hole + 1].fd
           /\ \A i \in 1..Len(mem) : i # hole => mem'[i] = mem[i]
<1>1. hole \in 1..Len(mem) /\ hole + 1 \in 1..Len(mem)
  BY DEF VectorTypeOK
<1>2. mem[hole] \in Session /\ mem[hole + 1].fd \in Conns
  BY <1>1, ElementTypes
<1> DEFINE s == [mem[hole] EXCEPT !.fd = mem[hole + 1].fd]
<1>3. s \in Session /\ s.fd = mem[hole + 1].fd
  BY <1>2 DEF Session
<1>4. mem' = [mem EXCEPT ![hole] = s]
  BY DEF MoveFd
<1> HIDE DEF s
<1> QED BY <1>1, <1>3, <1>4 DEF VectorTypeOK

LEMMA MoveUserEffect ==
    ASSUME VectorTypeOK, hole > 0, hole < len, NEW c \in Conns, MoveUser(c)
    PROVE  /\ mem' \in Seq(Session) /\ Len(mem') = Len(mem)
           /\ mem'[hole].fd = mem[hole].fd
           /\ mem'[hole].user = mem[hole + 1].user
           /\ \A i \in 1..Len(mem) : i # hole => mem'[i] = mem[i]
<1>1. hole \in 1..Len(mem) /\ hole + 1 \in 1..Len(mem)
  BY DEF VectorTypeOK
<1>2. mem[hole] \in Session /\ mem[hole + 1].user \in Users
  BY <1>1, ElementTypes
<1> DEFINE s == [mem[hole] EXCEPT !.user = mem[hole + 1].user]
<1>3. s \in Session /\ s.fd = mem[hole].fd /\ s.user = mem[hole + 1].user
  BY <1>2 DEF Session
<1>4. mem' = [mem EXCEPT ![hole] = s]
  BY DEF MoveUser
<1> HIDE DEF s
<1> QED BY <1>1, <1>3, <1>4 DEF VectorTypeOK

LEMMA MoveNameEffect ==
    ASSUME VectorTypeOK, hole > 0, hole < len, NEW c \in Conns, MoveName(c)
    PROVE  /\ mem' \in Seq(Session) /\ Len(mem') = Len(mem)
           /\ \A i \in 1..Len(mem) : mem'[i].fd = mem[i].fd /\ mem'[i].user = mem[i].user
           /\ mem'[hole].name = mem[hole + 1].name
           /\ \A i \in 1..Len(mem) \ {hole, hole + 1} : mem'[i] = mem[i]
<1>1. hole \in 1..Len(mem) /\ hole + 1 \in 1..Len(mem) /\ hole # hole + 1
  BY DEF VectorTypeOK
<1>2. /\ mem[hole] \in Session /\ mem[hole + 1] \in Session
      /\ mem[hole + 1].name \in AnyUser
  BY <1>1, ElementTypes
<1> DEFINE s == [mem[hole] EXCEPT !.name = mem[hole + 1].name]
           t == [mem[hole + 1] EXCEPT !.name = NoUser]
<1>3. /\ s \in Session /\ s.fd = mem[hole].fd /\ s.user = mem[hole].user
      /\ s.name = mem[hole + 1].name
  BY <1>2 DEF Session, AnyUser
<1>4. t \in Session /\ t.fd = mem[hole + 1].fd /\ t.user = mem[hole + 1].user
  BY <1>2 DEF Session
<1>5. mem' = [mem EXCEPT ![hole] = s, ![hole + 1] = t]
  BY <1>1 DEF MoveName
<1> HIDE DEF s, t
<1>6. mem' \in Seq(Session) /\ Len(mem') = Len(mem)
  BY <1>1, <1>3, <1>4, <1>5 DEF VectorTypeOK
<1>7. /\ mem'[hole] = s /\ mem'[hole + 1] = t
      /\ \A i \in 1..Len(mem) \ {hole, hole + 1} : mem'[i] = mem[i]
  BY <1>1, <1>5 DEF VectorTypeOK
<1> QED BY <1>3, <1>4, <1>6, <1>7
------------------------------------------------------------------------------
LEMMA Start == Init => IInv
<1> SUFFICES ASSUME Init PROVE IInv
  OBVIOUS
<1>1. Live = {} /\ Slots = {} /\ Busy = {} /\ Holders = {}
  BY DEF Init, Live, Slots, Busy, Holders
<1>2. Len(mem) = 0 /\ mem \in Seq(Session)
  BY DEF Init
<1>3. VectorTypeOK
  BY <1>2 DEF Init, VectorTypeOK, AnyUser
<1>4. Mutex /\ HoleCopies /\ MidSignIn /\ StrangersRefused
  BY <1>1 DEF Init, Mutex, HoleCopies, MidSignIn, StrangersRefused
<1>5. Unique /\ NamesMatch /\ InBuffer /\ NothingToFind /\ AheadOrHeld
  BY <1>1 DEF Unique, NamesMatch, InBuffer, NothingToFind, AheadOrHeld
<1> QED BY <1>3, <1>4, <1>5 DEF IInv

\* The handlers that read without the mutex do not move.
ReadersRest ==
    /\ Busy' = Busy
    /\ \A d \in Busy : /\ pc'[d] = pc[d] /\ pos'[d] = pos[d] /\ last'[d] = last[d]
                       /\ actor'[d] = actor[d] /\ name'[d] = name[d]
    /\ freed \subseteq freed' /\ slid \subseteq slid'

\* A connection at its login or logout is no reader.
LEMMA HolderMoves ==
    ASSUME VectorTypeOK, NEW c \in Conns,
           pc[c] \in {"idle", "pushing", "growing", "erasing"},
           NEW loc \in {"idle", "pushing", "growing", "erasing"}, Goto(c, loc),
           \A d \in Conns \ {c} : actor'[d] = actor[d],
           UNCHANGED <<pos, last, name>>,
           freed \subseteq freed', slid \subseteq slid'
    PROVE  /\ ReadersRest
           /\ pc'[c] = loc /\ \A d \in Conns \ {c} : pc'[d] = pc[d]
           /\ Holders' = IF loc = "idle" THEN Holders \ {c} ELSE Holders \cup {c}
<1>1. pc'[c] = loc /\ \A d \in Conns \ {c} : pc'[d] = pc[d]
  BY DEF Goto, VectorTypeOK
<1>2. Busy' = Busy /\ c \notin Busy
  BY <1>1 DEF Busy
<1>3. Holders' = IF loc = "idle" THEN Holders \ {c} ELSE Holders \cup {c}
  BY <1>1 DEF Holders
<1>4. ReadersRest
  BY <1>1, <1>2 DEF ReadersRest, Busy
<1> QED BY <1>1, <1>3, <1>4

\* A step of a login or logout that leaves every session in its slot leaves the
\* readers what they have, if it starts to move a session only under readers that
\* are counted as slid, and brings no descriptor that they look for in vain.
LEMMA ReadersUnharmed ==
    ASSUME IInv, ReadersRest,
           \A d \in Busy : SlotsOf(d)' = SlotsOf(d),
           \A d \in Busy : \A i \in SlotsOf(d) : mem'[i].user = mem[i].user,
           \A d \in Busy \ slid' :
              moved' > 0 => \/ moved > 0 /\ hole' = hole
                            \/ hole' + 1 \notin SlotsOf(d)
                            \/ pos[d] # hole' + 1,
           Busy \subseteq freed' \/ (Len(mem) <= Len(mem') /\ Len(mem') \in Nat),
           \A d \in Busy \ freed' : SlotsOf(d) = {} =>
              \A i \in 1..Len(mem) : mem'[i].fd = d => mem[i].fd = d
    PROVE  InBuffer' /\ NothingToFind' /\ StrangersRefused' /\ AheadOrHeld'
<1> USE DEF IInv
<1>1. InBuffer'
  <2> SUFFICES ASSUME NEW d \in Busy \ freed'
               PROVE  /\ pos[d] >= 1 /\ last[d] <= Len(mem')
                      /\ pc[d] \in Holding => pos[d] <= last[d]
    BY DEF ReadersRest, InBuffer
  <2>1. d \in Busy \ freed /\ last[d] \in Nat /\ Len(mem) <= Len(mem') /\ Len(mem') \in Nat
    BY DEF ReadersRest, VectorTypeOK, Busy
  <2>2. /\ pos[d] >= 1 /\ last[d] <= Len(mem)
        /\ pc[d] \in Holding => pos[d] <= last[d]
    BY <2>1 DEF InBuffer
  <2>3. Len(mem) \in Nat
    BY ElementTypes
  <2> QED BY <2>1, <2>2, <2>3
<1>2. NothingToFind'
  <2> SUFFICES ASSUME NEW d \in Busy \ freed', SlotsOf(d) = {}, NEW i \in 1..last[d]
               PROVE  mem'[i].fd # d
    BY DEF ReadersRest, NothingToFind
  <2>1. d \in Busy \ freed /\ last[d] \in Nat
    BY DEF ReadersRest, VectorTypeOK, Busy
  <2>2. last[d] <= Len(mem) /\ mem[i].fd # d
    BY <2>1 DEF InBuffer, NothingToFind
  <2>3. i \in 1..Len(mem)
    BY <2>1, <2>2, ElementTypes
  <2> QED BY <2>2, <2>3
<1>3. StrangersRefused'
  <2> SUFFICES ASSUME NEW d \in Conns \ freed', pc'[d] \in {"found", "acting", "named"}
               PROVE  SlotsOf(d)' # {}
    BY DEF StrangersRefused
  <2>1. d \in Busy /\ pc[d] = pc'[d] /\ d \notin freed
    <3>1. d \in Busy'
      BY DEF Busy
    <3> QED BY <3>1 DEF ReadersRest
  <2> QED BY <2>1 DEF StrangersRefused
<1>4. AheadOrHeld'
  <2> SUFFICES ASSUME NEW d \in Busy \ (freed' \cup slid')
               PROVE  /\ pc[d] = "scan" =>
                            \A i \in SlotsOf(d) :
                               /\ pos[d] <= i /\ i <= last[d]
                               /\ moved' > 0 /\ i = hole' + 1 => pos[d] # i
                      /\ pc[d] = "refused" => SlotsOf(d) = {}
                      /\ pc[d] \in Holding =>
                            pos[d] \in SlotsOf(d) /\ (moved' > 0 => pos[d] # hole' + 1)
                      /\ pc[d] \in {"acting", "named"} => actor[d] = mem'[pos[d]].user
                      /\ pc[d] = "named" => name[d] = actor[d]
    BY DEF ReadersRest, AheadOrHeld
  <2>1. d \in Busy \ (freed \cup slid)
    BY DEF ReadersRest
  <2>2. pc[d] \in {"acting", "named"} => pos[d] \in SlotsOf(d)
    BY <2>1 DEF AheadOrHeld, Holding
  <2>3. pc[d] \in Holding => pos[d] \in SlotsOf(d) /\ (moved' > 0 => pos[d] # hole' + 1)
    BY <2>1 DEF AheadOrHeld
  <2>4. pc[d] = "scan" => \A i \in SlotsOf(d) : moved' > 0 /\ i = hole' + 1 => pos[d] # i
    BY <2>1 DEF AheadOrHeld
  <2> QED BY <2>1, <2>2, <2>3, <2>4 DEF AheadOrHeld
<1> QED BY <1>1, <1>2, <1>3, <1>4

\* Outside an erase there is no hole; during one, its connection is the only one
\* between the ends of a login or logout.
LEMMA NoHole ==
    ASSUME IInv, ~ \E c \in Conns : pc[c] = "erasing"
    PROVE  hole = 0 /\ moved = 0 /\ Slots = Live
<1>1. hole = 0
  BY DEF IInv, VectorTypeOK, Mutex
<1>2. moved = 0
  BY <1>1 DEF IInv, VectorTypeOK, HoleCopies
<1>3. Slots = Live
  BY <1>1 DEF Slots, Live, IInv, VectorTypeOK
<1> QED BY <1>1, <1>2, <1>3

LEMMA AloneInErase ==
    ASSUME IInv, NEW c \in Conns, pc[c] = "erasing"
    PROVE  /\ hole > 0 /\ hole \in Nat /\ Holders = {c}
           /\ \A d \in Conns : pc[d] \notin {"pushing", "growing"}
<1>1. c \in Holders
  BY DEF Holders
<1>2. Holders = {c}
  BY <1>1 DEF IInv, Mutex
<1>3. \A d \in Conns : pc[d] \in {"pushing", "growing"} => d = c
  BY <1>2 DEF Holders
<1> QED BY <1>2, <1>3 DEF IInv, Mutex, VectorTypeOK
------------------------------------------------------------------------------
\* The steps of a login.

LEMMA SignInPart ==
    ASSUME IInv, NEW c \in Conns, NEW u \in Users, SignIn(c, u)
    PROVE  IInv'
<1> USE DEF IInv
<1>1. /\ pc[c] = "idle" /\ Holders = {} /\ MaySignIn(c, u)
      /\ Construct(c, u) \/ Vacate(c)
      /\ actor' = [actor EXCEPT ![c] = u]
      /\ UNCHANGED <<open, len, cap, hole, moved, pos, last, name, slid>>
  BY DEF SignIn, erase
<1>2. hole = 0 /\ moved = 0 /\ Slots = Live
  BY <1>1, NoHole DEF Holders
<1>3. /\ mem' \in Seq(Session) /\ Len(mem') <= cap
      /\ Len(mem) <= Len(mem')
      /\ \A i \in 1..Len(mem) : i # len + 1 => mem'[i] = mem[i]
  BY <1>1, ConstructEffect DEF Vacate, VectorTypeOK
<1>4. /\ len \in Nat /\ Len(mem) \in Nat /\ len <= Len(mem) /\ Len(mem') \in Nat
      /\ \A i \in Live : mem'[i] = mem[i] /\ mem[i].fd # c /\ mem[i].user # u
  BY <1>1, <1>3, ElementTypes DEF Live, MaySignIn
<1>5. /\ actor'[c] = u /\ \A d \in Conns \ {c} : actor'[d] = actor[d]
      /\ actor' \in [Conns -> AnyUser]
  BY <1>1 DEF VectorTypeOK, AnyUser
<1> DEFINE loc == IF Construct(c, u) THEN "pushing" ELSE "growing"
<1>6. Goto(c, loc) /\ loc \in {"pushing", "growing"} /\ freed \subseteq freed'
      /\ freed' \subseteq Conns
  BY <1>1 DEF Construct, Vacate, VectorTypeOK, Busy
<1>7. /\ ReadersRest
      /\ pc'[c] = loc /\ \A d \in Conns \ {c} : pc'[d] = pc[d]
      /\ Holders' = {c}
  BY <1>1, <1>5, <1>6, HolderMoves
<1>8. Live' = Live /\ Slots' = Live
  BY <1>1, <1>2 DEF Live, Slots
<1>9. \A d \in Conns : SlotsOf(d)' = SlotsOf(d)
  BY <1>2, <1>4, <1>8 DEF SlotsOf
<1>10. VectorTypeOK'
  <2>1. pc' \in [Conns -> {"idle", "pushing", "growing", "erasing",
                           "scan", "found", "refused", "acting", "named"}]
    BY <1>6 DEF Goto, VectorTypeOK
  <2> QED BY <1>1, <1>3, <1>4, <1>5, <1>6, <2>1 DEF VectorTypeOK
<1>11. Mutex'
  BY <1>1, <1>2, <1>6, <1>7 DEF Mutex, Holders
<1>12. Unique' /\ NamesMatch'
  BY <1>2, <1>4, <1>8 DEF Unique, NamesMatch
<1>13. HoleCopies'
  BY <1>1, <1>2 DEF HoleCopies
<1>14. MidSignIn'
  <2> SUFFICES ASSUME NEW d \in Conns, pc'[d] \in {"pushing", "growing"}
               PROVE  /\ d \in open /\ actor'[d] \in Users /\ MaySignIn(d, actor[d])'
                      /\ pc'[d] = "pushing" =>
                            len < Len(mem') /\ mem'[len + 1] = NewSession(d, actor[d])'
                      /\ pc'[d] = "growing" => len = cap /\ Busy' \subseteq freed'
    BY <1>1 DEF MidSignIn
  <2>1. d = c /\ c \in open
    BY <1>7 DEF Holders, SignIn
  <2>2. \A i \in Live : mem'[i].fd # c /\ mem'[i].user # u
    BY <1>4
  <2>3. MaySignIn(c, actor[c])'
    BY <1>5, <1>8, <2>2 DEF MaySignIn
  <2>4. CASE pc'[c] = "pushing"
    <3>1. Construct(c, u)
      BY <1>7, <2>4
    <3>2. len < Len(mem') /\ mem'[len + 1] = NewSession(c, u)
      BY <3>1, ConstructEffect
    <3>3. mem'[len + 1] = NewSession(c, actor[c])'
      BY <1>5, <3>2 DEF NewSession
    <3> QED BY <1>5, <2>1, <2>3, <2>4, <3>2, <3>3
  <2>5. CASE pc'[c] = "growing"
    <3>1. Vacate(c)
      BY <1>1, <1>7, <2>5
    <3>2. len = cap /\ Busy \subseteq freed'
      BY <3>1 DEF Vacate
    <3> QED BY <1>5, <1>7, <2>1, <2>3, <2>5, <3>2 DEF ReadersRest
  <2> QED BY <2>1, <2>4, <2>5
<1>15. InBuffer' /\ NothingToFind' /\ StrangersRefused' /\ AheadOrHeld'
  <2>1. \A i \in 1..Len(mem) : mem'[i] = mem[i] \/ mem'[i].fd = c
    <3>1. CASE Construct(c, u)
      <4>1. mem'[len + 1].fd = c
        BY <3>1, ConstructEffect, NewSessionFields
      <4> QED BY <1>3, <4>1
    <3>2. CASE Vacate(c)
      BY <3>2 DEF Vacate
    <3> QED BY <1>1, <3>1, <3>2
  <2>2. c \notin Busy
    BY <1>1 DEF Busy
  <2>3. \A d \in Busy : \A i \in SlotsOf(d) : mem'[i].user = mem[i].user
    BY <1>2, <1>4 DEF SlotsOf
  <2>4. \A d \in Busy \ freed' : SlotsOf(d) = {} =>
            \A i \in 1..Len(mem) : mem'[i].fd = d => mem[i].fd = d
    BY <2>1, <2>2
  <2>5. ~ (moved' > 0)
    BY <1>1, <1>2
  <2>6. \A d \in Busy : SlotsOf(d)' = SlotsOf(d)
    BY <1>9 DEF Busy
  <2> QED BY <1>3, <1>4, <1>7, <2>3, <2>4, <2>5, <2>6, ReadersUnharmed
<1> QED BY <1>10, <1>11, <1>12, <1>13, <1>14, <1>15

LEMMA SignedInPart ==
    ASSUME IInv, NEW c \in Conns, SignedIn(c)
    PROVE  IInv'
<1> USE DEF IInv
<1> DEFINE s == NewSession(c, actor[c])
<1>1. /\ pc[c] \in {"pushing", "growing"} /\ len' = len + 1 /\ Goto(c, "idle")
      /\ actor' = [actor EXCEPT ![c] = NoUser]
      /\ UNCHANGED <<open, hole, moved, pos, last, name, freed, slid>>
  BY DEF SignedIn, erase
<1>2. Holders = {c}
  <2>1. c \in Holders
    BY <1>1 DEF Holders
  <2> QED BY <2>1 DEF Mutex
<1>3. hole = 0 /\ moved = 0 /\ Slots = Live
  <2>1. ~ \E d \in Conns : pc[d] = "erasing"
    BY <1>1, <1>2 DEF Holders
  <2> QED BY <2>1, NoHole
<1>4. actor[c] \in Users /\ MaySignIn(c, actor[c])
  BY <1>1 DEF MidSignIn
<1>5. s \in Session /\ s.fd = c /\ s.user = actor[c] /\ s.name = actor[c]
  BY <1>4, NewSessionFields
<1>6. len \in Nat /\ Len(mem) \in Nat /\ len <= Len(mem)
  BY ElementTypes
<1>7. /\ mem' \in Seq(Session) /\ len + 1 <= Len(mem') /\ Len(mem') \in Nat
      /\ cap' \in Nat /\ Len(mem') <= cap'
      /\ mem'[len + 1] = s /\ \A i \in Live : mem'[i] = mem[i]
      /\ mem' = mem \/ Busy \subseteq freed
  <2>1. CASE pc[c] = "pushing"
    <3>1. mem' = mem /\ cap' = cap
      BY <2>1 DEF SignedIn
    <3>2. len < Len(mem) /\ mem[len + 1] = s
      BY <2>1 DEF MidSignIn
    <3> QED BY <1>6, <3>1, <3>2 DEF VectorTypeOK
  <2>2. CASE pc[c] = "growing"
    <3>1. mem' = Append(SubSeq(mem, 1, len), s) /\ cap' = CapGrown
      BY <2>2 DEF SignedIn
    <3>2. len = cap /\ Busy \subseteq freed
      BY <2>2 DEF MidSignIn
    <3> HIDE DEF s
    <3>3. /\ mem' \in Seq(Session) /\ Len(mem') = len + 1
          /\ cap' \in Nat /\ len + 1 <= cap'
          /\ mem'[len + 1] = s /\ \A i \in Live : mem'[i] = mem[i]
      BY <1>5, <3>1, <3>2, GrownEffect
    <3> QED BY <1>6, <3>2, <3>3
  <2> QED BY <1>1, <2>1, <2>2
<1> HIDE DEF s
<1>8. /\ actor' \in [Conns -> AnyUser] /\ \A d \in Conns \ {c} : actor'[d] = actor[d]
  BY <1>1 DEF VectorTypeOK, AnyUser
<1>9. /\ ReadersRest
      /\ pc'[c] = "idle" /\ \A d \in Conns \ {c} : pc'[d] = pc[d]
      /\ Holders' = {}
  BY <1>1, <1>2, <1>8, HolderMoves
<1>10. Live' = Live \cup {len + 1} /\ Slots' = Live \cup {len + 1} /\ len + 1 \notin Live
  BY <1>1, <1>3, <1>6 DEF Live, Slots
<1>11. \A d \in Conns \ {c} : SlotsOf(d)' = SlotsOf(d)
  BY <1>3, <1>5, <1>7, <1>10 DEF SlotsOf
<1>12. VectorTypeOK'
  <2>1. pc' \in [Conns -> {"idle", "pushing", "growing", "erasing",
                           "scan", "found", "refused", "acting", "named"}]
    BY <1>1 DEF Goto, VectorTypeOK
  <2> QED BY <1>1, <1>3, <1>6, <1>7, <1>8, <2>1 DEF VectorTypeOK
<1>13. Mutex'
  BY <1>1, <1>3, <1>9 DEF Mutex, Holders
<1>14. Unique' /\ NamesMatch'
  <2>1. \A i \in Live : mem[i].fd # c /\ mem[i].user # actor[c]
    BY <1>4 DEF MaySignIn
  <2> QED BY <1>3, <1>5, <1>7, <1>10, <2>1 DEF Unique, NamesMatch
<1>15. HoleCopies' /\ MidSignIn'
  BY <1>1, <1>3, <1>9 DEF HoleCopies, MidSignIn, Holders
<1>16. InBuffer' /\ NothingToFind' /\ StrangersRefused' /\ AheadOrHeld'
  <2>1. c \notin Busy
    BY <1>1 DEF Busy
  <2>2. \A d \in Busy : SlotsOf(d)' = SlotsOf(d)
    BY <1>11, <2>1 DEF Busy
  <2>3. \A d \in Busy : \A i \in SlotsOf(d) : mem'[i].user = mem[i].user
    BY <1>3, <1>7 DEF SlotsOf
  <2>4. \A d \in Busy \ freed' : SlotsOf(d) = {} =>
            \A i \in 1..Len(mem) : mem'[i].fd = d => mem[i].fd = d
    BY <1>1, <1>7
  <2>5. Busy \subseteq freed' \/ (Len(mem) <= Len(mem') /\ Len(mem') \in Nat)
    BY <1>1, <1>6, <1>7
  <2>6. ~ (moved' > 0)
    BY <1>1, <1>3
  <2> QED BY <1>9, <2>2, <2>3, <2>4, <2>5, <2>6, ReadersUnharmed
<1> QED BY <1>12, <1>13, <1>14, <1>15, <1>16
------------------------------------------------------------------------------
\* The steps of a logout or of the clean-up.

LEMMA SignOutPart ==
    ASSUME IInv, NEW c \in Conns, NEW k \in Live, SignOut(c, k)
    PROVE  IInv'
<1> USE DEF IInv
<1>1. /\ k \in SlotsOf(c) /\ pc[c] = "idle" /\ Holders = {} /\ hole' = k
      /\ Goto(c, "erasing")
      /\ UNCHANGED <<open, mem, len, cap, moved, pos, last, actor, name, freed, slid>>
  BY DEF SignOut, vector
<1>2. hole = 0 /\ moved = 0 /\ Slots = Live
  BY <1>1, NoHole DEF Holders
<1>3. k \in Nat /\ k > 0 /\ k <= len /\ mem[k].fd = c /\ len \in Nat
  BY <1>1, ElementTypes DEF SlotsOf, Live
<1>4. /\ ReadersRest
      /\ pc'[c] = "erasing" /\ \A d \in Conns \ {c} : pc'[d] = pc[d]
      /\ Holders' = {c}
  BY <1>1, HolderMoves
<1>5. Slots' = Slots \ {k}
  BY <1>1, <1>2 DEF Slots, Live
<1>6. \A d \in Conns \ {c} : SlotsOf(d)' = SlotsOf(d)
  BY <1>1, <1>3, <1>5 DEF SlotsOf
<1>7. VectorTypeOK'
  <2>1. pc' \in [Conns -> {"idle", "pushing", "growing", "erasing",
                           "scan", "found", "refused", "acting", "named"}]
    BY <1>1 DEF Goto, VectorTypeOK
  <2> QED BY <1>1, <1>3, <2>1 DEF VectorTypeOK
<1>8. Mutex'
  BY <1>1, <1>3, <1>4 DEF Mutex
<1>9. Unique' /\ NamesMatch'
  BY <1>1, <1>5 DEF Unique, NamesMatch
<1>10. HoleCopies'
  BY <1>1, <1>2, <1>3, <1>4 DEF HoleCopies
<1>11. MidSignIn'
  BY <1>1, <1>4 DEF MidSignIn, Holders
<1>12. InBuffer' /\ NothingToFind' /\ StrangersRefused' /\ AheadOrHeld'
  <2>1. \A d \in Busy : SlotsOf(d)' = SlotsOf(d)
    BY <1>1, <1>6 DEF Busy
  <2>2. ~ (moved' > 0) /\ mem' = mem /\ Len(mem) <= Len(mem') /\ Len(mem') \in Nat
    BY <1>1, <1>2, ElementTypes
  <2> QED BY <1>4, <2>1, <2>2, ReadersUnharmed
<1> QED BY <1>7, <1>8, <1>9, <1>10, <1>11, <1>12

\* The step takes mem[hole + 1].fd to the hole, which is in no session.
LEMMA MoveFdPart ==
    ASSUME IInv, NEW c \in Conns, MoveFd(c)
    PROVE  IInv'
<1> USE DEF IInv
<1>1. /\ pc[c] = "erasing" /\ hole < len /\ moved = 0 /\ moved' = 1
      /\ slid' = slid \cup {d \in Busy : d = mem[hole + 1].fd /\ pos[d] = hole + 1}
      /\ UNCHANGED <<open, len, cap, hole, pc, pos, last, actor, name, freed>>
  BY DEF MoveFd, locals
<1>2. /\ hole > 0 /\ hole \in Nat
      /\ \A d \in Conns : pc[d] \notin {"pushing", "growing"}
  BY <1>1, AloneInErase
<1>3. /\ len \in Nat /\ Len(mem) \in Nat /\ len <= Len(mem)
      /\ hole \in 1..Len(mem) /\ hole + 1 \in 1..Len(mem)
  BY <1>1, <1>2, ElementTypes
<1>4. /\ mem' \in Seq(Session) /\ Len(mem') = Len(mem)
      /\ mem'[hole].fd = mem[hole + 1].fd
      /\ \A i \in 1..Len(mem) : i # hole => mem'[i] = mem[i]
  BY <1>1, <1>2, MoveFdEffect
<1>5. Slots' = Slots /\ Slots \subseteq 1..Len(mem) /\ hole \notin Slots
      /\ \A i \in Slots : mem'[i] = mem[i]
  BY <1>1, <1>3, <1>4 DEF Slots, Live
<1>6. \A d \in Conns : SlotsOf(d)' = SlotsOf(d)
  BY <1>5 DEF SlotsOf
<1>7. ReadersRest
  BY <1>1 DEF ReadersRest, Busy
<1>8. VectorTypeOK'
  BY <1>1, <1>4 DEF VectorTypeOK, Busy
<1>9. Mutex'
  BY <1>1 DEF Mutex, Holders
<1>10. Unique' /\ NamesMatch'
  <2>1. Slots' = Slots /\ \A i \in Slots : mem'[i] = mem[i]
    BY <1>5
  <2>2. Unique'
    BY <2>1 DEF Unique
  <2>3. NamesMatch'
    BY <2>1 DEF NamesMatch
  <2> QED BY <2>2, <2>3
<1>11. HoleCopies'
  <2>1. mem'[hole + 1] = mem[hole + 1]
    BY <1>2, <1>3, <1>4
  <2> QED BY <1>1, <1>2, <1>4, <2>1 DEF HoleCopies
<1>12. MidSignIn'
  BY <1>1, <1>2 DEF MidSignIn
<1>13. InBuffer' /\ NothingToFind' /\ StrangersRefused' /\ AheadOrHeld'
  <2>1. \A d \in Busy : SlotsOf(d)' = SlotsOf(d)
    BY <1>6 DEF Busy
  <2>2. \A d \in Busy : \A i \in SlotsOf(d) : mem'[i].user = mem[i].user
    BY <1>5 DEF SlotsOf
  <2>3. hole + 1 \in Slots
    BY <1>1, <1>2, <1>3 DEF Slots, Live
  <2>4. \A d \in Busy : SlotsOf(d) = {} =>
            \A i \in 1..Len(mem) : mem'[i].fd = d => mem[i].fd = d
    <3>1. \A d \in Busy : SlotsOf(d) = {} => mem[hole + 1].fd # d
      BY <2>3 DEF SlotsOf
    <3> QED BY <1>4, <3>1
  <2>5. \A d \in Busy \ slid' : hole + 1 \notin SlotsOf(d) \/ pos[d] # hole + 1
    BY <1>1 DEF SlotsOf
  <2> QED BY <1>1, <1>3, <1>4, <1>7, <2>1, <2>2, <2>4, <2>5, ReadersUnharmed
<1> QED BY <1>8, <1>9, <1>10, <1>11, <1>12, <1>13

LEMMA MoveUserPart ==
    ASSUME IInv, NEW c \in Conns, MoveUser(c)
    PROVE  IInv'
<1> USE DEF IInv
<1>1. /\ pc[c] = "erasing" /\ moved = 1 /\ moved' = 2
      /\ UNCHANGED <<open, len, cap, hole, pc, pos, last, actor, name, freed, slid>>
  BY DEF MoveUser, locals
<1>2. /\ hole > 0 /\ hole \in Nat
      /\ \A d \in Conns : pc[d] \notin {"pushing", "growing"}
  BY <1>1, AloneInErase
<1>3. hole < len /\ mem[hole].fd = mem[hole + 1].fd
  BY <1>1 DEF HoleCopies
<1>4. /\ len \in Nat /\ Len(mem) \in Nat /\ len <= Len(mem)
      /\ hole \in 1..Len(mem) /\ hole + 1 \in 1..Len(mem)
  BY <1>2, <1>3, ElementTypes
<1>5. /\ mem' \in Seq(Session) /\ Len(mem') = Len(mem)
      /\ mem'[hole].fd = mem[hole].fd
      /\ mem'[hole].user = mem[hole + 1].user
      /\ \A i \in 1..Len(mem) : i # hole => mem'[i] = mem[i]
  BY <1>2, <1>3, MoveUserEffect
<1>6. Slots' = Slots /\ Slots \subseteq 1..Len(mem) /\ hole \notin Slots
      /\ \A i \in Slots : mem'[i] = mem[i]
  BY <1>1, <1>4, <1>5 DEF Slots, Live
<1>7. \A d \in Conns : SlotsOf(d)' = SlotsOf(d)
  BY <1>6 DEF SlotsOf
<1>8. ReadersRest
  BY <1>1 DEF ReadersRest, Busy
<1>9. VectorTypeOK'
  BY <1>1, <1>5 DEF VectorTypeOK
<1>10. Mutex'
  BY <1>1 DEF Mutex, Holders
<1>11. Unique' /\ NamesMatch'
  <2>1. Slots' = Slots /\ \A i \in Slots : mem'[i] = mem[i]
    BY <1>6
  <2>2. Unique'
    BY <2>1 DEF Unique
  <2>3. NamesMatch'
    BY <2>1 DEF NamesMatch
  <2> QED BY <2>2, <2>3
<1>12. HoleCopies'
  <2>1. mem'[hole + 1] = mem[hole + 1]
    BY <1>2, <1>4, <1>5
  <2> QED BY <1>1, <1>2, <1>3, <1>5, <2>1 DEF HoleCopies
<1>13. MidSignIn'
  BY <1>1, <1>2 DEF MidSignIn
<1>14. InBuffer' /\ NothingToFind' /\ StrangersRefused' /\ AheadOrHeld'
  <2>1. \A d \in Busy : SlotsOf(d)' = SlotsOf(d)
    BY <1>7 DEF Busy
  <2>2. \A d \in Busy : \A i \in SlotsOf(d) : mem'[i].user = mem[i].user
    BY <1>6 DEF SlotsOf
  <2>3. \A d \in Busy : \A i \in 1..Len(mem) : mem'[i].fd = d => mem[i].fd = d
    BY <1>5
  <2> QED BY <1>1, <1>4, <1>5, <1>8, <2>1, <2>2, <2>3, ReadersUnharmed
<1> QED BY <1>9, <1>10, <1>11, <1>12, <1>13, <1>14

\* The hole is now a copy of the next element, which becomes the hole: the session
\* of that element is one slot further down.
LEMMA MoveNamePart ==
    ASSUME IInv, NEW c \in Conns, MoveName(c)
    PROVE  IInv'
<1> USE DEF IInv
<1>1. /\ pc[c] = "erasing" /\ moved = 2 /\ moved' = 0 /\ hole' = hole + 1
      /\ UNCHANGED <<open, len, cap, pc, pos, last, actor, name, freed, slid>>
  BY DEF MoveName, locals
<1>2. /\ hole > 0 /\ hole \in Nat
      /\ \A d \in Conns : pc[d] \notin {"pushing", "growing"}
  BY <1>1, AloneInErase
<1>3. /\ hole < len /\ mem[hole].fd = mem[hole + 1].fd
      /\ mem[hole].user = mem[hole + 1].user
  BY <1>1 DEF HoleCopies
<1>4. /\ len \in Nat /\ Len(mem) \in Nat /\ len <= Len(mem)
      /\ hole \in Live /\ hole + 1 \in Slots /\ hole \notin Slots
      /\ Slots \subseteq Live /\ Live \subseteq 1..Len(mem)
      /\ Slots' = (Slots \ {hole + 1}) \cup {hole}
  BY <1>1, <1>2, <1>3, ElementTypes DEF Live, Slots
<1>5. /\ mem' \in Seq(Session) /\ Len(mem') = Len(mem)
      /\ \A i \in 1..Len(mem) : mem'[i].fd = mem[i].fd /\ mem'[i].user = mem[i].user
      /\ mem'[hole].name = mem[hole + 1].name
      /\ \A i \in 1..Len(mem) \ {hole, hole + 1} : mem'[i] = mem[i]
  BY <1>2, <1>3, MoveNameEffect
<1> DEFINE old(i) == IF i = hole THEN hole + 1 ELSE i
<1>6. \A i \in Slots' : /\ old(i) \in Slots /\ mem'[i].fd = mem[old(i)].fd
                        /\ mem'[i].user = mem[old(i)].user
                        /\ mem'[i].name = mem[old(i)].name
  BY <1>3, <1>4, <1>5
<1>7. \A i, j \in Slots' : old(i) = old(j) => i = j
  BY <1>4
<1>8. \A d \in Conns : SlotsOf(d)' = {i \in Slots' : old(i) \in SlotsOf(d)}
  <2>1. \A d \in Conns : SlotsOf(d)' = {i \in Slots' : mem'[i].fd = d}
    BY DEF SlotsOf
  <2> HIDE DEF old
  <2> QED BY <1>6, <2>1 DEF SlotsOf
<1>9. \A d \in Conns : SlotsOf(d)' = {} <=> SlotsOf(d) = {}
  <2>1. \A j \in Slots : \E i \in Slots' : old(i) = j
    BY <1>4
  <2> HIDE DEF old
  <2> QED BY <1>8, <2>1 DEF SlotsOf
<1>10. VectorTypeOK'
  <2>1. hole' \in 0..len'
    BY <1>1, <1>2, <1>3, <1>4
  <2> QED BY <1>1, <1>5, <2>1 DEF VectorTypeOK
<1>11. Mutex'
  BY <1>1, <1>2 DEF Mutex, Holders
<1>12. Unique' /\ NamesMatch'
  <2> HIDE DEF old
  <2> QED BY <1>6, <1>7 DEF Unique, NamesMatch
<1>13. HoleCopies'
  <2>1. mem'[hole + 1].fd = mem[hole + 1].fd /\ mem'[hole].fd = mem[hole].fd
    BY <1>4, <1>5
  <2>2. hole' > 1 /\ hole' - 1 = hole
    BY <1>1, <1>2
  <2>3. mem'[hole'].fd = mem'[hole' - 1].fd
    BY <1>1, <1>3, <2>1, <2>2
  <2> QED BY <1>1, <2>2, <2>3 DEF HoleCopies
<1>14. MidSignIn'
  BY <1>1, <1>2 DEF MidSignIn
<1>15. Busy' = Busy
  BY <1>1 DEF Busy
<1>16. InBuffer' /\ StrangersRefused'
  BY <1>1, <1>5, <1>9, <1>15 DEF InBuffer, StrangersRefused
<1>17. NothingToFind'
  <2> SUFFICES ASSUME NEW d \in Busy \ freed, SlotsOf(d) = {}, NEW i \in 1..last[d]
               PROVE  mem'[i].fd # d
    BY <1>1, <1>9, <1>15 DEF NothingToFind, Busy
  <2>1. mem[i].fd # d /\ last[d] <= Len(mem)
    BY DEF NothingToFind, InBuffer
  <2>2. i \in 1..Len(mem)
    BY <1>4, <2>1 DEF VectorTypeOK, Busy
  <2> QED BY <1>5, <2>1, <2>2
<1>18. AheadOrHeld'
  <2> SUFFICES ASSUME NEW d \in Busy \ (freed \cup slid)
               PROVE  /\ pc[d] = "scan" =>
                            \A i \in SlotsOf(d)' : pos[d] <= i /\ i <= last[d]
                      /\ pc[d] = "refused" => SlotsOf(d)' = {}
                      /\ pc[d] \in Holding => pos[d] \in SlotsOf(d)'
                      /\ pc[d] \in {"acting", "named"} => actor[d] = mem'[pos[d]].user
                      /\ pc[d] = "named" => name[d] = actor[d]
    BY <1>1, <1>15 DEF AheadOrHeld
  <2>1. d \in Conns /\ pos[d] \in Nat /\ last[d] \in Nat
    BY DEF Busy, VectorTypeOK
  <2>2. ASSUME pc[d] = "scan", NEW i \in SlotsOf(d)'
        PROVE  pos[d] <= i /\ i <= last[d]
    <3>1. i \in Slots' /\ old(i) \in SlotsOf(d)
      BY <1>8, <2>1, <2>2
    <3>2. /\ pos[d] <= old(i) /\ old(i) <= last[d]
          /\ old(i) = hole + 1 => pos[d] # old(i)
      <4> HIDE DEF old
      <4> QED BY <1>1, <2>2, <3>1 DEF AheadOrHeld
    <3>3. i \in Nat
      BY <1>4, <3>1 DEF Live
    <3> QED BY <1>2, <2>1, <3>2, <3>3
  <2>3. ASSUME pc[d] \in Holding
        PROVE  pos[d] \in SlotsOf(d)' /\ mem'[pos[d]].user = mem[pos[d]].user
    <3>1. pos[d] \in SlotsOf(d) /\ pos[d] # hole + 1
      BY <1>1, <2>3 DEF AheadOrHeld
    <3>2. pos[d] \in Slots /\ pos[d] # hole
      BY <1>4, <3>1 DEF SlotsOf
    <3>3. pos[d] \in Slots' /\ old(pos[d]) = pos[d] /\ pos[d] \in 1..Len(mem)
      BY <1>4, <3>1, <3>2
    <3> QED BY <1>5, <1>8, <2>1, <3>1, <3>3
  <2>4. pc[d] = "refused" => SlotsOf(d)' = {}
    BY <1>9, <2>1 DEF AheadOrHeld
  <2> QED BY <2>2, <2>3, <2>4 DEF AheadOrHeld, Holding
<1> QED BY <1>10, <1>11, <1>12, <1>13, <1>14, <1>16, <1>17, <1>18

LEMMA SignedOutPart ==
    ASSUME IInv, NEW c \in Conns, SignedOut(c)
    PROVE  IInv'
<1> USE DEF IInv
<1>1. /\ pc[c] = "erasing" /\ hole = len /\ len' = len - 1 /\ hole' = 0
      /\ Goto(c, "idle")
      /\ UNCHANGED <<open, mem, cap, moved, pos, last, actor, name, freed, slid>>
  BY DEF SignedOut
<1>2. /\ hole > 0 /\ hole \in Nat /\ Holders = {c}
  BY <1>1, AloneInErase
<1>3. moved = 0
  BY <1>1, <1>2 DEF HoleCopies, VectorTypeOK
<1>4. /\ ReadersRest
      /\ pc'[c] = "idle" /\ \A d \in Conns \ {c} : pc'[d] = pc[d]
      /\ Holders' = {}
  BY <1>1, <1>2, HolderMoves
<1>5. Slots' = Slots
  BY <1>1, <1>2 DEF Slots, Live
<1>6. \A d \in Conns : SlotsOf(d)' = SlotsOf(d)
  BY <1>1, <1>5 DEF SlotsOf
<1>7. VectorTypeOK'
  <2>1. pc' \in [Conns -> {"idle", "pushing", "growing", "erasing",
                           "scan", "found", "refused", "acting", "named"}]
    BY <1>1 DEF Goto, VectorTypeOK
  <2>2. len' \in 0..Len(mem) /\ hole' \in 0..len'
    BY <1>1, <1>2, ElementTypes
  <2> QED BY <1>1, <2>1, <2>2 DEF VectorTypeOK
<1>8. Mutex'
  BY <1>1, <1>4 DEF Mutex, Holders
<1>9. Unique' /\ NamesMatch'
  BY <1>1, <1>5 DEF Unique, NamesMatch
<1>10. HoleCopies' /\ MidSignIn'
  BY <1>1, <1>3, <1>4 DEF HoleCopies, MidSignIn, Holders
<1>11. InBuffer' /\ NothingToFind' /\ StrangersRefused' /\ AheadOrHeld'
  <2>1. \A d \in Busy : SlotsOf(d)' = SlotsOf(d)
    BY <1>6 DEF Busy
  <2>2. ~ (moved' > 0) /\ mem' = mem /\ Len(mem) <= Len(mem') /\ Len(mem') \in Nat
    BY <1>1, <1>3, ElementTypes
  <2> QED BY <1>4, <2>1, <2>2, ReadersUnharmed
<1> QED BY <1>7, <1>8, <1>9, <1>10, <1>11
------------------------------------------------------------------------------
\* The steps of a handler only read the vector.

LEMMA HandlerPart ==
    ASSUME IInv, NEW c \in Conns, Handler(c)
    PROVE  IInv'
<1> USE DEF IInv
<1>1. /\ UNCHANGED <<open, mem, len, cap, hole, moved>>
      /\ freed' \cup {c} = freed \cup {c} /\ slid' \cup {c} = slid \cup {c}
      /\ pc[c] \in {"idle", "scan", "found", "refused", "acting", "named"}
      /\ pc'[c] \in {"idle", "scan", "found", "refused", "acting", "named"}
      /\ \A d \in Conns \ {c} : /\ pc'[d] = pc[d] /\ pos'[d] = pos[d]
                              /\ last'[d] = last[d] /\ actor'[d] = actor[d]
                              /\ name'[d] = name[d]
  BY DEF Handler, Begin, Found, Advance, NotFound, ReadUser, ReadName, Return,
         Goto, vector, erase, VectorTypeOK
<1>2. /\ Live' = Live /\ Slots' = Slots /\ Holders' = Holders
      /\ Busy' \ {c} = Busy \ {c}
      /\ \A d \in Conns : SlotsOf(d)' = SlotsOf(d)
  BY <1>1 DEF Live, Slots, SlotsOf, Busy, Holders
<1>3. /\ pos[c] \in Nat /\ last[c] \in Nat /\ len \in Nat /\ Len(mem) \in Nat
      /\ len <= Len(mem) /\ hole \in Nat
      /\ \A i \in 1..Len(mem) : mem[i].user \in Users /\ mem[i].name \in AnyUser
  BY ElementTypes DEF VectorTypeOK
<1>4. SlotsOf(c) \subseteq 1..len /\ Slots \subseteq 1..len
  BY DEF SlotsOf, Slots, Live
<1> DEFINE Fine ==
        /\ VectorTypeOK'
        /\ pc'[c] # "idle" /\ (\E d \in Conns : pc[d] = "growing") => c \in freed'
        /\ c \notin freed' /\ pc'[c] # "idle" =>
              /\ pos'[c] >= 1 /\ last'[c] <= Len(mem)
              /\ pc'[c] \in Holding => pos'[c] <= last'[c] /\ SlotsOf(c) # {}
              /\ SlotsOf(c) = {} => \A i \in 1..last'[c] : mem[i].fd # c
        /\ c \notin freed' \cup slid' =>
              /\ pc'[c] = "scan" =>
                    \A i \in SlotsOf(c) :
                       /\ pos'[c] <= i /\ i <= last'[c]
                       /\ moved > 0 /\ i = hole + 1 => pos'[c] # i
              /\ pc'[c] = "refused" => SlotsOf(c) = {}
              /\ pc'[c] \in Holding =>
                    pos'[c] \in SlotsOf(c) /\ (moved > 0 => pos'[c] # hole + 1)
              /\ pc'[c] \in {"acting", "named"} => actor'[c] = mem[pos'[c]].user
              /\ pc'[c] = "named" => name'[c] = actor'[c]
<1>5. ASSUME Fine PROVE IInv'
  <2>1. Mutex'
    BY <1>1, <1>2 DEF Mutex
  <2>2. Unique' /\ NamesMatch' /\ HoleCopies'
    <3>1. Unique' /\ NamesMatch'
      BY <1>1, <1>2 DEF Unique, NamesMatch
    <3>2. HoleCopies'
      BY <1>1 DEF HoleCopies
    <3> QED BY <3>1, <3>2
  <2>3. MidSignIn'
    <3> SUFFICES ASSUME NEW d \in Conns, pc'[d] \in {"pushing", "growing"}
                 PROVE  /\ actor'[d] \in Users /\ MaySignIn(d, actor[d])'
                        /\ pc'[d] = "pushing" =>
                              len < Len(mem) /\ mem[len + 1] = NewSession(d, actor[d])'
                        /\ pc'[d] = "growing" => len = cap /\ Busy' \subseteq freed'
      BY <1>1 DEF MidSignIn
    <3>1. d # c /\ pc[d] = pc'[d] /\ actor'[d] = actor[d]
      BY <1>1
    <3>2. MaySignIn(d, actor[d])' <=> MaySignIn(d, actor[d])
      BY <1>1, <1>2, <3>1 DEF MaySignIn
    <3>3. NewSession(d, actor[d])' = NewSession(d, actor[d])
      BY <3>1 DEF NewSession
    <3>4. ASSUME pc[d] = "growing" PROVE Busy' \subseteq freed'
      <4>1. Busy \subseteq freed
        BY <3>4 DEF MidSignIn
      <4>2. c \in Busy' => c \in freed'
        BY <1>5, <3>4 DEF Busy
      <4> QED BY <1>1, <1>2, <4>1, <4>2
    <3> QED BY <3>1, <3>2, <3>3, <3>4 DEF MidSignIn
  <2>4. c \in Busy' => pc'[c] # "idle"
    BY DEF Busy
  <2>5. InBuffer'
    BY <1>1, <1>2, <1>5, <2>4 DEF InBuffer, Busy
  <2>6. NothingToFind'
    BY <1>1, <1>2, <1>5, <2>4 DEF NothingToFind, Busy
  <2>7. StrangersRefused'
    BY <1>1, <1>2, <1>5 DEF StrangersRefused, Holding
  <2>8. AheadOrHeld'
    BY <1>1, <1>2, <1>5 DEF AheadOrHeld, Busy
  <2> QED BY <1>5, <2>1, <2>2, <2>3, <2>5, <2>6, <2>7, <2>8
\* What the invariant says of c, if c is at work.
<1>6. ASSUME pc[c] # "idle"
      PROVE  /\ (\E d \in Conns : pc[d] = "growing") => c \in freed
             /\ c \notin freed =>
                  /\ pos[c] >= 1 /\ last[c] <= Len(mem)
                  /\ pc[c] \in Holding => pos[c] <= last[c] /\ SlotsOf(c) # {}
                  /\ SlotsOf(c) = {} => \A i \in 1..last[c] : mem[i].fd # c
             /\ c \notin freed \cup slid =>
                  /\ pc[c] = "scan" =>
                        \A i \in SlotsOf(c) :
                           /\ pos[c] <= i /\ i <= last[c]
                           /\ moved > 0 /\ i = hole + 1 => pos[c] # i
                  /\ pc[c] \in Holding =>
                        pos[c] \in SlotsOf(c) /\ (moved > 0 => pos[c] # hole + 1)
                  /\ pc[c] \in {"acting", "named"} => actor[c] = mem[pos[c]].user
  <2>1. c \in Busy
    BY <1>1, <1>6 DEF Busy
  <2>2. (\E d \in Conns : pc[d] = "growing") => c \in freed
    BY <2>1 DEF MidSignIn
  <2>3. c \notin freed =>
           /\ pos[c] >= 1 /\ last[c] <= Len(mem)
           /\ pc[c] \in Holding => pos[c] <= last[c] /\ SlotsOf(c) # {}
           /\ SlotsOf(c) = {} => \A i \in 1..last[c] : mem[i].fd # c
    BY <2>1 DEF InBuffer, NothingToFind, StrangersRefused, Holding
  <2> QED BY <2>1, <2>2, <2>3 DEF AheadOrHeld
<1>7. CASE Begin(c)
  <2>1. /\ pc[c] = "idle" /\ pc'[c] = "scan" /\ pos'[c] = 1 /\ last'[c] = len
        /\ c \notin freed' => ~ \E d \in Conns : pc[d] = "growing"
    BY <1>7 DEF Begin, Goto, End, VectorTypeOK
  <2>2. VectorTypeOK'
    BY <1>3, <1>7 DEF Begin, Goto, End, VectorTypeOK, vector, erase
  <2>3. \A i \in SlotsOf(c) : 1 <= i /\ i <= len
    BY <1>3, <1>4
  <2>4. \A i \in SlotsOf(c) : moved > 0 /\ i = hole + 1 => 1 # i
    BY <1>3 DEF HoleCopies
  <2>5. SlotsOf(c) = {} => \A i \in 1..len : mem[i].fd # c
    <3> SUFFICES ASSUME SlotsOf(c) = {}, NEW i \in 1..len, mem[i].fd = c PROVE FALSE
      OBVIOUS
    <3>1. i = hole /\ hole > 0
      BY <1>3 DEF SlotsOf, Slots, Live
    <3>2. CASE moved > 0
      <4>1. mem[hole + 1].fd = c /\ hole + 1 \in Slots
        BY <1>3, <3>1, <3>2 DEF HoleCopies, Slots, Live
      <4> QED BY <4>1 DEF SlotsOf
    <3>3. CASE moved = 0
      <4>1. hole > 1 /\ mem[hole - 1].fd = c
        BY <2>1, <3>1, <3>3 DEF HoleCopies
      <4>2. hole - 1 \in Slots
        BY <1>3, <3>1, <4>1 DEF Slots, Live
      <4> QED BY <4>1, <4>2 DEF SlotsOf
    <3> QED BY <3>2, <3>3 DEF VectorTypeOK
  <2>6. Fine
    BY <1>3, <2>1, <2>2, <2>3, <2>4, <2>5 DEF Holding
  <2> QED BY <1>5, <2>6
<1>8. CASE Found(c)
  <2>1. /\ pc[c] = "scan" /\ pc'[c] = "found" /\ pos[c] <= last[c]
        /\ c \in freed \/ mem[pos[c]].fd = c
        /\ UNCHANGED <<pos, last, actor, name, freed>>
        /\ slid \subseteq slid'
        /\ c \notin slid' => ~ (pos[c] = hole /\ moved > 0)
    BY <1>3, <1>8 DEF Found, Matches, AtEnd, Goto, VectorTypeOK
  <2>2. VectorTypeOK'
    BY <1>8, <2>1 DEF Found, Goto, VectorTypeOK, vector, erase
  <2>3. c \notin freed => SlotsOf(c) # {}
    BY <1>3, <1>6, <2>1
  <2>4. ASSUME c \notin freed \cup slid'
        PROVE  pos[c] \in SlotsOf(c) /\ (moved > 0 => pos[c] # hole + 1)
    <3>1. PICK i \in SlotsOf(c) : TRUE
      BY <2>3, <2>4
    <3>2. /\ 1 <= pos[c] /\ pos[c] <= i /\ i <= len
          /\ moved > 0 /\ i = hole + 1 => pos[c] # i
          /\ i \in Slots /\ mem[i].fd = c /\ mem[pos[c]].fd = c
      BY <1>3, <1>4, <1>6, <2>1, <2>4 DEF SlotsOf
    <3>3. pos[c] \in Live
      BY <1>3, <1>4, <3>2 DEF Live
    <3>4. pos[c] # hole
      <4>1. CASE moved > 0
        BY <2>1, <2>4, <4>1
      <4>2. CASE moved = 0
        <5> SUFFICES ASSUME pos[c] = hole PROVE FALSE
          OBVIOUS
        <5>1. hole > 0 /\ mem[hole].fd = c /\ pc[c] # "erasing"
          BY <1>3, <2>1, <3>2
        <5>2. hole > 1 /\ mem[hole - 1].fd = c
          BY <4>2, <5>1 DEF HoleCopies
        <5>3. hole - 1 \in Slots
          BY <1>3, <3>3, <5>2 DEF Slots, Live
        <5>4. hole - 1 \in SlotsOf(c)
          BY <5>2, <5>3 DEF SlotsOf
        <5>5. pos[c] <= hole - 1
          BY <1>6, <2>1, <2>4, <5>4
        <5> QED BY <1>3, <5>5
      <4> QED BY <4>1, <4>2 DEF VectorTypeOK
    <3>5. pos[c] \in Slots /\ pos[c] = i
      BY <3>2, <3>3, <3>4 DEF Slots, Unique
    <3> QED BY <3>1, <3>2, <3>5
  <2>5. Fine
    BY <1>6, <2>1, <2>2, <2>3, <2>4 DEF Holding
  <2> QED BY <1>5, <2>5
<1>9. CASE Advance(c)
  <2>1. /\ pc[c] = "scan" /\ pc'[c] = "scan"
        /\ pos'[c] = pos[c] + 1 /\ last'[c] = last[c] /\ UNCHANGED <<freed, slid>>
        /\ c \in freed \/ mem[pos[c]].fd # c
    BY <1>9 DEF Advance, Matches, VectorTypeOK
  <2>2. VectorTypeOK'
    BY <1>9 DEF Advance, VectorTypeOK, vector, erase
  <2>3. ASSUME c \notin freed \cup slid, NEW i \in SlotsOf(c)
        PROVE  /\ pos[c] + 1 <= i /\ i <= last[c]
               /\ moved > 0 /\ i = hole + 1 => pos[c] + 1 # i
    <3>1. /\ pos[c] <= i /\ i <= last[c] /\ i \in Nat
          /\ moved > 0 /\ i = hole + 1 => pos[c] # i
      BY <1>3, <1>4, <1>6, <2>1, <2>3
    <3>2. pos[c] # i
      BY <2>1, <2>3 DEF SlotsOf
    <3>3. moved > 0 /\ i = hole + 1 => pos[c] # hole
      <4>1. mem[i].fd = c
        BY DEF SlotsOf
      <4> QED BY <2>1, <2>3, <4>1 DEF HoleCopies
    <3> QED BY <1>3, <3>1, <3>2, <3>3
  <2>4. Fine
    BY <1>3, <1>6, <2>1, <2>2, <2>3 DEF Holding
  <2> QED BY <1>5, <2>4
<1>10. CASE NotFound(c)
  <2>1. /\ pc[c] = "scan" /\ pc'[c] = "refused" /\ pos[c] > last[c]
        /\ UNCHANGED <<pos, last, actor, name, freed, slid>>
    BY <1>10 DEF NotFound, AtEnd, Goto, VectorTypeOK
  <2>2. VectorTypeOK'
    BY <1>10 DEF NotFound, Goto, VectorTypeOK, vector, erase
  <2>3. c \notin freed \cup slid => SlotsOf(c) = {}
    BY <1>3, <1>4, <1>6, <2>1
  <2>4. Fine
    BY <1>6, <2>1, <2>2, <2>3 DEF Holding
  <2> QED BY <1>5, <2>4
<1>11. CASE ReadUser(c)
  <2>1. /\ pc[c] = "found" /\ pc'[c] = "acting"
        /\ UNCHANGED <<pos, last, name, freed, slid>>
    BY <1>11 DEF ReadUser, Goto, VectorTypeOK
  <2>2. c \notin freed => pos[c] \in 1..Len(mem)
    BY <1>3, <1>6, <2>1 DEF Holding
  <2>3. /\ actor' \in [Conns -> AnyUser]
        /\ c \notin freed => actor'[c] = mem[pos[c]].user
    BY <1>3, <1>11, <2>2 DEF ReadUser, VectorTypeOK, AnyUser
  <2>4. VectorTypeOK'
    BY <1>11, <2>3 DEF ReadUser, Goto, VectorTypeOK, vector, erase
  <2>5. Fine
    BY <1>6, <2>1, <2>3, <2>4 DEF Holding
  <2> QED BY <1>5, <2>5
<1>12. CASE ReadName(c)
  <2>1. /\ pc[c] = "acting" /\ pc'[c] = "named"
        /\ UNCHANGED <<pos, last, actor, freed, slid>>
    BY <1>12 DEF ReadName, Goto, VectorTypeOK
  <2>2. c \notin freed => pos[c] \in 1..Len(mem)
    BY <1>3, <1>6, <2>1 DEF Holding
  <2>3. /\ name' \in [Conns -> AnyUser]
        /\ c \notin freed /\ ~ Torn(pos[c]) => name'[c] = mem[pos[c]].name
    BY <1>3, <1>12, <2>2 DEF ReadName, VectorTypeOK, AnyUser
  <2>4. VectorTypeOK'
    BY <1>12, <2>3 DEF ReadName, Goto, VectorTypeOK, vector, erase
  <2>5. ASSUME c \notin freed \cup slid PROVE name'[c] = actor[c]
    <3>1. /\ pos[c] \in SlotsOf(c) /\ (moved > 0 => pos[c] # hole + 1)
          /\ actor[c] = mem[pos[c]].user
      BY <1>6, <2>1, <2>5 DEF Holding
    <3>2. pos[c] \in Slots /\ pos[c] # hole /\ pos[c] <= len
      BY <1>3, <1>4, <3>1 DEF SlotsOf, Slots
    <3>3. ~ Torn(pos[c])
      BY <1>3, <3>1, <3>2 DEF Torn
    <3> QED BY <2>3, <2>5, <3>1, <3>2, <3>3 DEF NamesMatch
  <2>6. Fine
    BY <1>6, <2>1, <2>4, <2>5 DEF Holding
  <2> QED BY <1>5, <2>6
<1>13. CASE Return(c)
  <2>1. pc'[c] = "idle"
    BY <1>13 DEF Return, Goto, VectorTypeOK
  <2>2. VectorTypeOK'
    BY <1>13 DEF Return, Goto, VectorTypeOK, vector, erase, AnyUser
  <2>3. Fine
    BY <2>1, <2>2 DEF Holding
  <2> QED BY <1>5, <2>3
<1> QED BY <1>7, <1>8, <1>9, <1>10, <1>11, <1>12, <1>13 DEF Handler

\* Of the open connections the invariant says only that one at its login is.
LEMMA UnchangedPart ==
    ASSUME IInv, open' \subseteq Conns, Holders \cap open \subseteq open',
           UNCHANGED <<vector, erase, locals, freed, slid>>
    PROVE  IInv'
<1> USE DEF IInv
<1>1. UNCHANGED <<mem, len, cap, hole, moved, pc, pos, last, actor, name, freed, slid>>
  BY DEF vector, erase, locals
<1>2. UNCHANGED <<Live, Slots, Busy, Holders>>
  BY <1>1 DEF Live, Slots, Busy, Holders
<1>3. \A d \in Conns : SlotsOf(d)' = SlotsOf(d)
  BY <1>1, <1>2 DEF SlotsOf
<1>4. VectorTypeOK'
  BY <1>1 DEF VectorTypeOK
<1>5. Mutex' /\ Unique' /\ NamesMatch' /\ HoleCopies'
  BY <1>1, <1>2 DEF Mutex, Unique, NamesMatch, HoleCopies
<1>6. MidSignIn'
  BY <1>1, <1>2 DEF MidSignIn, MaySignIn, NewSession, Holders
<1>7. InBuffer' /\ StrangersRefused'
  BY <1>1, <1>2, <1>3 DEF InBuffer, StrangersRefused
<1>8. NothingToFind' /\ AheadOrHeld'
  BY <1>1, <1>2, <1>3 DEF NothingToFind, AheadOrHeld, Busy
<1> QED BY <1>4, <1>5, <1>6, <1>7, <1>8

LEMMA InductiveStep == IInv /\ [Next]_vars => IInv'
<1> SUFFICES ASSUME IInv, [Next]_vars PROVE IInv'
  OBVIOUS
<1>1. ASSUME NEW c \in Conns, Connection(c) PROVE IInv'
  <2>1. ASSUME Open(c) \/ Close(c) PROVE IInv'
    <3>1. /\ open' \subseteq Conns /\ Holders \cap open \subseteq open'
          /\ UNCHANGED <<vector, erase, locals, freed, slid>>
      BY <2>1 DEF Open, Close, IInv, VectorTypeOK, Holders
    <3> QED BY <3>1, UnchangedPart
  <2> QED
    BY <1>1, <2>1, SignInPart, SignedInPart, SignOutPart, MoveFdPart, MoveUserPart,
       MoveNamePart, SignedOutPart DEF Connection
<1>2. CASE Restart
  <2>1. Live' = {} /\ Slots' = {} /\ Busy' = {} /\ Holders' = {}
    BY <1>2 DEF Restart, Live, Slots, Busy, Holders
  <2>2. VectorTypeOK'
    BY <1>2 DEF Restart, VectorTypeOK, AnyUser
  <2>3. Mutex' /\ HoleCopies' /\ MidSignIn' /\ StrangersRefused'
    BY <1>2, <2>1 DEF Restart, Mutex, HoleCopies, MidSignIn, StrangersRefused
  <2>4. Unique' /\ NamesMatch' /\ InBuffer' /\ NothingToFind' /\ AheadOrHeld'
    BY <2>1 DEF Unique, NamesMatch, InBuffer, NothingToFind, AheadOrHeld
  <2> QED BY <2>2, <2>3, <2>4 DEF IInv
<1>3. CASE UNCHANGED vars
  <2>1. UNCHANGED <<open, vector, erase, locals, freed, slid>>
    BY <1>3 DEF vars
  <2> QED BY <2>1, UnchangedPart DEF IInv, VectorTypeOK
<1> QED BY <1>1, <1>2, <1>3, HandlerPart DEF Next

LEMMA Invariance == Spec => []IInv
BY Start, InductiveStep, PTL DEF Spec
------------------------------------------------------------------------------
\* The vector, its capacity, the hole of an erase and what the handlers keep are
\* what they should be.
THEOREM VectorTypesCorrect == Spec => []VectorTypeOK
<1>1. IInv => VectorTypeOK
  BY DEF IInv
<1> QED BY <1>1, Invariance, PTL

\* A connection without a session is refused by every handler whose buffer was
\* not freed, for a vector of any size, half-assigned elements included.
THEOREM StrangersAreRefused == Spec => []StrangersRefused
<1>1. IInv => StrangersRefused
  BY DEF IInv
<1> QED BY <1>1, Invariance, PTL

\* The unlocked scan finds the session of its own connection, and the handler
\* acts for the user of that session and reads its name, unless the buffer was
\* freed or the handler stood on that very session, in the slot it left or in the
\* slot it came to, while an erase assigned it member by member.
THEOREM ScanFindsOwnSession == Spec => []OwnSessionSeen
<1>1. IInv => OwnSessionSeen
  <2> SUFFICES ASSUME IInv, NEW c \in Conns \ (freed \cup slid)
               PROVE  /\ pc[c] = "refused" => SlotsOf(c) = {}
                      /\ pc[c] \in {"acting", "named"} => <<c, actor[c]>> \in Bound
                      /\ pc[c] = "named" => name[c] = actor[c]
    BY DEF OwnSessionSeen
  <2>1. pc[c] \in {"acting", "named"} =>
            pos[c] \in Slots /\ mem[pos[c]].fd = c /\ actor[c] = mem[pos[c]].user
    BY DEF IInv, AheadOrHeld, Holding, SlotsOf, Busy
  <2> QED BY <2>1 DEF IInv, AheadOrHeld, Bound, Busy
<1> QED BY <1>1, Invariance, PTL

\* A full buffer with room for every user holds a session of every user, and then
\* nobody can sign in: by the pigeonhole principle two sessions would have the
\* same user.
LEMMA FullForAll ==
    ASSUME IInv, Slots = Live, len = cap, cap >= Cardinality(Users),
           NEW c \in Conns, NEW u \in Users, MaySignIn(c, u)
    PROVE  FALSE
<1>1. len \in Nat /\ len >= Cardinality(Users)
  BY DEF IInv, VectorTypeOK
<1>2. IsFiniteSet(Live) /\ Cardinality(Live) = len
  BY <1>1, FS_Interval DEF Live
<1>3. IsFiniteSet(Users \ {u}) /\ Cardinality(Users \ {u}) = Cardinality(Users) - 1
  BY FS_RemoveElement
<1>4. Cardinality(Users) \in Nat
  BY FS_CardinalityType
<1>5. \A i \in Live : mem[i].user \in Users \ {u}
  <2>1. \A i \in Live : mem[i].user \in Users
    BY ElementTypes DEF IInv, Live
  <2> QED BY <2>1 DEF MaySignIn
<1>6. Cardinality(Users \ {u}) < Cardinality(Live)
  BY <1>1, <1>2, <1>3, <1>4
<1>7. \E x, y \in Live : x # y /\ mem[x].user = mem[y].user
  <2> DEFINE f == [i \in Live |-> mem[i].user]
  <2>1. f \in [Live -> Users \ {u}]
    BY <1>5
  <2>2. \E x, y \in Live : x # y /\ f[x] = f[y]
    <3> HIDE DEF f
    <3> QED BY <1>2, <1>3, <1>6, <2>1, FS_PigeonHole
  <2> QED BY <2>2
<1> QED BY <1>7 DEF IInv, Unique

\* With room for every user, no login frees the buffer and no handler begins
\* while one does.
THEOREM NoGrowthWithRoom == Spec => RoomForAllIsSafe
<1>1. ASSUME IInv, [Next]_vars, cap >= Cardinality(Users) PROVE freed' \subseteq freed
  <2>1. ASSUME NEW c \in Conns, NEW u \in Users, SignIn(c, u)
        PROVE  freed' \subseteq freed
    <3>1. Slots = Live
      BY <1>1, <2>1, NoHole DEF SignIn, Holders
    <3>2. ~ Vacate(c)
      BY <1>1, <2>1, <3>1, FullForAll DEF SignIn, Vacate
    <3> QED BY <2>1, <3>2 DEF SignIn, Construct
  <2>2. ASSUME NEW c \in Conns, Begin(c)
        PROVE  freed' \subseteq freed
    <3>1. ASSUME NEW d \in Conns, pc[d] = "growing" PROVE FALSE
      <4>1. len = cap /\ actor[d] \in Users /\ MaySignIn(d, actor[d])
        BY <1>1, <3>1 DEF IInv, MidSignIn
      <4>2. d \in Holders /\ \A e \in Conns : pc[e] = "erasing" => e = d
        BY <1>1, <3>1 DEF Holders, IInv, Mutex
      <4>3. Slots = Live
        BY <1>1, <3>1, <4>2, NoHole
      <4> QED BY <1>1, <4>1, <4>3, FullForAll
    <3> QED BY <2>2, <3>1 DEF Begin
  <2> QED
    BY <1>1, <2>1, <2>2
       DEF Next, Connection, Handler, Open, Close, SignedIn, SignOut, MoveFd,
           MoveUser, MoveName, SignedOut, Found, Advance, NotFound, ReadUser,
           ReadName, Return, Restart, vars
<1>2. IInv /\ [Next]_vars => [cap >= Cardinality(Users) => freed' \subseteq freed]_vars
  BY <1>1
<1> QED BY <1>2, Invariance, PTL DEF Spec, RoomForAllIsSafe
------------------------------------------------------------------------------
\* The vector implements the registry of one-to-one sessions: a session is there
\* when the vector counts it, and gone when its erase begins.

LEMMA RegistryInit == Init => Registry!Init
BY DEF Init, Registry!Init, Bound, Slots, Live

LEMMA RegistrySignIn ==
    ASSUME IInv, NEW c \in Conns, SignedIn(c)
    PROVE  actor[c] \in Users /\ Registry!SignIn(c, actor[c])
<1> DEFINE s == NewSession(c, actor[c])
<1>1. pc[c] \in {"pushing", "growing"} /\ len' = len + 1 /\ UNCHANGED <<open, hole>>
  BY DEF SignedIn, erase
<1>2. actor[c] \in Users /\ MaySignIn(c, actor[c])
  BY <1>1 DEF IInv, MidSignIn
<1>3. hole = 0 /\ Slots = Live
  <2>1. c \in Holders /\ \A d \in Holders : d = c
    BY <1>1 DEF Holders, IInv, Mutex
  <2>2. ~ \E d \in Conns : pc[d] = "erasing"
    BY <1>1, <2>1 DEF Holders
  <2> QED BY <2>2, NoHole
<1>4. s \in Session /\ s.fd = c /\ s.user = actor[c]
  BY <1>2, NewSessionFields
<1>5. mem'[len + 1] = s /\ \A i \in Live : mem'[i] = mem[i]
  <2>1. CASE pc[c] = "pushing"
    BY <2>1 DEF SignedIn, IInv, MidSignIn
  <2>2. CASE pc[c] = "growing"
    <3>1. mem' = Append(SubSeq(mem, 1, len), s) /\ cap' = CapGrown /\ len = cap
      BY <2>2 DEF SignedIn, IInv, MidSignIn
    <3> HIDE DEF s
    <3> QED BY <1>4, <3>1, GrownEffect DEF IInv
  <2> QED BY <1>1, <2>1, <2>2
<1> HIDE DEF s
<1>6. Slots' = Live \cup {len + 1}
  BY <1>1, <1>3 DEF IInv, VectorTypeOK, Live, Slots
<1>7. Bound' = Bound \cup {<<c, actor[c]>>}
  <2>1. Bound' = {<<mem'[i].fd, mem'[i].user>> : i \in Live \cup {len + 1}}
    BY <1>6 DEF Bound
  <2> QED BY <1>3, <1>4, <1>5, <2>1 DEF Bound
<1>8. \A b \in Bound : b[1] # c /\ b[2] # actor[c]
  BY <1>2, <1>3 DEF MaySignIn, Bound
<1>9. c \in open
  BY <1>1 DEF IInv, MidSignIn
<1> QED
  BY <1>1, <1>2, <1>7, <1>8, <1>9
     DEF Registry!SignIn, Registry!BoundConns, Registry!BoundUsers

LEMMA RegistrySignOut ==
    ASSUME IInv, NEW c \in Conns, NEW k \in Live, SignOut(c, k)
    PROVE  Registry!SignOut(c, mem[k].user) /\ mem[k].user \in Users
<1>1. /\ k \in Slots /\ mem[k].fd = c /\ hole' = k
      /\ UNCHANGED <<open, mem, len, cap>>
  BY DEF SignOut, SlotsOf, vector
<1>2. Slots = Live
  BY NoHole DEF SignOut, Holders
<1>3. Slots' = Slots \ {k}
  BY <1>1, <1>2 DEF Slots, Live
<1>4. \A i \in Slots : mem[i].fd = c => i = k
  BY <1>1 DEF IInv, Unique
<1>5. Bound' = {<<mem[i].fd, mem[i].user>> : i \in Slots \ {k}}
  BY <1>1, <1>3 DEF Bound
<1>6. Bound' = Bound \ {<<c, mem[k].user>>}
  BY <1>1, <1>4, <1>5 DEF Bound
<1>7. <<c, mem[k].user>> \in Bound
  BY <1>1 DEF Bound
<1>8. mem[k].user \in Users
  BY ElementTypes DEF IInv, Live
<1> QED BY <1>1, <1>6, <1>7, <1>8 DEF Registry!SignOut

\* The hole is in no session, and the element that becomes the next hole has been
\* copied to it.
LEMMA RegistryMoves ==
    ASSUME IInv, NEW c \in Conns,
           MoveFd(c) \/ MoveUser(c) \/ MoveName(c) \/ SignedOut(c)
    PROVE  UNCHANGED <<open, Bound>>
<1>1. hole > 0 /\ hole \in Nat /\ len \in Nat /\ Len(mem) \in Nat /\ len <= Len(mem)
  BY AloneInErase, ElementTypes DEF MoveFd, MoveUser, MoveName, SignedOut, IInv
<1>2. hole \notin Slots /\ Slots \subseteq 1..Len(mem)
  BY <1>1 DEF Slots, Live
<1>3. CASE MoveFd(c) \/ MoveUser(c)
  <2>1. hole < len /\ UNCHANGED <<open, len, hole>>
    BY <1>3 DEF MoveFd, MoveUser, IInv, HoleCopies
  <2>2. \A i \in 1..Len(mem) : i # hole => mem'[i] = mem[i]
    BY <1>1, <1>3, <2>1, MoveFdEffect, MoveUserEffect DEF IInv
  <2>3. Slots' = Slots /\ \A i \in Slots : mem'[i] = mem[i]
    BY <1>2, <2>1, <2>2 DEF Slots, Live
  <2> QED BY <2>1, <2>3 DEF Bound
<1>4. CASE MoveName(c)
  <2>1. /\ hole < len /\ mem[hole].fd = mem[hole + 1].fd
        /\ mem[hole].user = mem[hole + 1].user
        /\ hole' = hole + 1 /\ UNCHANGED <<open, len>>
    BY <1>4 DEF MoveName, IInv, HoleCopies
  <2>2. \A i \in 1..Len(mem) : mem'[i].fd = mem[i].fd /\ mem'[i].user = mem[i].user
    BY <1>1, <1>4, <2>1, MoveNameEffect DEF IInv
  <2>3. /\ hole + 1 \in Slots /\ hole \in 1..Len(mem)
        /\ Slots' = (Slots \ {hole + 1}) \cup {hole}
    BY <1>1, <2>1 DEF Slots, Live
  <2>4. \A i \in Slots' : mem'[i].fd = mem[i].fd /\ mem'[i].user = mem[i].user
    BY <1>2, <2>2, <2>3
  <2>5. Bound' = {<<mem[i].fd, mem[i].user>> : i \in Slots'}
    BY <2>4 DEF Bound
  <2>6. Bound' = Bound
    BY <2>1, <2>3, <2>5 DEF Bound
  <2> QED BY <2>1, <2>6
<1>5. CASE SignedOut(c)
  <2>1. hole = len /\ len' = len - 1 /\ hole' = 0 /\ UNCHANGED <<open, mem>>
    BY <1>5 DEF SignedOut
  <2>2. Slots' = Slots
    BY <1>1, <2>1 DEF Slots, Live
  <2> QED BY <2>1, <2>2 DEF Bound
<1> QED BY <1>3, <1>4, <1>5

LEMMA RegistryStep ==
    IInv /\ [Next]_vars => [Registry!Next]_(Registry!regVars)
<1> SUFFICES ASSUME IInv, [Next]_vars
             PROVE  Registry!Next \/ UNCHANGED Registry!regVars
  OBVIOUS
<1> USE DEF Registry!Next, Registry!regVars
<1>1. UNCHANGED <<vector, erase>> => UNCHANGED Bound
  BY DEF vector, erase, Bound, Slots, Live
<1>2. ASSUME NEW c \in Conns, Connection(c)
      PROVE  Registry!Next \/ UNCHANGED Registry!regVars
  <2>1. CASE Open(c)
    BY <1>1, <2>1 DEF Open, Registry!Open
  <2>2. CASE Close(c)
    <3>1. c \notin Registry!BoundConns
      BY <2>2 DEF Close, SlotsOf, Registry!BoundConns, Bound
    <3> QED BY <1>1, <2>2, <3>1 DEF Close, Registry!Close
  <2>3. ASSUME NEW u \in Users, SignIn(c, u) PROVE UNCHANGED <<open, Bound>>
    <3>1. /\ len \in Nat /\ len <= Len(mem) /\ UNCHANGED <<open, len, hole>>
          /\ \A i \in 1..Len(mem) : i # len + 1 => mem'[i] = mem[i]
      BY <2>3, ConstructEffect, ElementTypes DEF SignIn, Vacate, IInv, erase
    <3>2. Slots' = Slots /\ \A i \in Slots : mem'[i] = mem[i]
      BY <3>1 DEF Slots, Live
    <3> QED BY <3>1, <3>2 DEF Bound
  <2> QED
    BY <1>2, <2>1, <2>2, <2>3, RegistrySignIn, RegistrySignOut, RegistryMoves
       DEF Connection
<1>3. ASSUME NEW c \in Conns, Handler(c)
      PROVE  UNCHANGED Registry!regVars
  BY <1>1, <1>3
     DEF Handler, Begin, Found, Advance, NotFound, ReadUser, ReadName, Return
<1>4. CASE Restart
  BY <1>4 DEF Restart, Registry!Reset, Bound, Slots, Live
<1>5. CASE UNCHANGED vars
  BY <1>1, <1>5 DEF vars
<1> QED BY <1>2, <1>3, <1>4, <1>5 DEF Next

\* What push_back and erase do to the slots, step by step, is what SessionRegistry
\* does to a set of pairs, for any number of connections and users.
THEOREM VectorImplementsRegistry == Spec => RegistrySpec
<1>1. RegistrySpec <=> Registry!Init /\ [][Registry!Next]_(Registry!regVars)
  BY DEF RegistrySpec, Registry!Spec
<1> QED BY <1>1, RegistryInit, RegistryStep, Invariance, PTL DEF Spec
==============================================================================
