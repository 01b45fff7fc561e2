---------------------------- MODULE ClientProofs ------------------------------
(***************************************************************************)
(* Proofs about Client, for any friends, requests and pushes: its types,   *)
(* what the mutex of the friend cache is there for, that each request is   *)
(* answered once and in its turn, and what the chat menu can then rely on. *)
(*                                                                         *)
(* The argument goes by the places a request passes on its round: the      *)
(* queue to the server, the server's hands, the queue back, the receive    *)
(* thread's hands and what it has handled.  The requests in one place are  *)
(* older than all those in the places before it.                           *)
(***************************************************************************)
EXTENDS Client, SequenceTheorems, TLAPS

Packets ==
    {p \in [type : {2000, 2001, 2004}, number : 0..MaxRequests, friends : SUBSET Friends] :
        p.type = 2001 <=> p.number = 0}

InHand == {"print", "list", "fill"}
WithFriend == {"chosen", "validate", "enter", "greet", "chat", "leave"}

MainTypes ==
    /\ menu \in {"main", "pause", "sleep", "look", "prompt", "chosen", "validate", "enter",
                 "greet", "chat", "leave", "ended"}
    /\ is_running \in BOOLEAN /\ in_chat_mode \in BOOLEAN /\ late \in BOOLEAN
    /\ current_chat_partner_id \in Friends \cup {NoFriend}
    /\ receiver_id \in Friends \cup {NoFriend}
    /\ basis.friends \in SUBSET Friends
    /\ in_chat_mode => menu \in {"greet", "chat"}
    /\ menu \in WithFriend => receiver_id \in Friends
    /\ menu = "ended" => receiver = "ended"

ReceiverTypes ==
    /\ receiver \in {"test", "recv", "print", "list", "fill", "ended"}
    /\ mutex \in {"free", "main", "receive"}
    /\ packet \in Packets
    /\ receiver = "print" => packet.type # 2004
    /\ receiver \in {"list", "fill"} => packet.type = 2004
    /\ answers \in Seq(1..MaxRequests)
    /\ cached.number \in 0..MaxRequests /\ cached.friends \in SUBSET Friends
    /\ cached_friends \in SUBSET Friends

ServerTypes ==
    /\ asked \in 0..MaxRequests
    /\ toServer \in Seq(Request) /\ toClient \in Seq(Packets)
    /\ session \in BOOLEAN /\ server \in {"recv", "serving", "closed"}
    /\ server = "serving" => job \in Request

Types == MainTypes /\ ReceiverTypes /\ ServerTypes

\* The mutex is held exactly where the code holds it.
MutexHeld ==
    /\ mutex = "main" <=> menu \in {"look", "validate"}
    /\ mutex = "receive" <=> receiver = "fill"

\* While the receive thread fills the cache it holds part of the packet, and
\* otherwise the whole of the list cached last.
CacheFilled ==
    IF receiver = "fill" THEN cached_friends \subseteq packet.friends
                         ELSE cached_friends = cached.friends

Below(X, Y) == \A x \in X, y \in Y : x < y

\* The requests in each place, from the last place to the first.
handled == About(answers)
held == About(inHand)
back == About(Numbers(toClient))
served == About(inService)
queued == About(Numbers(toServer))
round == handled \cup held \cup back \cup served \cup queued

Chain(H, D, B, S, Q) ==
    /\ Below(H, D \cup B \cup S \cup Q) /\ Below(D, B \cup S \cup Q)
    /\ Below(B, S \cup Q) /\ Below(S, Q)

Ordered ==
    /\ InTurn(answers) /\ InTurn(Numbers(toClient)) /\ InTurn(Numbers(toServer))
    /\ Chain(handled, held, back, served, queued)
    /\ round \subseteq 1..asked /\ dropped \subseteq 1..asked

Complete ==
    server # "closed" /\ receiver # "ended" => round = (1..asked) \ dropped

\* From the request for the list to the choice of the friend the main thread
\* sends nothing, and all that comes to that request is a list or a refusal.
Asking == menu \in {"sleep", "look", "prompt", "chosen", "validate"}

ListOrRefusal ==
    Asking =>
        /\ chatAsk = asked /\ asked > 0
        /\ \A i \in 1..Len(toServer) : toServer[i].number = asked => toServer[i].kind = "list"
        /\ server = "serving" /\ job.number = asked => job.kind = "list"
        /\ \A i \in 1..Len(toClient) :
              toClient[i].number = asked => toClient[i].type = 2004 \/ asked \in refused
        /\ receiver \in InHand /\ packet.number = asked
              => packet.type = 2004 \/ asked \in refused
        /\ asked \in handled => cached.number = asked \/ asked \in refused

IInv ==
    /\ Types /\ MutexHeld /\ CacheFilled
    /\ Ordered /\ Complete
    /\ ListOrRefusal /\ StaleOnlyIfUnanswered

------------------------------------------------------------------------------
\* Sequences of numbers.

LEMMA ConstantFacts ==
    MaxRequests \in Nat /\ MaxPushes \in Nat /\ NoFriend \notin Friends
BY ClientAssumption

LEMMA AboutIs ==
    ASSUME NEW s \in Seq(Nat)
    PROVE  /\ \A x : x \in About(s) <=> \E i \in 1..Len(s) : s[i] = x /\ x # 0
           /\ InTurn(s) <=> \A i, j \in 1..Len(s) : i < j /\ s[i] # 0 /\ s[j] # 0 => s[i] < s[j]
           /\ Len(s) \in Nat /\ \A i \in 1..Len(s) : s[i] \in Nat
<1>1. DOMAIN s = 1..Len(s) /\ Len(s) \in Nat /\ \A i \in 1..Len(s) : s[i] \in Nat
  BY LenProperties, ElementOfSeq
<1>2. \A x : x \in About(s) <=> \E i \in 1..Len(s) : s[i] = x /\ x # 0
  BY <1>1 DEF About, ToSet
<1>3. InTurn(s) <=> \A i, j \in 1..Len(s) : i < j /\ s[i] # 0 /\ s[j] # 0 => s[i] < s[j]
  BY <1>1 DEF InTurn
<1> QED BY <1>1, <1>2, <1>3

LEMMA AboutConcat ==
    ASSUME NEW s \in Seq(Nat), NEW t \in Seq(Nat)
    PROVE  /\ s \o t \in Seq(Nat)
           /\ About(s \o t) = About(s) \cup About(t)
           /\ InTurn(s \o t) <=> InTurn(s) /\ InTurn(t) /\ Below(About(s), About(t))
<1> DEFINE u == s \o t
<1>1. /\ u \in Seq(Nat) /\ Len(u) = Len(s) + Len(t)
      /\ \A i \in 1..(Len(s) + Len(t)) : u[i] = IF i <= Len(s) THEN s[i] ELSE t[i - Len(s)]
  BY ConcatProperties
<1>2. PICK m, n : m = Len(s) /\ n = Len(t)
  OBVIOUS
<1> HIDE DEF u
<1>3. /\ m \in Nat /\ n \in Nat /\ Len(u) = m + n
      /\ \A i \in 1..m : i \in 1..(m + n) /\ u[i] = s[i]
      /\ \A i \in 1..n : m + i \in 1..(m + n) /\ u[m + i] = t[i]
  <2>1. m \in Nat /\ n \in Nat
    BY <1>2, LenProperties
  <2>2. \A i \in 1..m : i \in 1..(m + n) /\ i <= m
    BY <2>1
  <2>3. \A i \in 1..n : m + i \in 1..(m + n) /\ ~ (m + i <= m) /\ (m + i) - m = i
    BY <2>1
  <2>4. Len(u) = m + n
    BY <1>1, <1>2
  <2>5. \A i \in 1..(m + n) : u[i] = IF i <= m THEN s[i] ELSE t[i - m]
    BY <1>1, <1>2
  <2>6. \A i \in 1..m : u[i] = s[i]
    BY <2>2, <2>5
  <2>7. \A i \in 1..n : u[m + i] = t[i]
    BY <2>3, <2>5
  <2> QED BY <2>1, <2>2, <2>3, <2>4, <2>6, <2>7
<1>4. \A i \in 1..(m + n) : i \in 1..m \/ (i - m \in 1..n /\ m + (i - m) = i /\ i > m)
  BY <1>3
<1>5. About(u) = About(s) \cup About(t)
  <2>0. /\ \A x : x \in About(u) <=> \E i \in 1..(m + n) : u[i] = x /\ x # 0
        /\ \A x : x \in About(s) <=> \E i \in 1..m : s[i] = x /\ x # 0
        /\ \A x : x \in About(t) <=> \E i \in 1..n : t[i] = x /\ x # 0
    <3>1. Len(u) = m + n /\ u \in Seq(Nat)
      BY <1>1, <1>3
    <3>2. \A x : x \in About(u) <=> \E i \in 1..Len(u) : u[i] = x /\ x # 0
      BY <3>1, AboutIs
    <3>3. \A x : x \in About(s) <=> \E i \in 1..Len(s) : s[i] = x /\ x # 0
      BY AboutIs
    <3>4. \A x : x \in About(t) <=> \E i \in 1..Len(t) : t[i] = x /\ x # 0
      BY AboutIs
    <3> QED BY <1>2, <3>1, <3>2, <3>3, <3>4
  <2>1. ASSUME NEW x \in About(u) PROVE x \in About(s) \cup About(t)
    <3>1. PICK i \in 1..(m + n) : u[i] = x /\ x # 0
      BY <2>0, <2>1
    <3>2. CASE i \in 1..m
      BY <1>3, <2>0, <3>1, <3>2
    <3>3. CASE i - m \in 1..n /\ m + (i - m) = i
      <4>1. t[i - m] = x
        BY <1>3, <3>1, <3>3
      <4> QED BY <2>0, <3>1, <3>3, <4>1
    <3> QED BY <1>4, <3>2, <3>3
  <2>2. ASSUME NEW x \in About(s) PROVE x \in About(u)
    <3>1. PICK i \in 1..m : s[i] = x /\ x # 0
      BY <2>0, <2>2
    <3> QED BY <1>3, <2>0, <3>1
  <2>3. ASSUME NEW x \in About(t) PROVE x \in About(u)
    <3>1. PICK i \in 1..n : t[i] = x /\ x # 0
      BY <2>0, <2>3
    <3> QED BY <1>3, <2>0, <3>1
  <2> QED BY <2>1, <2>2, <2>3
<1>6. ASSUME InTurn(s), InTurn(t), Below(About(s), About(t)) PROVE InTurn(u)
  <2>1. ASSUME NEW i \in 1..(m + n), NEW j \in 1..(m + n), i < j, u[i] # 0, u[j] # 0
        PROVE  u[i] < u[j]
    <3>1. CASE j \in 1..m
      <4>1. i \in 1..m
        BY <1>3, <2>1, <3>1
      <4> QED BY <1>2, <1>3, <1>6, <2>1, <3>1, <4>1, AboutIs
    <3>2. CASE i \in 1..m /\ j \notin 1..m
      <4>1. u[i] \in About(s)
        BY <1>2, <1>3, <2>1, <3>2, AboutIs
      <4>2. j - m \in 1..n /\ u[j] = t[j - m]
        BY <1>3, <1>4, <2>1, <3>2
      <4>3. u[j] \in About(t)
        BY <1>2, <2>1, <4>2, AboutIs
      <4> QED BY <1>6, <4>1, <4>3 DEF Below
    <3>3. CASE i \notin 1..m /\ j \notin 1..m
      <4>1. i - m \in 1..n /\ u[i] = t[i - m] /\ j - m \in 1..n /\ u[j] = t[j - m]
        BY <1>3, <1>4, <2>1, <3>3
      <4>2. i - m < j - m
        BY <1>3, <2>1
      <4>3. \A k, l \in 1..n : k < l /\ t[k] # 0 /\ t[l] # 0 => t[k] < t[l]
        BY <1>2, <1>6, AboutIs
      <4> QED BY <2>1, <4>1, <4>2, <4>3
    <3> QED BY <3>1, <3>2, <3>3
  <2> QED BY <1>1, <1>3, <2>1, AboutIs
<1>7. ASSUME InTurn(u) PROVE InTurn(s) /\ InTurn(t) /\ Below(About(s), About(t))
  <2>0. \A i, j \in 1..(m + n) : i < j /\ u[i] # 0 /\ u[j] # 0 => u[i] < u[j]
    BY <1>1, <1>3, <1>7, AboutIs
  <2>1. InTurn(s)
    BY <1>2, <1>3, <2>0, AboutIs
  <2>2. InTurn(t)
    <3>1. \A i, j \in 1..n : i < j => m + i < m + j
      BY <1>3
    <3>2. \A i, j \in 1..n : i < j /\ t[i] # 0 /\ t[j] # 0 => t[i] < t[j]
      BY <1>3, <2>0, <3>1
    <3> QED BY <1>2, <3>2, AboutIs
  <2>3. ASSUME NEW x \in About(s), NEW y \in About(t) PROVE x < y
    <3>1. PICK i \in 1..m : s[i] = x /\ x # 0
      BY <1>2, AboutIs
    <3>2. PICK j \in 1..n : t[j] = y /\ y # 0
      BY <1>2, AboutIs
    <3>3. i < m + j
      BY <1>3
    <3> QED BY <1>3, <2>0, <3>1, <3>2, <3>3
  <2> QED BY <2>1, <2>2, <2>3 DEF Below
<1> QED BY <1>1, <1>5, <1>6, <1>7 DEF u

LEMMA AboutOne ==
    ASSUME NEW n \in Nat
    PROVE  <<n>> \in Seq(Nat) /\ About(<<n>>) = {n} \ {0} /\ InTurn(<<n>>)
<1>1. <<n>> \in Seq(Nat) /\ Len(<<n>>) = 1 /\ <<n>>[1] = n
  OBVIOUS
<1>2. \A i \in 1..1 : i = 1
  OBVIOUS
<1>3. \A x : x \in About(<<n>>) <=> \E i \in 1..1 : <<n>>[i] = x /\ x # 0
  BY <1>1, AboutIs
<1>4. InTurn(<<n>>)
  <2>1. DOMAIN <<n>> = 1..1
    OBVIOUS
  <2>2. \A i, j \in 1..1 : ~ (i < j)
    OBVIOUS
  <2> QED BY <2>1, <2>2 DEF InTurn
<1> QED BY <1>1, <1>2, <1>3, <1>4

LEMMA AboutNone ==
    <<>> \in Seq(Nat) /\ About(<<>>) = {} /\ InTurn(<<>>)
<1>1. <<>> \in Seq(Nat) /\ Len(<<>>) = 0
  BY EmptySeq
<1>2. \A x : x \in About(<<>>) <=> \E i \in 1..Len(<<>>) : <<>>[i] = x /\ x # 0
  BY <1>1, AboutIs
<1>3. InTurn(<<>>)
  <2>1. DOMAIN <<>> = {}
    BY <1>1, LenProperties
  <2> QED BY <2>1 DEF InTurn
<1> QED BY <1>1, <1>2, <1>3

\* A sequence grows at its end and shrinks at its head.
LEMMA AboutAppend ==
    ASSUME NEW s \in Seq(Nat), NEW n \in Nat
    PROVE  /\ Append(s, n) \in Seq(Nat)
           /\ About(Append(s, n)) = About(s) \cup ({n} \ {0})
           /\ InTurn(Append(s, n)) <=> InTurn(s) /\ Below(About(s), {n} \ {0})
<1>1. Append(s, n) = s \o <<n>>
  BY AppendIsConcat
<1>2. <<n>> \in Seq(Nat) /\ About(<<n>>) = {n} \ {0} /\ InTurn(<<n>>)
  BY AboutOne
<1>3. /\ s \o <<n>> \in Seq(Nat) /\ About(s \o <<n>>) = About(s) \cup About(<<n>>)
      /\ InTurn(s \o <<n>>) <=> InTurn(s) /\ InTurn(<<n>>) /\ Below(About(s), About(<<n>>))
  BY <1>2, AboutConcat
<1> QED BY <1>1, <1>2, <1>3

LEMMA AboutTail ==
    ASSUME NEW s \in Seq(Nat), s # <<>>
    PROVE  /\ Head(s) \in Nat /\ Tail(s) \in Seq(Nat)
           /\ About(s) = ({Head(s)} \ {0}) \cup About(Tail(s))
           /\ InTurn(s) => InTurn(Tail(s)) /\ Below({Head(s)} \ {0}, About(Tail(s)))
<1>1. Head(s) \in Nat /\ Tail(s) \in Seq(Nat) /\ <<Head(s)>> \in Seq(Nat)
  BY HeadTailProperties
<1>2. s = <<Head(s)>> \o Tail(s)
  <2>1. /\ Len(Tail(s)) = Len(s) - 1 /\ Len(s) \in Nat \ {0}
        /\ \A i \in 1..Len(Tail(s)) : Tail(s)[i] = s[i + 1]
    BY HeadTailProperties, EmptySeq
  <2>2. /\ <<Head(s)>> \o Tail(s) \in Seq(Nat)
        /\ Len(<<Head(s)>> \o Tail(s)) = 1 + Len(Tail(s))
        /\ \A i \in 1..(1 + Len(Tail(s))) : (<<Head(s)>> \o Tail(s))[i] =
               IF i <= 1 THEN <<Head(s)>>[i] ELSE Tail(s)[i - 1]
    BY <1>1, ConcatProperties
  <2>3. ASSUME NEW i \in 1..Len(s) PROVE s[i] = (<<Head(s)>> \o Tail(s))[i]
    <3>1. CASE i = 1
      BY <2>1, <2>2, <3>1
    <3>2. CASE i # 1
      <4>1. i - 1 \in 1..Len(Tail(s)) /\ (i - 1) + 1 = i /\ i \in 1..(1 + Len(Tail(s)))
        BY <2>1, <3>2
      <4>2. (<<Head(s)>> \o Tail(s))[i] = Tail(s)[i - 1]
        BY <2>2, <3>2, <4>1
      <4> QED BY <2>1, <4>1, <4>2
    <3> QED BY <3>1, <3>2
  <2> QED BY <2>1, <2>2, <2>3, SeqEqual
<1>3. /\ About(<<Head(s)>> \o Tail(s)) = About(<<Head(s)>>) \cup About(Tail(s))
      /\ InTurn(<<Head(s)>> \o Tail(s))
            => InTurn(Tail(s)) /\ Below(About(<<Head(s)>>), About(Tail(s)))
  BY <1>1, AboutConcat
<1>4. About(<<Head(s)>>) = {Head(s)} \ {0}
  BY <1>1, AboutOne
<1> QED BY <1>1, <1>2, <1>3, <1>4

\* The numbers of a queue follow its packets.
LEMMA NumbersFacts ==
    ASSUME NEW S, \A p \in S : p.number \in Nat, NEW q \in Seq(S)
    PROVE  /\ Numbers(q) \in Seq(Nat) /\ Len(Numbers(q)) = Len(q) /\ Len(q) \in Nat
           /\ \A i \in 1..Len(q) : q[i] \in S /\ Numbers(q)[i] = q[i].number
<1>1. DOMAIN q = 1..Len(q) /\ Len(q) \in Nat /\ \A i \in 1..Len(q) : q[i] \in S
  BY LenProperties, ElementOfSeq
<1>2. Numbers(q) = [i \in 1..Len(q) |-> q[i].number]
  BY <1>1 DEF Numbers
<1>3. \A i \in 1..Len(q) : q[i].number \in Nat
  BY <1>1
<1> QED BY <1>1, <1>2, <1>3

LEMMA NumbersNone == Numbers(<<>>) = <<>>
<1>1. <<>> \in Seq({}) /\ Len(<<>>) = 0
  BY EmptySeq
<1>2. Numbers(<<>>) \in Seq(Nat) /\ Len(Numbers(<<>>)) = 0
  BY <1>1, NumbersFacts
<1> QED BY <1>2, EmptySeq

LEMMA NumbersAppend ==
    ASSUME NEW S, \A p \in S : p.number \in Nat, NEW q \in Seq(S), NEW e \in S
    PROVE  Numbers(Append(q, e)) = Append(Numbers(q), e.number)
<1>1. /\ Append(q, e) \in Seq(S) /\ Len(Append(q, e)) = Len(q) + 1
      /\ \A i \in 1..Len(q) : Append(q, e)[i] = q[i]
      /\ Append(q, e)[Len(q) + 1] = e
  BY AppendProperties
<1>2. /\ Numbers(q) \in Seq(Nat) /\ Len(Numbers(q)) = Len(q) /\ Len(q) \in Nat
      /\ \A i \in 1..Len(q) : Numbers(q)[i] = q[i].number
  BY NumbersFacts
<1>3. /\ Numbers(Append(q, e)) \in Seq(Nat) /\ Len(Numbers(Append(q, e))) = Len(q) + 1
      /\ \A i \in 1..(Len(q) + 1) : Numbers(Append(q, e))[i] = Append(q, e)[i].number
  <2>1. PICK r : r = Append(q, e)
    OBVIOUS
  <2>2. r \in Seq(S)
    BY <1>1, <2>1
  <2> QED BY <1>1, <2>1, <2>2, NumbersFacts
<1>4. /\ Append(Numbers(q), e.number) \in Seq(Nat)
      /\ Len(Append(Numbers(q), e.number)) = Len(q) + 1
      /\ \A i \in 1..Len(q) : Append(Numbers(q), e.number)[i] = Numbers(q)[i]
      /\ Append(Numbers(q), e.number)[Len(q) + 1] = e.number
  BY <1>2, AppendProperties
<1>5. ASSUME NEW i \in 1..(Len(q) + 1)
      PROVE  Numbers(Append(q, e))[i] = Append(Numbers(q), e.number)[i]
  <2>1. i \in 1..Len(q) \/ i = Len(q) + 1
    BY <1>2
  <2> QED BY <1>1, <1>2, <1>3, <1>4, <2>1
<1> QED BY <1>3, <1>4, <1>5, SeqEqual

LEMMA NumbersTail ==
    ASSUME NEW S, \A p \in S : p.number \in Nat, NEW q \in Seq(S), q # <<>>
    PROVE  /\ Numbers(q) # <<>> /\ Head(Numbers(q)) = Head(q).number
           /\ Numbers(Tail(q)) = Tail(Numbers(q))
<1>1. /\ Tail(q) \in Seq(S) /\ Len(Tail(q)) = Len(q) - 1 /\ Len(q) \in Nat \ {0}
      /\ \A i \in 1..Len(Tail(q)) : Tail(q)[i] = q[i + 1]
      /\ Head(q) = q[1]
  BY HeadTailProperties, EmptySeq
<1>2. /\ Numbers(q) \in Seq(Nat) /\ Len(Numbers(q)) = Len(q)
      /\ \A i \in 1..Len(q) : Numbers(q)[i] = q[i].number
  BY NumbersFacts
<1>3. Numbers(q) # <<>> /\ Head(Numbers(q)) = Head(q).number
  <2>1. Numbers(q) # <<>>
    BY <1>1, <1>2, EmptySeq
  <2>2. Head(Numbers(q)) = Numbers(q)[1] /\ 1 \in 1..Len(q)
    BY <1>1, <1>2
  <2> QED BY <1>1, <1>2, <2>1, <2>2
<1>4. /\ Tail(Numbers(q)) \in Seq(Nat) /\ Len(Tail(Numbers(q))) = Len(q) - 1
      /\ \A i \in 1..(Len(q) - 1) : Tail(Numbers(q))[i] = Numbers(q)[i + 1]
  BY <1>2, <1>3, HeadTailProperties
<1>5. /\ Numbers(Tail(q)) \in Seq(Nat) /\ Len(Numbers(Tail(q))) = Len(q) - 1
      /\ \A i \in 1..(Len(q) - 1) : Numbers(Tail(q))[i] = Tail(q)[i].number
  <2>1. PICK r : r = Tail(q)
    OBVIOUS
  <2>2. r \in Seq(S) /\ Len(r) = Len(q) - 1
    BY <1>1, <2>1
  <2>3. /\ Numbers(r) \in Seq(Nat) /\ Len(Numbers(r)) = Len(r)
        /\ \A i \in 1..Len(r) : Numbers(r)[i] = r[i].number
    BY <2>2, NumbersFacts
  <2> QED BY <2>1, <2>2, <2>3
<1>6. ASSUME NEW i \in 1..(Len(q) - 1)
      PROVE  Numbers(Tail(q))[i] = Tail(Numbers(q))[i]
  <2>1. i + 1 \in 1..Len(q)
    BY <1>1
  <2> QED BY <1>1, <1>2, <1>4, <1>5, <2>1
<1> QED BY <1>3, <1>4, <1>5, <1>6, SeqEqual
------------------------------------------------------------------------------
\* Types.

LEMMA PacketFacts ==
    /\ Pushed \in Packets
    /\ \A n \in 1..MaxRequests : Reply(n) \in Packets
    /\ \A n \in 1..MaxRequests, s \in SUBSET Friends : FriendList(n, s) \in Packets
    /\ \A p \in Packets : /\ p.number \in Nat /\ p.number \in 0..MaxRequests
                          /\ p.friends \in SUBSET Friends
                          /\ p.type = 2001 <=> p.number = 0
    /\ \A r \in Request : r.number \in Nat \ {0} /\ r.number \in 1..MaxRequests
BY ConstantFacts DEF Packets, Pushed, Reply, FriendList, Request

LEMMA TypesStart == Init => Types
<1> SUFFICES ASSUME Init PROVE Types
  OBVIOUS
<1>1. MainTypes
  BY DEF Init, MainTypes, WithFriend, NoList
<1>2. ReceiverTypes
  <2>1. <<>> \in Seq(1..MaxRequests) /\ 0 \in 0..MaxRequests
    BY EmptySeq, ConstantFacts
  <2> QED BY <2>1, PacketFacts DEF Init, ReceiverTypes, NoList
<1>3. ServerTypes
  <2>1. <<>> \in Seq(Request) /\ <<>> \in Seq(Packets) /\ 0 \in 0..MaxRequests
    BY EmptySeq, ConstantFacts
  <2> QED BY <2>1 DEF Init, ServerTypes
<1> QED BY <1>1, <1>2, <1>3 DEF Types

\* send_request keeps the queue typed.
LEMMA SendRequestTypes ==
    ASSUME ServerTypes, NEW k \in Kinds, SendRequest(k), UNCHANGED serverState
    PROVE  ServerTypes'
<1>1. asked + 1 \in 1..MaxRequests /\ asked' = asked + 1 /\ toClient' = toClient
  BY ConstantFacts DEF SendRequest, ServerTypes
<1>2. [number |-> asked + 1, kind |-> k] \in Request
  BY <1>1 DEF Request
<1>3. toServer' \in Seq(Request)
  BY <1>2, AppendProperties DEF SendRequest, ServerTypes
<1> QED BY <1>1, <1>3, ConstantFacts DEF ServerTypes, serverState

LEMMA GoneTypes ==
    ASSUME Types, Gone, UNCHANGED <<asked, toServer, serverState, answers>>
    PROVE  Types'
<1>1. MainTypes'
  BY DEF Gone, MainTypes, WithFriend, NoList
<1>2. ReceiverTypes'
  BY PacketFacts, ConstantFacts DEF Gone, Types, ReceiverTypes, NoList
<1>3. ServerTypes'
  <2>1. toClient' \in Seq(Packets)
    BY EmptySeq DEF Gone
  <2> QED BY <2>1 DEF Types, ServerTypes, serverState
<1> QED BY <1>1, <1>2, <1>3 DEF Types

LEMMA TypesMain ==
    ASSUME Types, Main
    PROVE  Types'
<1> USE DEF flags, cache, queues, chat
<1>1. CASE \/ \E k \in Kinds \ {"history"} : MenuRequest(k)
           \/ ChatAskList \/ ChatHistory \/ ChatSend
  <2>1. PICK k \in Kinds : SendRequest(k)
    BY <1>1 DEF MenuRequest, ChatAskList, ChatHistory, ChatSend, Kinds
  <2>2. /\ UNCHANGED <<receiver, packet, is_running, in_chat_mode, receiver_id, serverState,
                       mutex, cached_friends, late, basis, answers, cached>>
        /\ \/ menu = "main" /\ menu' \in {"pause", "sleep"}
              /\ current_chat_partner_id' = current_chat_partner_id
           \/ menu = "greet" /\ menu' = "chat" /\ current_chat_partner_id' = receiver_id
           \/ menu' = menu /\ current_chat_partner_id' = current_chat_partner_id
    BY <1>1 DEF MenuRequest, ChatAskList, ChatHistory, ChatSend
  <2>3. ServerTypes'
    BY <2>1, <2>2, SendRequestTypes DEF Types
  <2>4. MainTypes'
    BY <2>2 DEF Types, MainTypes, WithFriend
  <2>5. ReceiverTypes'
    BY <2>2 DEF Types, ReceiverTypes
  <2> QED BY <2>3, <2>4, <2>5 DEF Types
<1>2. CASE Exit \/ BrokenPipe
  BY <1>2, GoneTypes DEF Exit, BrokenPipe
<1>3. CASE MenuNothing \/ Wake \/ ChatLock \/ ChatLook \/ ChatAbandon \/ ChatLockAgain
           \/ ChatValidate \/ ChatEnter \/ ChatQuit \/ ChatLeave
           \/ \E f \in Friends : ChatChoose(f)
  <2>1. UNCHANGED <<receiver, packet, asked, toServer, toClient, serverState, answers, cached,
                    cached_friends>>
    BY <1>3 DEF MenuNothing, Wake, ChatLock, ChatLook, ChatAbandon, ChatLockAgain, LockCache,
                ChatValidate, ChatEnter, ChatQuit, ChatLeave, ChatChoose
  <2>2. mutex' \in {mutex, "free", "main"}
    BY <1>3 DEF MenuNothing, Wake, ChatLock, ChatLook, ChatAbandon, ChatLockAgain, LockCache,
                ChatValidate, ChatEnter, ChatQuit, ChatLeave, ChatChoose
  <2>3. ServerTypes'
    BY <2>1 DEF Types, ServerTypes, serverState
  <2>4. ReceiverTypes'
    BY <2>1, <2>2 DEF Types, ReceiverTypes
  <2>5. MainTypes'
    <3> USE DEF Types, MainTypes, WithFriend
    <3>1. CASE MenuNothing
      BY <3>1 DEF MenuNothing
    <3>2. CASE Wake
      BY <3>2 DEF Wake
    <3>3. CASE ChatLock \/ ChatLockAgain
      BY <3>3 DEF ChatLock, ChatLockAgain, LockCache
    <3>4. CASE ChatLook
      <4>1. /\ UNCHANGED <<receiver, is_running, in_chat_mode, current_chat_partner_id>>
            /\ menu = "look"
            /\ LeaveChatMenu \/ (menu' = "prompt" /\ UNCHANGED <<receiver_id, basis, late>>)
        BY <3>4 DEF ChatLook
      <4>2. CASE LeaveChatMenu
        BY <4>1, <4>2 DEF LeaveChatMenu, NoList
      <4>3. CASE menu' = "prompt" /\ UNCHANGED <<receiver_id, basis, late>>
        BY <4>1, <4>3
      <4> QED BY <4>1, <4>2, <4>3
    <3>5. CASE ChatAbandon
      BY <3>5 DEF ChatAbandon, LeaveChatMenu, NoList
    <3>6. CASE ChatValidate
      <4>1. /\ UNCHANGED <<receiver, is_running, in_chat_mode, current_chat_partner_id>>
            /\ menu = "validate"
            /\ \/ LeaveChatMenu
               \/ /\ menu' = "enter" /\ receiver_id' = receiver_id
                  /\ basis' = cached /\ late' \in BOOLEAN
        BY <3>6 DEF ChatValidate
      <4>2. CASE LeaveChatMenu
        BY <4>1, <4>2 DEF LeaveChatMenu, NoList
      <4>3. CASE /\ menu' = "enter" /\ receiver_id' = receiver_id
                 /\ basis' = cached /\ late' \in BOOLEAN
        BY <4>1, <4>3 DEF ReceiverTypes
      <4> QED BY <4>1, <4>2, <4>3
    <3>7. CASE ChatEnter
      BY <3>7 DEF ChatEnter
    <3>8. CASE ChatQuit
      BY <3>8 DEF ChatQuit
    <3>9. CASE ChatLeave
      BY <3>9 DEF ChatLeave, LeaveChatMenu, NoList
    <3>10. CASE \E f \in Friends : ChatChoose(f)
      BY <3>10 DEF ChatChoose
    <3> QED BY <1>3, <3>1, <3>2, <3>3, <3>4, <3>5, <3>6, <3>7, <3>8, <3>9, <3>10
  <2> QED BY <2>3, <2>4, <2>5 DEF Types
<1> QED BY <1>1, <1>2, <1>3 DEF Main

\* A packet that has been handled is an answer, and has a number, or a push.
LEMMA HandledTypes ==
    ASSUME Types, Handled
    PROVE  /\ answers' \in Seq(1..MaxRequests) /\ packet' \in Packets /\ receiver' = "test"
<1>1. packet.type # 2001 => packet.number \in 1..MaxRequests
  BY PacketFacts, ConstantFacts DEF Types, ReceiverTypes
<1>2. answers \in Seq(1..MaxRequests)
  BY DEF Types, ReceiverTypes
<1>3. answers' \in Seq(1..MaxRequests)
  <2>1. CASE packet.type = 2001
    BY <1>2, <2>1 DEF Handled
  <2>2. CASE packet.type # 2001
    <3>1. answers' = Append(answers, packet.number)
      BY <2>2 DEF Handled
    <3> QED BY <1>1, <1>2, <2>2, <3>1, AppendProperties
  <2> QED BY <2>1, <2>2
<1> QED BY <1>3, PacketFacts DEF Handled

LEMMA TypesReceiver ==
    ASSUME Types, Receiver
    PROVE  Types'
<1> USE DEF flags, cache, queues, chat
<1>1. MainTypes'
  <2>1. /\ UNCHANGED <<menu, in_chat_mode, current_chat_partner_id, chat>>
        /\ is_running' \in {is_running, FALSE} /\ receiver # "ended"
    BY DEF Receiver, Test, ReceivePacket, Show, Handled, Disconnected, ListLock, ListFill,
           ListUnlock
  <2> QED BY <2>1 DEF Types, MainTypes
<1>2. ServerTypes'
  <2>1. CASE ReceivePacket
    <3>1. toClient' \in Seq(Packets)
      BY <2>1, HeadTailProperties DEF ReceivePacket, Types, ServerTypes
    <3> QED BY <2>1, <3>1 DEF ReceivePacket, Types, ServerTypes, serverState
  <2>2. CASE ~ ReceivePacket
    <3>1. UNCHANGED <<asked, queues, serverState>>
      BY <2>2 DEF Receiver, Test, Show, Disconnected, ListLock, ListFill, ListUnlock
    <3> QED BY <3>1 DEF Types, ServerTypes, serverState
  <2> QED BY <2>1, <2>2
<1>3. ReceiverTypes'
  <2> USE DEF Types, ReceiverTypes
  <2>1. CASE Test
    BY <2>1 DEF Test
  <2>2. CASE Disconnected
    BY <2>2 DEF Disconnected
  <2>3. CASE ReceivePacket
    <3>1. packet' \in Packets
      BY <2>3, HeadTailProperties DEF ReceivePacket, ServerTypes
    <3> QED BY <2>3, <3>1 DEF ReceivePacket
  <2>4. CASE Show
    <3>1. UNCHANGED <<cache, cached>> /\ Handled
      BY <2>4 DEF Show
    <3>2. answers' \in Seq(1..MaxRequests) /\ packet' \in Packets /\ receiver' = "test"
      BY <3>1, HandledTypes
    <3> QED BY <3>1, <3>2
  <2>5. CASE ListLock
    BY <2>5 DEF ListLock
  <2>6. CASE \E f \in Friends : ListFill(f)
    BY <2>6 DEF ListFill
  <2>7. CASE ListUnlock
    <3>1. /\ UNCHANGED cached_friends /\ Handled /\ mutex' = "free"
          /\ cached' = [number |-> packet.number, friends |-> packet.friends]
      BY <2>7 DEF ListUnlock
    <3>2. packet.number \in 0..MaxRequests /\ packet.friends \in SUBSET Friends
      BY PacketFacts
    <3>3. answers' \in Seq(1..MaxRequests) /\ packet' \in Packets /\ receiver' = "test"
      BY <3>1, HandledTypes
    <3> QED BY <3>1, <3>2, <3>3
  <2> QED BY <2>1, <2>2, <2>3, <2>4, <2>5, <2>6, <2>7 DEF Receiver
<1> QED BY <1>1, <1>2, <1>3 DEF Types

\* Every answer is a packet.
LEMMA AnswerTypes ==
    ASSUME Types, Serve \/ ServeListDenied \/ \E s \in SUBSET Friends : ServeList(s)
    PROVE  \E p \in Packets : p.number = job.number /\ Respond(p)
<1>1. server = "serving"
  BY DEF Serve, ServeListDenied, ServeList
<1>2. job.number \in 1..MaxRequests
  BY <1>1, PacketFacts DEF Types, ServerTypes
<1>3. CASE Serve \/ ServeListDenied
  <2>1. Respond(Reply(job.number))
    BY <1>3 DEF Serve, ServeListDenied
  <2>2. Reply(job.number) \in Packets /\ Reply(job.number).number = job.number
    BY <1>2, PacketFacts DEF Reply
  <2> QED BY <2>1, <2>2
<1>4. ASSUME NEW s \in SUBSET Friends, ServeList(s)
      PROVE  \E p \in Packets : p.number = job.number /\ Respond(p)
  <2>1. Respond(FriendList(job.number, s))
    BY <1>4 DEF ServeList
  <2>2. /\ FriendList(job.number, s) \in Packets
        /\ FriendList(job.number, s).number = job.number
    BY <1>2, PacketFacts DEF FriendList
  <2> QED BY <2>1, <2>2
<1> QED BY <1>3, <1>4

LEMMA TypesServer ==
    ASSUME Types, Server \/ Push \/ ServerCloses \/ UNCHANGED vars
    PROVE  Types'
<1>1. UNCHANGED client
  BY DEF Server, Take, Serve, ServeListDenied, ServeTooLarge, ServeList, Respond, Push,
         ServerCloses, vars, client
<1>2. MainTypes' /\ ReceiverTypes' /\ asked' \in 0..MaxRequests
  BY <1>1 DEF client, flags, cache, chat, Types, MainTypes, ReceiverTypes, ServerTypes
<1>3. ServerTypes'
  <2> USE DEF Types, ServerTypes
  <2>1. CASE Take
    <3>1. job' \in Request /\ toServer' \in Seq(Request)
      BY <2>1, HeadTailProperties DEF Take
    <3> QED BY <1>2, <2>1, <3>1 DEF Take
  <2>2. CASE Serve \/ ServeListDenied \/ \E s \in SUBSET Friends : ServeList(s)
    <3>1. PICK p \in Packets : Respond(p)
      BY <2>2, AnswerTypes
    <3>2. toClient' \in Seq(Packets) /\ server' = "recv" /\ toServer' = toServer
      BY <3>1, AppendProperties DEF Respond, ToClient
    <3>3. session' \in BOOLEAN
      <4>1. CASE Serve
        BY <4>1 DEF Serve
      <4>2. CASE ServeListDenied \/ \E s \in SUBSET Friends : ServeList(s)
        BY <4>2 DEF ServeListDenied, ServeList
      <4> QED BY <2>2, <4>1, <4>2
    <3> QED BY <1>2, <3>2, <3>3
  <2>3. CASE ServeTooLarge
    BY <1>2, <2>3 DEF ServeTooLarge, queues
  <2>4. CASE Push
    <3>1. toClient' \in Seq(Packets)
      BY <2>4, PacketFacts, AppendProperties DEF Push, ToClient
    <3> QED BY <1>2, <2>4, <3>1 DEF Push
  <2>5. CASE ServerCloses
    <3>1. toServer' \in Seq(Request)
      BY <2>5, EmptySeq DEF ServerCloses
    <3> QED BY <1>2, <2>5, <3>1 DEF ServerCloses
  <2>6. CASE UNCHANGED vars
    BY <2>6 DEF vars, queues, serverState
  <2> QED BY <2>1, <2>2, <2>3, <2>4, <2>5, <2>6 DEF Server
<1> QED BY <1>2, <1>3 DEF Types
------------------------------------------------------------------------------
\* The mutex and the cache.

LEMMA CacheStart == Init => MutexHeld /\ CacheFilled
BY DEF Init, MutexHeld, CacheFilled, NoList

LEMMA CacheMain ==
    ASSUME MutexHeld, CacheFilled, Main
    PROVE  MutexHeld' /\ CacheFilled'
<1> USE DEF MutexHeld, CacheFilled, flags, cache
<1>1. CASE \/ \E k \in Kinds \ {"history"} : MenuRequest(k)
           \/ MenuNothing \/ Wake \/ ChatAskList
  BY <1>1 DEF MenuRequest, MenuNothing, Wake, ChatAskList
<1>2. CASE Exit \/ BrokenPipe
  <2>1. Gone
    BY <1>2 DEF Exit, BrokenPipe
  <2> QED BY <2>1 DEF Gone, NoList
<1>3. CASE ChatLock \/ ChatLockAgain
  BY <1>3 DEF ChatLock, ChatLockAgain, LockCache
<1>4. CASE ChatLook \/ ChatValidate
  BY <1>4 DEF ChatLook, ChatValidate, LeaveChatMenu
<1>5. CASE (\E f \in Friends : ChatChoose(f)) \/ ChatAbandon
  BY <1>5 DEF ChatChoose, ChatAbandon, LeaveChatMenu
<1>6. CASE ChatEnter \/ ChatHistory \/ ChatSend \/ ChatQuit \/ ChatLeave
  BY <1>6 DEF ChatEnter, ChatHistory, ChatSend, ChatQuit, ChatLeave, LeaveChatMenu
<1> QED BY <1>1, <1>2, <1>3, <1>4, <1>5, <1>6 DEF Main

LEMMA CacheReceiver ==
    ASSUME MutexHeld, CacheFilled, Receiver
    PROVE  MutexHeld' /\ CacheFilled'
<1> USE DEF MutexHeld, CacheFilled, flags, cache
<1>1. CASE Test \/ ReceivePacket \/ Show \/ Disconnected
  BY <1>1 DEF Test, ReceivePacket, Show, Handled, Disconnected
<1>2. CASE ListLock
  BY <1>2 DEF ListLock
<1>3. CASE \E f \in Friends : ListFill(f)
  BY <1>3 DEF ListFill
<1>4. CASE ListUnlock
  BY <1>4 DEF ListUnlock, Handled
<1> QED BY <1>1, <1>2, <1>3, <1>4 DEF Receiver

\* The server does not see the client's memory.
LEMMA CacheServer ==
    ASSUME MutexHeld, CacheFilled, Server \/ Push \/ ServerCloses \/ UNCHANGED vars
    PROVE  MutexHeld' /\ CacheFilled'
<1>1. UNCHANGED <<menu, receiver, packet, cached_friends, mutex, cached>>
  BY DEF Server, Push, ServerCloses, Take, Serve, ServeListDenied, ServeList,
         ServeTooLarge, Respond, client, cache, vars
<1> QED BY <1>1 DEF MutexHeld, CacheFilled
------------------------------------------------------------------------------
\* The requests on their round.

\* What is handled, and what is in the two pairs of hands.
LEMMA PlaceFacts ==
    ASSUME Types
    PROVE  /\ answers \in Seq(Nat) /\ Numbers(toClient) \in Seq(Nat)
           /\ Numbers(toServer) \in Seq(Nat)
           /\ inHand \in Seq(Nat) /\ inService \in Seq(Nat)
           /\ InTurn(inHand) /\ InTurn(inService)
           /\ held = IF receiver \in InHand THEN {packet.number} \ {0} ELSE {}
           /\ served = IF server = "serving" THEN {job.number} ELSE {}
           /\ server = "serving" => job.number \in Nat \ {0}
           /\ packet.number \in Nat
<1>1. answers \in Seq(Nat)
  <2>1. answers \in Seq(1..MaxRequests) /\ 1..MaxRequests \subseteq Nat
    BY ConstantFacts DEF Types, ReceiverTypes
  <2> QED BY <2>1, SeqMonotonic
<1>2. Numbers(toClient) \in Seq(Nat)
  <2>1. toClient \in Seq(Packets) /\ \A p \in Packets : p.number \in Nat
    BY PacketFacts DEF Types, ServerTypes
  <2> QED BY <2>1, NumbersFacts
<1>3. Numbers(toServer) \in Seq(Nat)
  <2>1. toServer \in Seq(Request) /\ \A p \in Request : p.number \in Nat
    BY PacketFacts DEF Types, ServerTypes
  <2> QED BY <2>1, NumbersFacts
<1>4. packet.number \in Nat
  BY PacketFacts DEF Types, ReceiverTypes
<1>5. server = "serving" => job.number \in Nat \ {0}
  BY PacketFacts DEF Types, ServerTypes
<1>6. /\ inHand \in Seq(Nat) /\ InTurn(inHand)
      /\ held = IF receiver \in InHand THEN {packet.number} \ {0} ELSE {}
  <2>1. CASE receiver \in InHand
    <3>1. inHand = <<packet.number>>
      BY <2>1 DEF inHand, InHand
    <3> QED BY <1>4, <2>1, <3>1, AboutOne DEF held
  <2>2. CASE receiver \notin InHand
    <3>1. inHand = <<>>
      BY <2>2 DEF inHand, InHand
    <3> QED BY <2>2, <3>1, AboutNone DEF held
  <2> QED BY <2>1, <2>2
<1>7. /\ inService \in Seq(Nat) /\ InTurn(inService)
      /\ served = IF server = "serving" THEN {job.number} ELSE {}
  <2>1. CASE server = "serving"
    <3>1. inService = <<job.number>>
      BY <2>1 DEF inService
    <3>2. About(<<job.number>>) = {job.number} \ {0} /\ InTurn(<<job.number>>)
          /\ <<job.number>> \in Seq(Nat)
      BY <1>5, <2>1, AboutOne
    <3>3. {job.number} \ {0} = {job.number}
      BY <1>5, <2>1
    <3> QED BY <2>1, <3>1, <3>2, <3>3 DEF served
  <2>2. CASE server # "serving"
    <3>1. inService = <<>>
      BY <2>2 DEF inService
    <3> QED BY <2>2, <3>1, AboutNone DEF served
  <2> QED BY <2>1, <2>2
<1> QED BY <1>1, <1>2, <1>3, <1>4, <1>5, <1>6, <1>7

\* The moves of a request from place to place, and requests that are lost.
LEMMA ChainMoves ==
    ASSUME NEW H, NEW D, NEW B, NEW S, NEW Q, Chain(H, D, B, S, Q)
    PROVE  /\ Chain(H \cup D, {}, B, S, Q)
           /\ Chain(H, D, B \cup S, {}, Q)
           /\ Chain(H, D, B, {}, Q) /\ Chain(H, D, B, {}, {}) /\ Chain(H, {}, {}, S, Q)
<1>1. Chain(H \cup D, {}, B, S, Q)
  BY DEF Chain, Below
<1>2. Chain(H, D, B \cup S, {}, Q)
  BY DEF Chain, Below
<1>3. Chain(H, D, B, {}, Q) /\ Chain(H, D, B, {}, {}) /\ Chain(H, {}, {}, S, Q)
  BY DEF Chain, Below
<1> QED BY <1>1, <1>2, <1>3

\* An answer is taken off the queue to the client, and a request off the other.
LEMMA ChainHeads ==
    ASSUME NEW H, NEW D, NEW B, NEW S, NEW Q, NEW X, NEW Y, Below(X, Y),
           Chain(H, D, B, S, Q)
    PROVE  /\ B = X \cup Y /\ D = {} => Chain(H, X, Y, S, Q)
           /\ Q = X \cup Y /\ S = {} => Chain(H, D, B, X, Y)
<1>1. ASSUME B = X \cup Y, D = {} PROVE Chain(H, X, Y, S, Q)
  BY <1>1 DEF Chain, Below
<1>2. ASSUME Q = X \cup Y, S = {} PROVE Chain(H, D, B, X, Y)
  BY <1>2 DEF Chain, Below
<1> QED BY <1>1, <1>2

\* A new request is the youngest.
LEMMA ChainNew ==
    ASSUME NEW H, NEW D, NEW B, NEW S, NEW Q, Chain(H, D, B, S, Q), NEW n \in Nat,
           H \cup D \cup B \cup S \cup Q \subseteq 1..n
    PROVE  Chain(H, D, B, S, Q \cup {n + 1}) /\ Below(Q, {n + 1})
<1>1. \A x \in H \cup D \cup B \cup S \cup Q : x < n + 1
  OBVIOUS
<1> QED BY <1>1 DEF Chain, Below

LEMMA OrderedStart == Init => Ordered /\ Complete
<1> SUFFICES ASSUME Init PROVE Ordered /\ Complete
  OBVIOUS
<1>1. Numbers(<<>>) = <<>>
  BY NumbersNone
<1>2. handled = {} /\ back = {} /\ queued = {}
  BY <1>1, AboutNone DEF Init, handled, back, queued
<1>3. held = {} /\ served = {}
  BY AboutNone DEF Init, held, served, inHand, inService
<1>4. Chain({}, {}, {}, {}, {})
  BY DEF Chain, Below
<1>5. round = {}
  BY <1>2, <1>3 DEF round
<1>6. InTurn(answers) /\ InTurn(Numbers(toClient)) /\ InTurn(Numbers(toServer))
  BY <1>1, AboutNone DEF Init
<1>7. asked = 0 /\ dropped = {} /\ 1..0 = {}
  BY DEF Init
<1> QED BY <1>2, <1>3, <1>4, <1>5, <1>6, <1>7 DEF Ordered, Complete

\* Steps that leave every request in its place.
LEMMA OrderedSame ==
    ASSUME Ordered, Complete,
           UNCHANGED <<answers, toClient, toServer, server, job, packet, asked, dropped>>,
           receiver \in InHand <=> receiver' \in InHand,
           receiver' # "ended" => receiver # "ended"
    PROVE  Ordered' /\ Complete'
<1>1. handled' = handled /\ back' = back /\ queued' = queued
  BY DEF handled, back, queued
<1>2. held' = held /\ served' = served
  BY DEF held, served, inHand, inService, InHand
<1>3. round' = round
  BY <1>1, <1>2 DEF round
<1> QED BY <1>1, <1>2, <1>3 DEF Ordered, Complete

LEMMA OrderedAsk ==
    ASSUME Types, Ordered, Complete, NEW k \in Kinds, SendRequest(k),
           UNCHANGED <<answers, receiver, packet, server, job, dropped>>
    PROVE  Ordered' /\ Complete'
<1>1. /\ asked \in Nat /\ asked' = asked + 1 /\ asked + 1 \in 1..MaxRequests
      /\ toClient' = toClient
  BY ConstantFacts DEF SendRequest, Types, ServerTypes
<1>2. handled' = handled /\ back' = back /\ held' = held /\ served' = served
  BY <1>1 DEF handled, back, held, served, inHand, inService
<1>3. 1..asked \subseteq 1..(asked + 1) /\ 1..(asked + 1) = (1..asked) \cup {asked + 1}
      /\ asked + 1 \notin 1..asked
  BY <1>1
<1>4. round \subseteq 1..asked /\ dropped \subseteq 1..asked
  BY DEF Ordered
<1>5. CASE server = "closed"
  <2>1. toServer' = toServer
    BY <1>5 DEF SendRequest
  <2>2. queued' = queued
    BY <2>1 DEF queued
  <2>3. round' = round
    BY <1>2, <2>2 DEF round
  <2>4. Ordered'
    BY <1>1, <1>2, <1>3, <1>4, <2>1, <2>2, <2>3 DEF Ordered
  <2>5. Complete'
    BY <1>5 DEF Complete
  <2> QED BY <2>4, <2>5
<1>6. CASE server # "closed"
  <2>1. PICK r : r = [number |-> asked + 1, kind |-> k]
    OBVIOUS
  <2>2. r \in Request /\ r.number = asked + 1 /\ toServer' = Append(toServer, r)
    BY <1>1, <1>6, <2>1 DEF Request, SendRequest
  <2>3. Numbers(toServer') = Append(Numbers(toServer), asked + 1)
    <3>1. toServer \in Seq(Request) /\ \A p \in Request : p.number \in Nat
      BY PacketFacts DEF Types, ServerTypes
    <3> QED BY <2>2, <3>1, NumbersAppend
  <2>4. Numbers(toServer) \in Seq(Nat) /\ asked + 1 \in Nat
    BY <1>1, PlaceFacts
  <2>5. /\ queued' = queued \cup ({asked + 1} \ {0})
        /\ InTurn(Numbers(toServer')) <=>
              InTurn(Numbers(toServer)) /\ Below(queued, {asked + 1} \ {0})
    BY <2>3, <2>4, AboutAppend DEF queued
  <2>6. {asked + 1} \ {0} = {asked + 1}
    BY <1>1
  <2>7. /\ Chain(handled, held, back, served, queued \cup {asked + 1})
        /\ Below(queued, {asked + 1})
    BY <1>1, ChainNew DEF Ordered, round
  <2>8. round' = round \cup {asked + 1}
    BY <1>2, <2>5, <2>6 DEF round
  <2>9. Ordered'
    BY <1>1, <1>2, <1>3, <1>4, <2>5, <2>6, <2>7, <2>8 DEF Ordered
  <2>10. Complete'
    BY <1>1, <1>3, <1>4, <2>8 DEF Complete
  <2> QED BY <2>9, <2>10
<1> QED BY <1>5, <1>6

\* With the client go the answers it has not handled.
LEMMA OrderedGone ==
    ASSUME Types, Ordered, Gone, UNCHANGED <<asked, toServer, serverState, answers>>
    PROVE  Ordered' /\ Complete'
<1>1. handled' = handled /\ queued' = queued /\ served' = served
  BY DEF handled, queued, served, inService, serverState
<1>2. held' = {}
  BY AboutNone DEF Gone, held, inHand
<1>3. Numbers(toClient') = <<>>
  BY NumbersNone DEF Gone
<1>4. back' = {} /\ InTurn(Numbers(toClient'))
  BY <1>3, AboutNone DEF back
<1>5. Chain(handled, {}, {}, served, queued)
  BY ChainMoves DEF Ordered
<1>6. round' \subseteq round
  BY <1>1, <1>2, <1>4 DEF round
<1>7. Ordered'
  BY <1>1, <1>2, <1>4, <1>5, <1>6 DEF Ordered, serverState
<1>8. Complete'
  BY DEF Complete, Gone
<1> QED BY <1>7, <1>8

LEMMA OrderedReceive ==
    ASSUME Types, Ordered, Complete, ReceivePacket
    PROVE  Ordered' /\ Complete'
<1>1. /\ receiver = "recv" /\ toClient # <<>> /\ receiver' \in {"list", "print"}
      /\ packet' = Head(toClient) /\ toClient' = Tail(toClient)
      /\ UNCHANGED <<answers, toServer, server, job, asked, dropped>>
  BY DEF ReceivePacket, serverState
<1>2. handled' = handled /\ queued' = queued /\ served' = served
  BY <1>1 DEF handled, queued, served, inService
<1>3. held = {}
  BY <1>1, PlaceFacts DEF InHand
<1>4. /\ Numbers(toClient) # <<>> /\ packet'.number = Head(Numbers(toClient))
      /\ Numbers(toClient') = Tail(Numbers(toClient))
  <2>1. toClient \in Seq(Packets) /\ \A p \in Packets : p.number \in Nat
    BY PacketFacts DEF Types, ServerTypes
  <2> QED BY <1>1, <2>1, NumbersTail
<1>5. PICK n : n = packet'.number
  OBVIOUS
<1>6. /\ n \in Nat /\ back = ({n} \ {0}) \cup back'
      /\ InTurn(Numbers(toClient')) /\ Below({n} \ {0}, back')
  <2>1. Numbers(toClient) \in Seq(Nat) /\ InTurn(Numbers(toClient))
    BY PlaceFacts DEF Ordered
  <2> QED BY <1>4, <1>5, <2>1, AboutTail DEF back
<1>7. held' = {n} \ {0}
  <2>1. inHand' = <<n>>
    BY <1>1, <1>5 DEF inHand
  <2> QED BY <1>6, <2>1, AboutOne DEF held
<1>8. Chain(handled, held', back', served, queued)
  <2>1. PICK b : b = back'
    OBVIOUS
  <2>2. Chain(handled, {n} \ {0}, b, served, queued)
    BY <1>3, <1>6, <2>1, ChainHeads DEF Ordered
  <2> QED BY <1>7, <2>1, <2>2
<1>9. round' = round
  BY <1>2, <1>3, <1>6, <1>7 DEF round
<1>10. Ordered'
  BY <1>1, <1>2, <1>6, <1>8, <1>9 DEF Ordered
<1>11. Complete'
  BY <1>1, <1>9 DEF Complete
<1> QED BY <1>10, <1>11

\* What Handled does to the requests.
LEMMA HandledPlaces ==
    ASSUME Types, Ordered, Handled, receiver \in InHand
    PROVE  handled' = handled \cup held /\ held' = {} /\ InTurn(answers')
<1>1. held' = {}
  BY AboutNone DEF Handled, held, inHand
<1>2. answers \in Seq(Nat) /\ packet.number \in Nat /\ held = {packet.number} \ {0}
  BY PlaceFacts
<1>3. CASE packet.type = 2001
  <2>1. packet.number = 0 /\ answers' = answers
    BY <1>3, PacketFacts DEF Handled, Types, ReceiverTypes
  <2>2. held = {}
    BY <1>2, <2>1
  <2> QED BY <1>1, <2>1, <2>2 DEF Ordered, handled
<1>4. CASE packet.type # 2001
  <2>1. answers' = Append(answers, packet.number)
    BY <1>4 DEF Handled
  <2>2. /\ About(answers') = handled \cup held
        /\ InTurn(answers') <=> InTurn(answers) /\ Below(handled, held)
    BY <1>2, <2>1, AboutAppend DEF handled
  <2>3. Below(handled, held)
    BY DEF Ordered, Chain, Below
  <2> QED BY <1>1, <2>2, <2>3 DEF Ordered, handled
<1> QED BY <1>3, <1>4

LEMMA OrderedHandled ==
    ASSUME Types, Ordered, Complete, Handled, receiver \in InHand,
           UNCHANGED <<toClient, toServer, server, job, asked, dropped>>
    PROVE  Ordered' /\ Complete'
<1>1. handled' = handled \cup held /\ held' = {} /\ InTurn(answers')
  BY HandledPlaces
<1>2. back' = back /\ queued' = queued /\ served' = served
  BY DEF back, queued, served, inService
<1>3. Chain(handled \cup held, {}, back, served, queued)
  BY ChainMoves DEF Ordered
<1>4. round' = round
  BY <1>1, <1>2 DEF round
<1>5. Ordered'
  BY <1>1, <1>2, <1>3, <1>4 DEF Ordered
<1>6. Complete'
  BY <1>4 DEF Complete, InHand
<1> QED BY <1>5, <1>6

LEMMA OrderedReceiver ==
    ASSUME Types, Ordered, Complete, Receiver
    PROVE  Ordered' /\ Complete'
<1>1. CASE Test \/ Disconnected \/ ListLock \/ \E f \in Friends : ListFill(f)
  <2>1. /\ UNCHANGED <<answers, toClient, toServer, server, job, packet, asked, dropped>>
        /\ receiver \in InHand <=> receiver' \in InHand
        /\ receiver # "ended"
    BY <1>1 DEF Test, Disconnected, ListLock, ListFill, queues, serverState, InHand
  <2> QED BY <2>1, OrderedSame
<1>2. CASE ReceivePacket
  BY <1>2, OrderedReceive
<1>3. CASE Show \/ ListUnlock
  <2>1. /\ Handled /\ receiver \in InHand
        /\ UNCHANGED <<toClient, toServer, server, job, asked, dropped>>
    BY <1>3 DEF Show, ListUnlock, queues, serverState, InHand
  <2> QED BY <2>1, OrderedHandled
<1> QED BY <1>1, <1>2, <1>3 DEF Receiver

LEMMA OrderedMain ==
    ASSUME Types, Ordered, Complete, Main
    PROVE  Ordered' /\ Complete'
<1>1. CASE \/ \E k \in Kinds \ {"history"} : MenuRequest(k)
           \/ ChatAskList \/ ChatHistory \/ ChatSend
  <2>1. PICK k \in Kinds : SendRequest(k)
    BY <1>1 DEF MenuRequest, ChatAskList, ChatHistory, ChatSend, Kinds
  <2>2. UNCHANGED <<answers, receiver, packet, server, job, dropped>>
    BY <1>1 DEF MenuRequest, ChatAskList, ChatHistory, ChatSend, serverState
  <2> QED BY <2>1, <2>2, OrderedAsk
<1>2. CASE Exit \/ BrokenPipe
  BY <1>2, OrderedGone DEF Exit, BrokenPipe
<1>3. CASE MenuNothing \/ Wake \/ ChatLock \/ ChatLook \/ ChatAbandon \/ ChatLockAgain
           \/ ChatValidate \/ ChatEnter \/ ChatQuit \/ ChatLeave
           \/ \E f \in Friends : ChatChoose(f)
  <2>1. UNCHANGED <<answers, toClient, toServer, server, job, packet, receiver, asked, dropped>>
    BY <1>3 DEF MenuNothing, Wake, ChatLock, ChatLook, ChatAbandon, ChatLockAgain, LockCache,
                ChatValidate, ChatEnter, ChatQuit, ChatLeave, ChatChoose, queues, serverState
  <2> QED BY <2>1, OrderedSame
<1> QED BY <1>1, <1>2, <1>3 DEF Main

LEMMA OrderedTake ==
    ASSUME Types, Ordered, Complete, Take
    PROVE  Ordered' /\ Complete'
<1>1. /\ server = "recv" /\ toServer # <<>> /\ server' = "serving"
      /\ job' = Head(toServer) /\ toServer' = Tail(toServer)
      /\ UNCHANGED <<answers, toClient, receiver, packet, asked, dropped>>
  BY DEF Take, client
<1>2. handled' = handled /\ back' = back /\ held' = held
  BY <1>1 DEF handled, back, held, inHand
<1>3. served = {}
  BY <1>1, PlaceFacts
<1>4. /\ Numbers(toServer) # <<>> /\ job'.number = Head(Numbers(toServer))
      /\ Numbers(toServer') = Tail(Numbers(toServer))
  <2>1. toServer \in Seq(Request) /\ \A p \in Request : p.number \in Nat
    BY PacketFacts DEF Types, ServerTypes
  <2> QED BY <1>1, <2>1, NumbersTail
<1>5. PICK n : n = job'.number
  OBVIOUS
<1>6. /\ n \in Nat /\ queued = ({n} \ {0}) \cup queued'
      /\ InTurn(Numbers(toServer')) /\ Below({n} \ {0}, queued')
  <2>1. Numbers(toServer) \in Seq(Nat) /\ InTurn(Numbers(toServer))
    BY PlaceFacts DEF Ordered
  <2> QED BY <1>4, <1>5, <2>1, AboutTail DEF queued
<1>7. served' = {n} \ {0}
  <2>1. inService' = <<n>>
    BY <1>1, <1>5 DEF inService
  <2> QED BY <1>6, <2>1, AboutOne DEF served
<1>8. Chain(handled, held, back, served', queued')
  <2>1. PICK q : q = queued'
    OBVIOUS
  <2>2. Chain(handled, held, back, {n} \ {0}, q)
    BY <1>3, <1>6, <2>1, ChainHeads DEF Ordered
  <2> QED BY <1>7, <2>1, <2>2
<1>9. round' = round
  BY <1>2, <1>3, <1>6, <1>7 DEF round
<1>10. Ordered'
  BY <1>1, <1>2, <1>6, <1>8, <1>9 DEF Ordered
<1>11. Complete'
  BY <1>1, <1>9 DEF Complete
<1> QED BY <1>10, <1>11

\* A packet is sent to the client, or lost.
LEMMA ToClientPlaces ==
    ASSUME Types, NEW p \in Packets, ToClient(p)
    PROVE  /\ menu = "ended" => back' = back /\ Numbers(toClient') = Numbers(toClient)
           /\ menu # "ended" =>
                 /\ back' = back \cup ({p.number} \ {0})
                 /\ InTurn(Numbers(toClient')) <=>
                       InTurn(Numbers(toClient)) /\ Below(back, {p.number} \ {0})
<1>1. CASE menu = "ended"
  BY <1>1 DEF ToClient, back
<1>2. CASE menu # "ended"
  <2>1. toClient' = Append(toClient, p)
    BY <1>2 DEF ToClient
  <2>2. toClient \in Seq(Packets) /\ \A r \in Packets : r.number \in Nat
    BY PacketFacts DEF Types, ServerTypes
  <2>3. Numbers(toClient') = Append(Numbers(toClient), p.number)
    BY <2>1, <2>2, NumbersAppend
  <2>4. Numbers(toClient) \in Seq(Nat) /\ p.number \in Nat
    BY <2>2, PlaceFacts
  <2> QED BY <1>2, <2>3, <2>4, AboutAppend DEF back
<1> QED BY <1>1, <1>2

LEMMA OrderedRespond ==
    ASSUME Types, Ordered, Complete, server = "serving",
           NEW p \in Packets, p.number = job.number, Respond(p)
    PROVE  Ordered' /\ Complete'
<1>1. /\ ToClient(p) /\ server' = "recv"
      /\ UNCHANGED <<menu, answers, receiver, packet, asked, toServer, dropped>>
  BY DEF Respond, client
<1>2. handled' = handled /\ held' = held /\ queued' = queued
  BY <1>1 DEF handled, held, inHand, queued
<1>3. served' = {}
  BY <1>1, AboutNone DEF served, inService
<1>4. served = {p.number} \ {0}
  BY PlaceFacts
<1>5. CASE menu = "ended"
  <2>1. back' = back /\ Numbers(toClient') = Numbers(toClient)
    BY <1>1, <1>5, ToClientPlaces
  <2>2. Chain(handled, held, back, {}, queued)
    BY ChainMoves DEF Ordered
  <2>3. round' \subseteq round
    BY <1>2, <1>3, <2>1 DEF round
  <2>4. Ordered'
    BY <1>1, <1>2, <1>3, <2>1, <2>2, <2>3 DEF Ordered
  <2>5. Complete'
    BY <1>1, <1>5 DEF Complete, Types, MainTypes
  <2> QED BY <2>4, <2>5
<1>6. CASE menu # "ended"
  <2>1. /\ back' = back \cup served
        /\ InTurn(Numbers(toClient')) <=> InTurn(Numbers(toClient)) /\ Below(back, served)
    BY <1>1, <1>4, <1>6, ToClientPlaces
  <2>2. Chain(handled, held, back \cup served, {}, queued)
    BY ChainMoves DEF Ordered
  <2>3. Below(back, served)
    BY DEF Ordered, Chain, Below
  <2>4. round' = round
    BY <1>2, <1>3, <2>1 DEF round
  <2>5. Ordered'
    BY <1>1, <1>2, <1>3, <2>1, <2>2, <2>3, <2>4 DEF Ordered
  <2>6. Complete'
    BY <1>1, <2>4 DEF Complete
  <2> QED BY <2>5, <2>6
<1> QED BY <1>5, <1>6

LEMMA OrderedTooLarge ==
    ASSUME Types, Ordered, Complete, ServeTooLarge
    PROVE  Ordered' /\ Complete'
<1>1. /\ server = "serving" /\ server' = "recv" /\ dropped' = dropped \cup {job.number}
      /\ UNCHANGED <<answers, receiver, packet, asked, toClient, toServer>>
  BY DEF ServeTooLarge, client, queues
<1>2. handled' = handled /\ back' = back /\ held' = held /\ queued' = queued
  BY <1>1 DEF handled, back, held, inHand, queued
<1>3. served' = {}
  BY <1>1, AboutNone DEF served, inService
<1>4. served = {job.number}
  BY <1>1, PlaceFacts
<1>5. Chain(handled, held, back, {}, queued)
  BY ChainMoves DEF Ordered
<1>6. round \subseteq 1..asked /\ dropped \subseteq 1..asked
  BY DEF Ordered
<1>7. round' \subseteq round /\ dropped' \subseteq 1..asked
  BY <1>1, <1>2, <1>3, <1>4, <1>6 DEF round
<1>8. Ordered'
  BY <1>1, <1>2, <1>3, <1>5, <1>6, <1>7 DEF Ordered
<1>9. Complete'
  <2>1. job.number \notin round'
    <3>1. Below(handled \cup held \cup back, {job.number}) /\ Below({job.number}, queued)
      BY <1>4 DEF Ordered, Chain, Below
    <3>2. \A x \in round' : x < job.number \/ job.number < x
      BY <1>2, <1>3, <3>1 DEF round, Below
    <3>3. job.number \in Nat
      BY <1>1, PlaceFacts
    <3> QED BY <3>2, <3>3
  <2>2. round = round' \cup {job.number}
    BY <1>2, <1>3, <1>4 DEF round
  <2> QED BY <1>1, <2>1, <2>2 DEF Complete
<1> QED BY <1>8, <1>9

LEMMA OrderedPush ==
    ASSUME Types, Ordered, Complete, Push
    PROVE  Ordered' /\ Complete'
<1>1. /\ ToClient(Pushed)
      /\ UNCHANGED <<answers, receiver, packet, asked, toServer, server, job, dropped>>
  BY DEF Push, client
<1>2. handled' = handled /\ held' = held /\ queued' = queued /\ served' = served
  BY <1>1 DEF handled, held, inHand, queued, served, inService
<1>3. Pushed \in Packets /\ {Pushed.number} \ {0} = {}
  BY PacketFacts DEF Pushed
<1>4. Below(back, {})
  BY DEF Below
<1>5. back' = back /\ (InTurn(Numbers(toClient)) => InTurn(Numbers(toClient')))
  BY <1>1, <1>3, <1>4, ToClientPlaces
<1>6. round' = round
  BY <1>2, <1>5 DEF round
<1> QED BY <1>1, <1>2, <1>5, <1>6 DEF Ordered, Complete

LEMMA OrderedClose ==
    ASSUME Types, Ordered, Complete, ServerCloses
    PROVE  Ordered' /\ Complete'
<1>1. /\ server' = "closed" /\ toServer' = <<>>
      /\ UNCHANGED <<answers, receiver, packet, asked, toClient, dropped>>
  BY DEF ServerCloses, client
<1>2. handled' = handled /\ held' = held /\ back' = back
  BY <1>1 DEF handled, held, inHand, back
<1>3. served' = {}
  BY <1>1, AboutNone DEF served, inService
<1>4. queued' = {} /\ InTurn(Numbers(toServer'))
  BY <1>1, NumbersNone, AboutNone DEF queued
<1>5. Chain(handled, held, back, {}, {})
  BY ChainMoves DEF Ordered
<1>6. round' \subseteq round
  BY <1>2, <1>3, <1>4 DEF round
<1> QED BY <1>1, <1>2, <1>3, <1>4, <1>5, <1>6 DEF Ordered, Complete

LEMMA OrderedServer ==
    ASSUME Types, Ordered, Complete, Server \/ Push \/ ServerCloses \/ UNCHANGED vars
    PROVE  Ordered' /\ Complete'
<1>1. CASE Serve \/ ServeListDenied \/ \E s \in SUBSET Friends : ServeList(s)
  <2>1. server = "serving"
    BY <1>1 DEF Serve, ServeListDenied, ServeList
  <2> QED BY <1>1, <2>1, AnswerTypes, OrderedRespond
<1>2. CASE UNCHANGED vars
  BY <1>2, OrderedSame DEF vars, queues, serverState
<1>3. CASE Take
  BY <1>3, OrderedTake
<1>4. CASE ServeTooLarge
  BY <1>4, OrderedTooLarge
<1>5. CASE Push \/ ServerCloses
  BY <1>5, OrderedPush, OrderedClose
<1> QED BY <1>1, <1>2, <1>3, <1>4, <1>5 DEF Server
------------------------------------------------------------------------------
\* The request for the list.

LEMMA ListStart == Init => ListOrRefusal
BY DEF Init, ListOrRefusal, Asking

\* Steps that leave it, and what comes to it, where it is.
LEMMA ListSame ==
    ASSUME ListOrRefusal, Asking' => Asking,
           UNCHANGED <<chatAsk, asked, toServer, toClient, server, job, packet, refused,
                       answers, cached>>,
           receiver' \in InHand => receiver \in InHand
    PROVE  ListOrRefusal'
<1>1. SUFFICES ASSUME Asking'
               PROVE  ListOrRefusal'
  BY DEF ListOrRefusal
<1>2. handled' = handled
  BY DEF handled
<1> QED BY <1>1, <1>2 DEF ListOrRefusal

\* The numbers in a place, as the sets of requests say.
LEMMA NumbersOnRound ==
    ASSUME Types, Ordered
    PROVE  /\ \A i \in 1..Len(toServer) : toServer[i].number \in queued
           /\ \A i \in 1..Len(toClient) : toClient[i].number \in back \cup {0}
           /\ server = "serving" => job.number \in served
           /\ receiver \in InHand => packet.number \in held \cup {0}
           /\ round \subseteq 1..asked /\ asked \in Nat
<1>1. toServer \in Seq(Request) /\ \A p \in Request : p.number \in Nat \ {0}
  BY PacketFacts DEF Types, ServerTypes
<1>2. toClient \in Seq(Packets) /\ \A p \in Packets : p.number \in Nat
  BY PacketFacts DEF Types, ServerTypes
<1>3. /\ Numbers(toServer) \in Seq(Nat) /\ Len(Numbers(toServer)) = Len(toServer)
      /\ \A i \in 1..Len(toServer) : toServer[i] \in Request
                                     /\ Numbers(toServer)[i] = toServer[i].number
  BY <1>1, NumbersFacts
<1>4. /\ Numbers(toClient) \in Seq(Nat) /\ Len(Numbers(toClient)) = Len(toClient)
      /\ \A i \in 1..Len(toClient) : Numbers(toClient)[i] = toClient[i].number
  BY <1>2, NumbersFacts
<1>5. ASSUME NEW i \in 1..Len(toServer) PROVE toServer[i].number \in queued
  <2>1. \A x : x \in queued <=>
           \E j \in 1..Len(Numbers(toServer)) : Numbers(toServer)[j] = x /\ x # 0
    BY <1>3, AboutIs DEF queued
  <2>2. toServer[i].number # 0
    BY <1>1, <1>3
  <2> QED BY <1>3, <2>1, <2>2
<1>6. ASSUME NEW i \in 1..Len(toClient) PROVE toClient[i].number \in back \cup {0}
  <2>1. \A x : x \in back <=>
           \E j \in 1..Len(Numbers(toClient)) : Numbers(toClient)[j] = x /\ x # 0
    BY <1>4, AboutIs DEF back
  <2> QED BY <1>4, <2>1
<1>7. asked \in Nat
  BY ConstantFacts DEF Types, ServerTypes
<1> QED BY <1>5, <1>6, <1>7, PlaceFacts DEF Ordered

\* The chat menu asks: nothing on the round is as young.
LEMMA ListAsked ==
    ASSUME Types, Ordered, ChatAskList
    PROVE  ListOrRefusal'
<1>1. /\ asked' = asked + 1 /\ chatAsk' = asked + 1 /\ asked + 1 \in 1..MaxRequests
      /\ UNCHANGED <<toClient, server, job, receiver, packet, refused, answers, cached>>
      /\ toServer' = toServer \/ toServer' = Append(toServer, [number |-> asked + 1, kind |-> "list"])
  BY ConstantFacts DEF ChatAskList, SendRequest, serverState, Types, ServerTypes
<1>2. /\ \A i \in 1..Len(toServer) : toServer[i].number # asked + 1
      /\ \A i \in 1..Len(toClient) : toClient[i].number # asked + 1
      /\ server = "serving" => job.number # asked + 1
      /\ receiver \in InHand => packet.number # asked + 1
      /\ asked + 1 \notin handled
  <2>1. asked + 1 \notin 1..asked /\ asked + 1 # 0
    BY NumbersOnRound
  <2>2. asked + 1 \notin queued \cup (back \cup {0}) \cup served \cup (held \cup {0}) \cup handled
    BY <2>1, NumbersOnRound DEF round
  <2> QED BY <2>2, NumbersOnRound
<1>3. \A i \in 1..Len(toServer') :
         toServer'[i].number = asked + 1 => toServer'[i].kind = "list"
  <2>1. CASE toServer' = toServer
    BY <1>2, <2>1
  <2>2. CASE toServer' = Append(toServer, [number |-> asked + 1, kind |-> "list"])
    <3>1. PICK r : r = [number |-> asked + 1, kind |-> "list"]
      OBVIOUS
    <3>2. r \in Request /\ toServer \in Seq(Request) /\ r.kind = "list"
      BY <1>1, <3>1 DEF Request, Kinds, Types, ServerTypes
    <3>3. /\ Len(toServer') = Len(toServer) + 1 /\ toServer'[Len(toServer) + 1] = r
          /\ \A i \in 1..Len(toServer) : toServer'[i] = toServer[i]
      BY <2>2, <3>1, <3>2, AppendProperties
    <3>4. Len(toServer) \in Nat
      BY <3>2, LenProperties
    <3>5. \A i \in 1..Len(toServer') : i \in 1..Len(toServer) \/ i = Len(toServer) + 1
      BY <3>3, <3>4
    <3> QED BY <1>2, <3>2, <3>3, <3>5
  <2> QED BY <1>1, <2>1, <2>2
<1>4. handled' = handled
  BY <1>1 DEF handled
<1>5. asked + 1 > 0
  BY <1>1
<1> QED BY <1>1, <1>2, <1>3, <1>4, <1>5 DEF ListOrRefusal

LEMMA ListMain ==
    ASSUME Types, Ordered, ListOrRefusal, Main
    PROVE  ListOrRefusal'
<1> USE DEF flags, cache, queues, chat, serverState
<1>1. CASE ChatAskList
  BY <1>1, ListAsked
<1>2. CASE \/ \E k \in Kinds \ {"history"} : MenuRequest(k)
           \/ ChatHistory \/ ChatSend \/ Exit \/ BrokenPipe
           \/ MenuNothing \/ Wake \/ ChatAbandon \/ ChatEnter \/ ChatQuit \/ ChatLeave
  <2>1. ~ Asking'
    BY <1>2 DEF MenuRequest, ChatHistory, ChatSend, Exit, BrokenPipe, Gone, MenuNothing, Wake,
                ChatAbandon, ChatEnter, ChatQuit, ChatLeave, LeaveChatMenu, Asking
  <2> QED BY <2>1 DEF ListOrRefusal
<1>3. CASE ChatLock \/ ChatLockAgain \/ ChatLook \/ ChatValidate \/ \E f \in Friends : ChatChoose(f)
  <2>1. /\ UNCHANGED <<asked, toServer, toClient, server, job, packet, receiver, refused,
                       answers, cached>>
        /\ Asking
    BY <1>3 DEF ChatLock, ChatLockAgain, LockCache, ChatLook, ChatValidate, ChatChoose, Asking
  <2>2. Asking' => chatAsk' = chatAsk
    BY <1>3 DEF ChatLock, ChatLockAgain, LockCache, ChatLook, ChatValidate, ChatChoose, Asking,
                LeaveChatMenu
  <2>3. CASE chatAsk' = chatAsk
    BY <2>1, <2>3, ListSame
  <2>4. CASE ~ Asking'
    BY <2>4 DEF ListOrRefusal
  <2> QED BY <2>2, <2>3, <2>4
<1> QED BY <1>1, <1>2, <1>3 DEF Main

LEMMA ListReceiver ==
    ASSUME Types, Ordered, ListOrRefusal, Receiver
    PROVE  ListOrRefusal'
<1> USE DEF flags, cache, queues, chat, serverState
<1>1. CASE Test \/ Disconnected \/ ListLock \/ \E f \in Friends : ListFill(f)
  <2>1. /\ UNCHANGED <<menu, chatAsk, asked, toServer, toClient, server, job, packet, refused,
                       answers, cached>>
        /\ receiver' \in InHand => receiver \in InHand
    BY <1>1 DEF Test, Disconnected, ListLock, ListFill, InHand
  <2>2. Asking' => Asking
    BY <2>1 DEF Asking
  <2> QED BY <2>1, <2>2, ListSame
<1>2. CASE ReceivePacket
  <2>1. /\ UNCHANGED <<menu, chatAsk, asked, toServer, server, job, refused, answers, cached>>
        /\ toClient # <<>> /\ packet' = Head(toClient) /\ toClient' = Tail(toClient)
    BY <1>2 DEF ReceivePacket
  <2>2. SUFFICES ASSUME Asking
                 PROVE  ListOrRefusal'
    BY <2>1 DEF ListOrRefusal, Asking
  <2>3. /\ packet' = toClient[1] /\ 1 \in 1..Len(toClient)
        /\ \A i \in 1..Len(toClient') : i + 1 \in 1..Len(toClient)
                                        /\ toClient'[i] = toClient[i + 1]
    <3>1. toClient \in Seq(Packets)
      BY DEF Types, ServerTypes
    <3>2. /\ Len(Tail(toClient)) = Len(toClient) - 1 /\ Len(toClient) \in Nat \ {0}
          /\ \A i \in 1..Len(Tail(toClient)) : Tail(toClient)[i] = toClient[i + 1]
          /\ Head(toClient) = toClient[1]
      BY <2>1, <3>1, HeadTailProperties, EmptySeq
    <3> QED BY <2>1, <3>2
  <2>4. handled' = handled
    BY <2>1 DEF handled
  <2>5. \A i \in 1..Len(toClient) :
           toClient[i].number = asked => toClient[i].type = 2004 \/ asked \in refused
    BY <2>2 DEF ListOrRefusal
  <2> QED BY <2>1, <2>2, <2>3, <2>4, <2>5 DEF ListOrRefusal
<1>3. CASE Show \/ ListUnlock
  <2>1. /\ UNCHANGED <<menu, chatAsk, asked, toServer, toClient, server, job, refused>>
        /\ Handled /\ receiver \in InHand
    BY <1>3 DEF Show, ListUnlock, InHand
  <2>2. SUFFICES ASSUME Asking
                 PROVE  ListOrRefusal'
    BY <2>1 DEF ListOrRefusal, Asking
  <2>3. receiver' \notin InHand
    BY <2>1 DEF Handled, InHand
  <2>4. handled' = handled \cup held /\ held \subseteq {packet.number}
    BY <2>1, HandledPlaces, PlaceFacts
  <2>5. ASSUME asked \in handled'
        PROVE  cached'.number = asked \/ asked \in refused
    <3>1. CASE Show
      <4>1. cached' = cached /\ packet.type # 2004
        BY <3>1 DEF Show, Types, ReceiverTypes
      <4> QED BY <2>1, <2>2, <2>4, <2>5, <4>1 DEF ListOrRefusal
    <3>2. CASE ListUnlock
      <4>1. cached'.number = packet.number /\ packet.type = 2004 /\ packet \in Packets
        BY <3>2 DEF ListUnlock, Types, ReceiverTypes
      <4>2. packet.number \in held
        BY <2>1, <4>1, NumbersOnRound, PacketFacts
      <4>3. asked \notin handled
        <5>1. packet.number \in 1..asked /\ asked \in Nat
          BY <4>2, NumbersOnRound DEF round
        <5>2. ~ (asked < packet.number)
          BY <5>1
        <5> QED BY <4>2, <5>2 DEF Ordered, Chain, Below
      <4> QED BY <2>4, <2>5, <4>1, <4>3
    <3> QED BY <1>3, <3>1, <3>2
  <2> QED BY <2>1, <2>2, <2>3, <2>5 DEF ListOrRefusal
<1> QED BY <1>1, <1>2, <1>3 DEF Receiver

\* An answer to the request for the list is a list, or counted as a refusal.
LEMMA ListRespond ==
    ASSUME Types, ListOrRefusal, Asking, NEW p \in Packets, ToClient(p),
           p.number = asked => p.type = 2004 \/ asked \in refused',
           refused \subseteq refused',
           UNCHANGED <<menu, chatAsk, asked, toServer, receiver, packet, answers, cached>>,
           server' = "serving" => server = "serving" /\ job' = job
    PROVE  ListOrRefusal'
<1>1. \A i \in 1..Len(toClient) :
         toClient[i].number = asked => toClient[i].type = 2004 \/ asked \in refused'
  BY DEF ListOrRefusal
<1>2. \A i \in 1..Len(toClient') :
         toClient'[i].number = asked => toClient'[i].type = 2004 \/ asked \in refused'
  <2>1. CASE toClient' = toClient
    BY <1>1, <2>1
  <2>2. CASE toClient' = Append(toClient, p)
    <3>1. toClient \in Seq(Packets)
      BY DEF Types, ServerTypes
    <3>2. /\ Len(toClient') = Len(toClient) + 1 /\ toClient'[Len(toClient) + 1] = p
          /\ \A i \in 1..Len(toClient) : toClient'[i] = toClient[i]
      BY <2>2, <3>1, AppendProperties
    <3>3. Len(toClient) \in Nat
      BY <3>1, LenProperties
    <3>4. \A i \in 1..Len(toClient') : i \in 1..Len(toClient) \/ i = Len(toClient) + 1
      BY <3>2, <3>3
    <3> QED BY <1>1, <3>2, <3>4
  <2> QED BY <2>1, <2>2 DEF ToClient
<1>3. handled' = handled
  BY DEF handled
<1>4. /\ chatAsk = asked /\ asked > 0
      /\ \A i \in 1..Len(toServer) : toServer[i].number = asked => toServer[i].kind = "list"
      /\ server = "serving" /\ job.number = asked => job.kind = "list"
  BY DEF ListOrRefusal
<1>5. /\ receiver \in InHand /\ packet.number = asked
            => packet.type = 2004 \/ asked \in refused'
      /\ asked \in handled => cached.number = asked \/ asked \in refused'
  BY DEF ListOrRefusal
<1> QED BY <1>2, <1>3, <1>4, <1>5 DEF ListOrRefusal

LEMMA ListServer ==
    ASSUME Types, ListOrRefusal, Server \/ Push \/ ServerCloses \/ UNCHANGED vars
    PROVE  ListOrRefusal'
<1>1. UNCHANGED <<menu, receiver, packet, asked, chatAsk, answers, cached>>
  BY DEF Server, Take, Serve, ServeListDenied, ServeTooLarge, ServeList, Respond, Push,
         ServerCloses, vars, client, chat
<1>2. SUFFICES ASSUME Asking
               PROVE  ListOrRefusal'
  BY <1>1 DEF ListOrRefusal, Asking
<1>3. handled' = handled
  BY <1>1 DEF handled
<1>4. CASE Take
  <2>1. /\ UNCHANGED <<toClient, refused>> /\ toServer # <<>>
        /\ job' = Head(toServer) /\ toServer' = Tail(toServer)
    BY <1>4 DEF Take
  <2>2. /\ job' = toServer[1] /\ 1 \in 1..Len(toServer)
        /\ \A i \in 1..Len(toServer') : i + 1 \in 1..Len(toServer)
                                        /\ toServer'[i] = toServer[i + 1]
    <3>1. toServer \in Seq(Request)
      BY DEF Types, ServerTypes
    <3>2. /\ Len(Tail(toServer)) = Len(toServer) - 1 /\ Len(toServer) \in Nat \ {0}
          /\ \A i \in 1..Len(Tail(toServer)) : Tail(toServer)[i] = toServer[i + 1]
          /\ Head(toServer) = toServer[1]
      BY <2>1, <3>1, HeadTailProperties, EmptySeq
    <3> QED BY <2>1, <3>2
  <2>3. \A i \in 1..Len(toServer) : toServer[i].number = asked => toServer[i].kind = "list"
    BY <1>2 DEF ListOrRefusal
  <2> QED BY <1>1, <1>2, <1>3, <2>1, <2>2, <2>3 DEF ListOrRefusal
<1>5. CASE Serve \/ ServeListDenied \/ \E s \in SUBSET Friends : ServeList(s)
  <2>1. /\ server = "serving" /\ server' = "recv" /\ UNCHANGED toServer
        /\ refused \subseteq refused'
    BY <1>5 DEF Serve, ServeListDenied, ServeList, Respond
  <2>2. PICK p \in Packets :
           /\ ToClient(p)
           /\ p.number = asked => p.type = 2004 \/ asked \in refused'
    <3>1. job.number \in 1..MaxRequests
      BY <2>1, PacketFacts DEF Types, ServerTypes
    <3>2. CASE Serve
      <4>1. ToClient(Reply(job.number)) /\ Reply(job.number).number = job.number
            /\ job.kind # "list"
        BY <3>2 DEF Serve, Respond, Reply
      <4>2. Reply(job.number) \in Packets
        BY <3>1, PacketFacts
      <4> QED BY <1>2, <2>1, <4>1, <4>2 DEF ListOrRefusal
    <3>3. CASE ServeListDenied
      <4>1. ToClient(Reply(job.number)) /\ Reply(job.number).number = job.number
            /\ job.number \in refused'
        BY <3>3 DEF ServeListDenied, Respond, Reply
      <4>2. Reply(job.number) \in Packets
        BY <3>1, PacketFacts
      <4> QED BY <4>1, <4>2
    <3>4. CASE \E s \in SUBSET Friends : ServeList(s)
      <4>1. PICK s \in SUBSET Friends : ServeList(s)
        BY <3>4
      <4>2. ToClient(FriendList(job.number, s)) /\ FriendList(job.number, s).type = 2004
        BY <4>1 DEF ServeList, Respond, FriendList
      <4>3. FriendList(job.number, s) \in Packets
        BY <3>1, PacketFacts
      <4> QED BY <4>2, <4>3
    <3> QED BY <1>5, <3>2, <3>3, <3>4
  <2> QED BY <1>1, <1>2, <2>1, <2>2, ListRespond
<1>6. CASE Push
  <2>1. /\ ToClient(Pushed) /\ UNCHANGED <<toServer, server, job, refused>>
    BY <1>6 DEF Push
  <2>2. Pushed \in Packets /\ Pushed.number # asked
    BY <1>2, PacketFacts DEF Pushed, ListOrRefusal
  <2> QED BY <1>1, <1>2, <2>1, <2>2, ListRespond
<1>7. CASE ServeTooLarge
  <2>1. UNCHANGED <<toServer, toClient, refused>> /\ server' = "recv"
    BY <1>7 DEF ServeTooLarge, queues
  <2> QED BY <1>1, <1>2, <1>3, <2>1 DEF ListOrRefusal
<1>8. CASE ServerCloses
  <2>1. UNCHANGED <<toClient, refused>> /\ server' = "closed" /\ toServer' = <<>>
    BY <1>8 DEF ServerCloses
  <2>2. \A i \in 1..Len(toServer') : FALSE
    BY <2>1, EmptySeq
  <2> QED BY <1>1, <1>2, <1>3, <2>1, <2>2 DEF ListOrRefusal
<1>9. CASE UNCHANGED vars
  BY <1>2, <1>3, <1>9 DEF vars, queues, serverState, chat, ListOrRefusal
<1> QED BY <1>4, <1>5, <1>6, <1>7, <1>8, <1>9 DEF Server

\* What the chat menu found when it looked the friend up stays so.
LEMMA StaleMain ==
    ASSUME Types, MutexHeld, CacheFilled, ListOrRefusal, StaleOnlyIfUnanswered, Main
    PROVE  StaleOnlyIfUnanswered'
<1> USE DEF flags, cache, queues, chat, serverState
<1>1. CASE ChatValidate
  <2>1. /\ menu = "validate" /\ UNCHANGED <<refused, dropped>>
        /\ \/ menu' = "pause"
           \/ /\ menu' = "enter" /\ receiver_id \in cached_friends
              /\ basis' = cached /\ late' = ~ Contains(answers, chatAsk)
              /\ UNCHANGED <<receiver_id, chatAsk>>
    BY <1>1 DEF ChatValidate, LeaveChatMenu
  <2>2. cached_friends = cached.friends
    BY <2>1 DEF MutexHeld, CacheFilled
  <2>3. ASSUME Contains(answers, chatAsk)
        PROVE  cached.number = chatAsk \/ chatAsk \in refused
    <3>1. /\ chatAsk = asked /\ asked > 0
          /\ asked \in handled => cached.number = asked \/ asked \in refused
      BY <2>1 DEF ListOrRefusal, Asking
    <3>2. \E i \in 1..Len(answers) : answers[i] = asked
      BY <2>3, <3>1 DEF Contains
    <3>3. \A x : x \in handled <=> \E i \in 1..Len(answers) : answers[i] = x /\ x # 0
      BY PlaceFacts, AboutIs DEF handled
    <3> QED BY <3>1, <3>2, <3>3
  <2>4. CASE menu' = "pause"
    BY <2>4 DEF StaleOnlyIfUnanswered
  <2>5. CASE /\ menu' = "enter" /\ receiver_id \in cached_friends
             /\ basis' = cached /\ late' = ~ Contains(answers, chatAsk)
             /\ UNCHANGED <<receiver_id, chatAsk>>
    <3>1. receiver_id' \in basis'.friends
      BY <2>2, <2>5
    <3>2. late' \/ Contains(answers, chatAsk)
      BY <2>5
    <3>3. basis'.number = chatAsk' \/ late' \/ chatAsk' \in refused' \cup dropped'
      BY <2>1, <2>3, <2>5, <3>2
    <3> QED BY <3>1, <3>3 DEF StaleOnlyIfUnanswered
  <2> QED BY <2>1, <2>4, <2>5
<1>2. CASE ChatEnter \/ ChatHistory \/ ChatSend
  <2>1. /\ menu \in {"enter", "greet", "chat"}
        /\ UNCHANGED <<receiver_id, basis, chatAsk, late, refused, dropped>>
    BY <1>2 DEF ChatEnter, ChatHistory, ChatSend
  <2> QED BY <2>1 DEF StaleOnlyIfUnanswered
<1>3. CASE \/ \E k \in Kinds \ {"history"} : MenuRequest(k)
           \/ ChatAskList \/ Exit \/ BrokenPipe \/ MenuNothing \/ Wake \/ ChatLock \/ ChatLook
           \/ ChatAbandon \/ ChatLockAgain \/ ChatQuit \/ ChatLeave
           \/ \E f \in Friends : ChatChoose(f)
  <2>1. menu' \notin {"enter", "greet", "chat"}
    BY <1>3 DEF MenuRequest, ChatAskList, Exit, BrokenPipe, Gone, MenuNothing, Wake, ChatLock,
                ChatLockAgain, LockCache, ChatLook, ChatAbandon, ChatQuit, ChatLeave, ChatChoose,
                LeaveChatMenu
  <2> QED BY <2>1 DEF StaleOnlyIfUnanswered
<1> QED BY <1>1, <1>2, <1>3 DEF Main

LEMMA StaleOthers ==
    ASSUME StaleOnlyIfUnanswered,
           Receiver \/ Server \/ Push \/ ServerCloses \/ UNCHANGED vars
    PROVE  StaleOnlyIfUnanswered'
<1>1. UNCHANGED <<menu, chat>>
  BY DEF Receiver, Test, ReceivePacket, Show, Disconnected, ListLock, ListFill, ListUnlock,
         Server, Take, Serve, ServeListDenied, ServeTooLarge, ServeList, Respond, Push,
         ServerCloses, vars, client
<1>2. refused \subseteq refused' /\ dropped \subseteq dropped'
  BY DEF Receiver, Test, ReceivePacket, Show, Disconnected, ListLock, ListFill, ListUnlock,
         Server, Take, Serve, ServeListDenied, ServeTooLarge, ServeList, Respond, Push,
         ServerCloses, vars, serverState
<1> QED BY <1>1, <1>2 DEF StaleOnlyIfUnanswered, chat
------------------------------------------------------------------------------
LEMMA Start == Init => IInv
<1>1. Init => StaleOnlyIfUnanswered
  BY DEF Init, StaleOnlyIfUnanswered
<1> QED BY <1>1, TypesStart, CacheStart, OrderedStart, ListStart DEF IInv

LEMMA Invariance == Spec => []IInv
<1>1. ASSUME IInv, Main
      PROVE  IInv'
  BY <1>1, TypesMain, CacheMain, OrderedMain, ListMain, StaleMain DEF IInv
<1>2. ASSUME IInv, Receiver
      PROVE  IInv'
  BY <1>2, TypesReceiver, CacheReceiver, OrderedReceiver, ListReceiver, StaleOthers DEF IInv
<1>3. ASSUME IInv, Server \/ Push \/ ServerCloses \/ UNCHANGED vars
      PROVE  IInv'
  BY <1>3, TypesServer, CacheServer, OrderedServer, ListServer, StaleOthers DEF IInv
<1>4. IInv /\ [Next]_vars => IInv'
  BY <1>1, <1>2, <1>3 DEF Next
<1> QED BY <1>4, Start, PTL DEF Spec
------------------------------------------------------------------------------
\* The two threads of the client and the thread of the server keep their
\* variables to their types; a user that is in chat mode has chosen a friend.
THEOREM ClientTypesCorrect == Spec => []ClientTypeOK
<1>1. IInv => ClientTypeOK
  <2> SUFFICES ASSUME IInv PROVE ClientTypeOK
    OBVIOUS
  <2>1. MainTypes /\ ReceiverTypes /\ ServerTypes
    BY DEF IInv, Types
  <2>2. ToSet(toServer) \subseteq Request
    <3>1. toServer \in Seq(Request)
      BY <2>1 DEF ServerTypes
    <3>2. DOMAIN toServer = 1..Len(toServer) /\ \A i \in 1..Len(toServer) : toServer[i] \in Request
      BY <3>1, LenProperties, ElementOfSeq
    <3> QED BY <3>2 DEF ToSet
  <2>3. {is_running, in_chat_mode, session, late} \subseteq BOOLEAN
    BY <2>1 DEF MainTypes, ServerTypes
  <2>4. /\ {current_chat_partner_id, receiver_id} \subseteq Friends \cup {NoFriend}
        /\ in_chat_mode => receiver_id \in Friends
    BY <2>1 DEF MainTypes, WithFriend
  <2>5. {cached_friends, cached.friends, basis.friends} \subseteq SUBSET Friends
    BY <2>1 DEF MainTypes, ReceiverTypes
  <2> QED BY <2>1, <2>2, <2>3, <2>4, <2>5
          DEF ClientTypeOK, MainTypes, ReceiverTypes, ServerTypes
<1> QED BY <1>1, Invariance, PTL

\* Each request is answered once and in its turn, however the menus, the receive
\* thread, the server's thread and the pushes of others interleave: the client
\* can tell which answer is to which request although packets do not say.
THEOREM AnswersInTurn == Spec => []OneAnswerEach
<1>1. IInv => OneAnswerEach
  <2> SUFFICES ASSUME IInv, server # "closed", receiver # "ended"
               PROVE  /\ InTurn(answers \o inHand \o Numbers(toClient) \o inService
                                  \o Numbers(toServer))
                      /\ About(answers \o inHand \o Numbers(toClient) \o inService
                                  \o Numbers(toServer)) = (1..asked) \ dropped
    BY DEF OneAnswerEach
  <2>1. Types /\ Ordered /\ round = (1..asked) \ dropped
    BY DEF IInv, Complete
  <2>2. /\ answers \in Seq(Nat) /\ Numbers(toClient) \in Seq(Nat)
        /\ Numbers(toServer) \in Seq(Nat)
        /\ inHand \in Seq(Nat) /\ inService \in Seq(Nat)
        /\ InTurn(inHand) /\ InTurn(inService)
    BY <2>1, PlaceFacts
  <2>3. PICK a, h, b, s, q : /\ a = answers /\ h = inHand /\ b = Numbers(toClient)
                             /\ s = inService /\ q = Numbers(toServer)
    OBVIOUS
  <2>4. /\ a \in Seq(Nat) /\ h \in Seq(Nat) /\ b \in Seq(Nat) /\ s \in Seq(Nat)
        /\ q \in Seq(Nat)
    BY <2>2, <2>3
  <2>5. /\ InTurn(a) /\ InTurn(h) /\ InTurn(b) /\ InTurn(s) /\ InTurn(q)
        /\ Chain(About(a), About(h), About(b), About(s), About(q))
    BY <2>1, <2>2, <2>3 DEF Ordered, handled, held, back, served, queued
  <2>6. /\ Below(About(a), About(h)) /\ Below(About(a) \cup About(h), About(b))
        /\ Below(About(a) \cup About(h) \cup About(b), About(s))
        /\ Below(About(a) \cup About(h) \cup About(b) \cup About(s), About(q))
    BY <2>5 DEF Chain, Below
  <2>7. PICK x : x = a \o h
    OBVIOUS
  <2>8. x \in Seq(Nat) /\ InTurn(x) /\ About(x) = About(a) \cup About(h)
    <3>1. a \in Seq(Nat) /\ h \in Seq(Nat) /\ InTurn(a) /\ InTurn(h)
      BY <2>4, <2>5
    <3>2. Below(About(a), About(h))
      BY <2>6
    <3> QED BY <2>7, <3>1, <3>2, AboutConcat
  <2>9. PICK y : y = x \o b
    OBVIOUS
  <2>10. /\ y \in Seq(Nat) /\ InTurn(y)
         /\ About(y) = About(a) \cup About(h) \cup About(b)
    <3>1. x \in Seq(Nat) /\ b \in Seq(Nat) /\ InTurn(x) /\ InTurn(b)
      BY <2>4, <2>5, <2>8
    <3>2. Below(About(x), About(b))
      BY <2>6, <2>8
    <3>3. y \in Seq(Nat) /\ InTurn(y) /\ About(y) = About(x) \cup About(b)
      BY <2>9, <3>1, <3>2, AboutConcat
    <3> QED BY <2>8, <3>3
  <2>11. PICK z : z = y \o s
    OBVIOUS
  <2>12. /\ z \in Seq(Nat) /\ InTurn(z)
         /\ About(z) = About(a) \cup About(h) \cup About(b) \cup About(s)
    <3>1. y \in Seq(Nat) /\ s \in Seq(Nat) /\ InTurn(y) /\ InTurn(s)
      BY <2>4, <2>5, <2>10
    <3>2. Below(About(y), About(s))
      BY <2>6, <2>10
    <3>3. z \in Seq(Nat) /\ InTurn(z) /\ About(z) = About(y) \cup About(s)
      BY <2>11, <3>1, <3>2, AboutConcat
    <3> QED BY <2>10, <3>3
  <2>13. /\ InTurn(z \o q)
         /\ About(z \o q) = About(a) \cup About(h) \cup About(b) \cup About(s) \cup About(q)
    <3>1. z \in Seq(Nat) /\ q \in Seq(Nat) /\ InTurn(z) /\ InTurn(q)
      BY <2>4, <2>5, <2>12
    <3>2. Below(About(z), About(q))
      BY <2>6, <2>12
    <3>3. InTurn(z \o q) /\ About(z \o q) = About(z) \cup About(q)
      BY <3>1, <3>2, AboutConcat
    <3> QED BY <2>12, <3>3
  <2>14. About(z \o q) = round
    BY <2>3, <2>13 DEF round, handled, held, back, served, queued
  <2> QED BY <2>1, <2>3, <2>7, <2>9, <2>11, <2>13, <2>14
<1> QED BY <1>1, Invariance, PTL

\* The chat menu reads the cache under the mutex, and sees the whole of one list.
THEOREM CacheIsWhole == Spec => []MenuSeesWholeList
<1>1. IInv => MenuSeesWholeList
  BY DEF IInv, MutexHeld, CacheFilled, MenuSeesWholeList
<1> QED BY <1>1, Invariance, PTL

\* The friend a user chats with is in the list the chat menu asked for, unless
\* the answer was late, a refusal, or never sent: the second's sleep is all that
\* can make the list an older one.
THEOREM StaleOnlyWithoutAnswer == Spec => []StaleOnlyIfUnanswered
<1>1. IInv => StaleOnlyIfUnanswered
  BY DEF IInv
<1> QED BY <1>1, Invariance, PTL
------------------------------------------------------------------------------
\* The cache only ever moves to a list that was asked for later: old answers do
\* not overwrite newer ones, until the client ends.
CacheMovesForward ==
    [][cached' # cached /\ menu' # "ended" => cached.number < cached'.number]_vars

CachedHandled == cached.number \in handled \cup {0}

LEMMA ForwardStep ==
    ASSUME IInv, CachedHandled, [Next]_vars
    PROVE  /\ CachedHandled'
           /\ cached' # cached /\ menu' # "ended" => cached.number < cached'.number
<1> USE DEF flags, cache, queues, chat, serverState
<1>1. Types /\ Ordered
  BY DEF IInv
<1>2. CASE Main
  <2>1. answers' = answers
    BY <1>2 DEF Main, MenuRequest, MenuNothing, Wake, Exit, BrokenPipe, ChatAskList, ChatLock,
                ChatLockAgain, LockCache, ChatLook, ChatChoose, ChatAbandon, ChatValidate,
                ChatEnter, ChatHistory, ChatSend, ChatQuit, ChatLeave
  <2>2. cached' = cached \/ (cached' = NoList /\ menu' = "ended")
    BY <1>2 DEF Main, MenuRequest, MenuNothing, Wake, Exit, BrokenPipe, Gone, ChatAskList,
                ChatLock, ChatLockAgain, LockCache, ChatLook, ChatChoose, ChatAbandon,
                ChatValidate, ChatEnter, ChatHistory, ChatSend, ChatQuit, ChatLeave
  <2>3. handled' = handled
    BY <2>1 DEF handled
  <2> QED BY <2>2, <2>3 DEF CachedHandled, NoList
<1>3. CASE Show
  <2>1. cached' = cached /\ Handled /\ receiver \in InHand
    BY <1>3 DEF Show, InHand
  <2>2. handled' = handled \cup held
    BY <1>1, <2>1, HandledPlaces
  <2> QED BY <2>1, <2>2 DEF CachedHandled
<1>4. CASE ListUnlock
  <2>1. /\ cached'.number = packet.number /\ Handled /\ receiver \in InHand
        /\ packet.type = 2004 /\ packet \in Packets
    BY <1>1, <1>4 DEF ListUnlock, Types, ReceiverTypes, InHand
  <2>2. packet.number \in held
    BY <1>1, <2>1, NumbersOnRound, PacketFacts
  <2>3. handled' = handled \cup held
    BY <1>1, <2>1, HandledPlaces
  <2>4. cached.number < packet.number
    <3>1. packet.number \in 1..asked
      BY <1>1, <2>2, NumbersOnRound DEF round
    <3>2. Below(handled, held)
      BY <1>1 DEF Ordered, Chain, Below
    <3>3. 0 < packet.number
      BY <3>1
    <3> QED BY <2>2, <3>2, <3>3 DEF CachedHandled, Below
  <2> QED BY <2>1, <2>2, <2>3, <2>4 DEF CachedHandled
<1>5. CASE \/ Test \/ ReceivePacket \/ Disconnected \/ ListLock
           \/ (\E f \in Friends : ListFill(f))
           \/ Server \/ Push \/ ServerCloses \/ UNCHANGED vars
  <2>1. UNCHANGED <<answers, cached>>
    BY <1>5 DEF Test, ReceivePacket, Disconnected, ListLock, ListFill, Server, Take, Serve,
                ServeListDenied, ServeTooLarge, ServeList, Respond, Push, ServerCloses,
                vars, client
  <2>2. handled' = handled
    BY <2>1 DEF handled
  <2> QED BY <2>1, <2>2 DEF CachedHandled
<1> QED BY <1>2, <1>3, <1>4, <1>5 DEF Next, Receiver

\* Answers that come late do not bring an old list back: the receive thread
\* handles lists in the order they were asked for, so that a list in the cache
\* gives way to younger ones only.
THEOREM CacheOnlyNewer == Spec => CacheMovesForward
<1>1. Init => CachedHandled
  BY DEF Init, CachedHandled, NoList
<1>2. IInv /\ CachedHandled /\ [Next]_vars => CachedHandled'
  BY ForwardStep
<1>3. IInv /\ CachedHandled /\ [Next]_vars
         => [cached' # cached /\ menu' # "ended" => cached.number < cached'.number]_vars
  BY ForwardStep
<1> QED BY <1>1, <1>2, <1>3, Invariance, PTL DEF Spec, CacheMovesForward
==============================================================================
