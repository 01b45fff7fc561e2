---------------------------- MODULE AccountsProofs ----------------------------
(***************************************************************************)
(* Proofs about Accounts, for any threads, names, passwords, items and     *)
(* seed, and any bound on the accounts.                                    *)
(***************************************************************************)
EXTENDS Accounts, SequenceTheorems, TLAPS

\* A handler that is going to answer 201, and the name it answers it for.
Registered(t) ==
    pc[t] \in {"log", "reply"} /\ entry[t].action = "register" /\ entry[t].ok

Claims(t, n) == form[t].name = n /\ (pc[t] = "rowid" \/ Registered(t))

NamesUnique ==
    \A i, j \in DOMAIN accounts : accounts[i].name = accounts[j].name => i = j

SeedKept ==
    Len(Seed) <= Len(accounts) /\ \A i \in DOMAIN Seed : accounts[i] = Seed[i]

\* A name is claimed by one handler at most, and by none once it was told 201;
\* in both cases there is an account of that name which is not of the seed.
ClaimsOK ==
    \A n \in Names :
        /\ wins[n] \in {0, 1}
        /\ \A s, t \in Threads : Claims(s, n) /\ Claims(t, n) => s = t
        /\ wins[n] = 1 => \A t \in Threads : ~ Claims(t, n)
        /\ wins[n] = 1 \/ (\E t \in Threads : Claims(t, n)) =>
              \E i \in DOMAIN accounts : Len(Seed) < i /\ accounts[i].name = n
        /\ \A t \in Threads : Claims(t, n) =>
              \E i \in DOMAIN accounts : Holds(i, n, form[t].password)
        /\ \A p \in Passwords : <<n, p>> \in told =>
              \E i \in DOMAIN accounts : Holds(i, n, p)

\* What a handler has yet to read off the connection, or has read, is about its
\* own statement as long as it was not overtaken.
ThreadOK(t) ==
    /\ pc[t] = "idle" => t \notin removed
    /\ pc[t] \in {"insert", "rowid"} \/ Registered(t) =>
          form[t].name \in Names /\ form[t].password \in Passwords
    /\ t \notin overtaken =>
          /\ pc[t] = "rowid" =>
                /\ lastRowid \in DOMAIN accounts
                /\ Holds(lastRowid, form[t].name, form[t].password)
          /\ Registered(t) =>
                /\ uid[t] \in DOMAIN accounts
                /\ Holds(uid[t], form[t].name, form[t].password)
          /\ pc[t] = "changes" => (changes > 0 <=> t \in removed)
          /\ pc[t] \in {"log", "reply"} /\ entry[t].action = "remove" =>
                (entry[t].ok <=> t \in removed)

IInv == /\ AccountsTypeOK
        /\ NamesUnique /\ SeedKept /\ ClaimsOK
        /\ \A t \in Threads : ThreadOK(t)

USE AccountsAssumption
------------------------------------------------------------------------------
LEMMA SeedFacts ==
    /\ Len(Seed) \in Nat /\ DOMAIN Seed = 1..Len(Seed)
    /\ \A i \in DOMAIN Seed : Seed[i] \in Account
BY LenProperties, ElementOfSeq

LEMMA AccountsFacts ==
    ASSUME AccountsTypeOK
    PROVE  /\ Len(accounts) \in Nat /\ DOMAIN accounts = 1..Len(accounts)
           /\ \A i \in DOMAIN accounts : accounts[i] \in Account
BY LenProperties, ElementOfSeq DEF AccountsTypeOK

LEMMA Start == Init => IInv
<1> SUFFICES ASSUME Init PROVE IInv
  OBVIOUS
<1>1. AccountsTypeOK
  BY SeedFacts DEF Init, AccountsTypeOK, AnyInt, Form, Line, NoForm, NoLine
<1>2. NamesUnique /\ SeedKept
  BY SeedFacts DEF Init, NamesUnique, SeedKept
<1>3. \A t \in Threads : ~ Registered(t) /\ pc[t] = "idle" /\ t \notin removed
  BY DEF Init, Registered
<1>4. ClaimsOK
  BY <1>3 DEF Init, ClaimsOK, Claims
<1>5. \A t \in Threads : ThreadOK(t)
  BY <1>3 DEF ThreadOK
<1> QED BY <1>1, <1>2, <1>4, <1>5 DEF IInv

\* A step that leaves the table alone and makes no new claim need only keep
\* its own thread in order, and mark as overtaken whoever it overtakes.
LEMMA Frame ==
    ASSUME IInv, NEW t \in Threads, AccountsTypeOK',
           UNCHANGED <<accounts, wins, told>>,
           \A s \in Threads \ {t} :
               /\ pc'[s] = pc[s] /\ form'[s] = form[s]
               /\ uid'[s] = uid[s] /\ entry'[s] = entry[s]
               /\ s \in removed' <=> s \in removed
               /\ s \notin overtaken' =>
                     /\ s \notin overtaken
                     /\ pc[s] = "rowid" => lastRowid' = lastRowid
                     /\ pc[s] = "changes" => changes' = changes,
           ThreadOK(t)',
           \A n \in Names : Claims(t, n)' =>
               Claims(t, n) /\ form'[t].password = form[t].password
    PROVE  IInv'
<1> USE DEF IInv
<1>1. NamesUnique' /\ SeedKept'
  BY DEF NamesUnique, SeedKept
<1>2. \A s \in Threads \ {t} : /\ Registered(s)' <=> Registered(s)
                               /\ \A n : Claims(s, n)' <=> Claims(s, n)
  BY DEF Registered, Claims
<1>3. \A s \in Threads \ {t} : ThreadOK(s)'
  BY <1>2 DEF ThreadOK, Holds
<1>4. ClaimsOK'
  <2>1. \A s \in Threads, n \in Names : Claims(s, n)' =>
            Claims(s, n) /\ form'[s].password = form[s].password
    BY <1>2
  <2> QED BY <2>1 DEF ClaimsOK, Holds
<1> QED BY <1>1, <1>3, <1>4
------------------------------------------------------------------------------
\* The steps of a handler that leave the accounts alone.

LEMMA AcceptLine ==
    ASSUME NEW action \in {"register", "login", "remove"}, NEW ok \in BOOLEAN
    PROVE  [action |-> action, ok |-> ok] \in Line
BY DEF Line

LEMMA RefusedLine ==
    /\ 0 \in AnyInt
    /\ [action |-> "register", ok |-> FALSE] \in Line
    /\ [action |-> "remove", ok |-> FALSE] \in Line
BY DEF Line, AnyInt

LEMMA RegisterPart ==
    ASSUME IInv, NEW t \in Threads,
           \/ \E n \in Names, p \in Passwords : RegisterCheck(t, n, p)
           \/ RegisterRefused(t)
           \/ RegisterRowid(t)
    PROVE  IInv'
<1> USE DEF IInv, connection, tables, history, Goto, Conclude
<1>1. ASSUME NEW n \in Names, NEW p \in Passwords, RegisterCheck(t, n, p)
      PROVE  IInv'
  <2> USE <1>1 DEF RegisterCheck
  <2>1. AccountsTypeOK'
    <3>1. [name |-> n, password |-> p] \in Form
      BY DEF Form
    <3>2. form' \in [Threads -> Form]
      BY <3>1 DEF AccountsTypeOK
    <3>3. pc' \in [Threads -> {"idle", "insert", "rowid", "changes", "log", "reply"}]
      BY DEF AccountsTypeOK
    <3>4. entry' \in [Threads -> Line]
      BY RefusedLine DEF AccountsTypeOK
    <3> QED BY <3>2, <3>3, <3>4 DEF AccountsTypeOK
  <2>2. ThreadOK(t)'
    BY DEF ThreadOK, Registered, AccountsTypeOK
  <2>3. \A m \in Names : ~ Claims(t, m)'
    BY DEF Claims, Registered, AccountsTypeOK
  <2> QED BY <2>1, <2>2, <2>3, Frame DEF AccountsTypeOK
<1>2. CASE RegisterRefused(t)
  <2> USE <1>2 DEF RegisterRefused, Fail, Overtake
  <2>1. AccountsTypeOK'
    BY RefusedLine DEF AccountsTypeOK
  <2>2. ThreadOK(t)'
    BY DEF ThreadOK, Registered, AccountsTypeOK
  <2>3. \A m \in Names : ~ Claims(t, m)'
    BY DEF Claims, Registered, AccountsTypeOK
  <2> QED BY <2>1, <2>2, <2>3, Frame DEF AccountsTypeOK
<1>3. CASE RegisterRowid(t)
  <2> USE <1>3 DEF RegisterRowid
  <2>1. AccountsTypeOK'
    BY AcceptLine DEF AccountsTypeOK
  <2>2. ThreadOK(t)'
    BY DEF ThreadOK, Registered, AccountsTypeOK, Holds
  <2>3. \A m \in Names : Claims(t, m)' => Claims(t, m)
    BY DEF Claims
  <2> QED BY <2>1, <2>2, <2>3, Frame DEF AccountsTypeOK
<1> QED BY <1>1, <1>2, <1>3

LEMMA LoginPart ==
    ASSUME IInv, NEW t \in Threads, Login(t)
    PROVE  IInv'
<1> USE DEF IInv, connection, tables, history, Goto, Conclude
<1>1. PICK ok \in BOOLEAN :
          /\ pc[t] = "idle" /\ Conclude(t, "login", ok)
          /\ UNCHANGED <<tables, connection, form, uid, history>>
  BY DEF Login, LoginVerified, LoginFailed
<1>2. AccountsTypeOK'
  BY <1>1, AcceptLine DEF AccountsTypeOK
<1>3. ThreadOK(t)'
  BY <1>1 DEF ThreadOK, Registered, AccountsTypeOK
<1>4. \A m \in Names : ~ Claims(t, m)'
  BY <1>1 DEF Claims, Registered, AccountsTypeOK
<1> QED BY <1>1, <1>2, <1>3, <1>4, Frame DEF AccountsTypeOK

LEMMA RemovalPart ==
    ASSUME IInv, NEW t \in Threads, Removal(t)
    PROVE  IInv'
<1> USE DEF IInv, connection, tables, history, Goto, Conclude, Overtake
<1>1. ASSUME NEW i \in Items, Add(t, i) PROVE IInv'
  <2> USE <1>1 DEF Add, InsertElsewhere
  <2>1. AccountsTypeOK'
    BY DEF AccountsTypeOK
  <2>2. ThreadOK(t)'
    BY DEF ThreadOK, Registered
  <2>3. \A m \in Names : Claims(t, m)' => Claims(t, m)
    BY DEF Claims, Registered
  <2> QED BY <2>1, <2>2, <2>3, Frame DEF AccountsTypeOK
<1>2. ASSUME NEW i \in Items, RemoveDelete(t, i) PROVE IInv'
  <2> USE <1>2 DEF RemoveDelete
  <2>1. AccountsTypeOK'
    BY DEF AccountsTypeOK
  <2>2. ThreadOK(t)'
    BY DEF ThreadOK, Registered, AccountsTypeOK
  <2>3. \A m \in Names : ~ Claims(t, m)'
    BY DEF Claims, Registered, AccountsTypeOK
  <2> QED BY <2>1, <2>2, <2>3, Frame DEF AccountsTypeOK
<1>3. CASE RemoveChanges(t)
  <2> USE <1>3 DEF RemoveChanges, RemoveSucceeded
  <2>1. AccountsTypeOK'
    <3>1. [action |-> "remove", ok |-> changes > 0] \in Line
      BY RefusedLine, (changes > 0) \in BOOLEAN DEF Line
    <3> QED BY <3>1 DEF AccountsTypeOK
  <2>2. ThreadOK(t)'
    BY DEF ThreadOK, Registered, AccountsTypeOK
  <2>3. \A m \in Names : ~ Claims(t, m)'
    BY DEF Claims, Registered, AccountsTypeOK
  <2> QED BY <2>1, <2>2, <2>3, Frame DEF AccountsTypeOK
<1>4. CASE RemoveRefused(t)
  <2> USE <1>4 DEF RemoveRefused, Fail
  <2>1. AccountsTypeOK'
    BY RefusedLine DEF AccountsTypeOK
  <2>2. ThreadOK(t)'
    BY DEF ThreadOK, Registered, AccountsTypeOK
  <2>3. \A m \in Names : ~ Claims(t, m)'
    BY DEF Claims, Registered, AccountsTypeOK
  <2> QED BY <2>1, <2>2, <2>3, Frame DEF AccountsTypeOK
<1> QED BY <1>1, <1>2, <1>3, <1>4 DEF Removal

LEMMA LogPart ==
    ASSUME IInv, NEW t \in Threads, LogWritten(t) \/ LogRefused(t)
    PROVE  IInv'
<1> USE DEF IInv, tables, Goto, Overtake, LogWritten, LogRefused,
            InsertElsewhere, Fail
<1>1. AccountsTypeOK'
  BY DEF AccountsTypeOK
<1>2. pc[t] = "log" /\ pc'[t] = "reply" /\ UNCHANGED <<form, uid, entry, removed>>
      /\ (t \notin overtaken' => t \notin overtaken)
  BY DEF AccountsTypeOK
<1>3. Registered(t)' <=> Registered(t)
  BY <1>2 DEF Registered
<1>4. ThreadOK(t)'
  BY <1>2, <1>3 DEF ThreadOK, Holds
<1>5. \A m \in Names : Claims(t, m)' => Claims(t, m)
  BY <1>2, <1>3 DEF Claims
<1> QED BY <1>1, <1>4, <1>5, Frame DEF AccountsTypeOK
------------------------------------------------------------------------------
\* The steps that change the accounts, the answers or everything.

LEMMA InsertPart ==
    ASSUME IInv, NEW t \in Threads, RegisterInsert(t)
    PROVE  IInv'
<1> DEFINE new == [name |-> form[t].name, password |-> form[t].password,
                   status |-> "active"]
<1> USE DEF IInv
<1>1. /\ pc[t] = "insert" /\ ~ Taken(form[t].name) /\ Len(accounts) < MaxAccounts
      /\ accounts' = Append(accounts, new)
      /\ lastRowid' = NewId /\ changes' = 1
      /\ overtaken' = overtaken \cup
             {s \in Threads \ {t} : pc[s] \in {"rowid", "changes"}}
      /\ pc' = [pc EXCEPT ![t] = "rowid"]
      /\ UNCHANGED <<items, form, uid, entry, removed, wins, told>>
  BY DEF RegisterInsert, Overtake, Goto
<1>2. form[t].name \in Names /\ form[t].password \in Passwords
  BY <1>1 DEF ThreadOK
<1>3. new \in Account
  BY <1>2 DEF Account, Status
<1>4. /\ Len(accounts) \in Nat /\ DOMAIN accounts = 1..Len(accounts)
      /\ accounts \in Seq(Account)
  BY AccountsFacts DEF AccountsTypeOK
<1>5. /\ accounts' \in Seq(Account) /\ Len(accounts') = Len(accounts) + 1
      /\ DOMAIN accounts' = 1..(Len(accounts) + 1)
      /\ accounts'[Len(accounts) + 1] = new
      /\ \A i \in DOMAIN accounts : i \in DOMAIN accounts' /\ accounts'[i] = accounts[i]
  <2> HIDE DEF new
  <2> QED BY <1>1, <1>3, <1>4
<1>6. /\ new.name = form[t].name /\ new.password = form[t].password
      /\ Holds(lastRowid, form[t].name, form[t].password)'
      /\ lastRowid' \in DOMAIN accounts'
  <2>1. lastRowid' = Len(accounts) + 1
    BY <1>1 DEF NewId
  <2> QED BY <1>1, <1>4, <1>5, <2>1 DEF Holds
<1>7. \A i \in DOMAIN accounts : accounts[i].name # form[t].name
  BY <1>1 DEF Taken
<1>8. \A i \in DOMAIN accounts : \A n, p : Holds(i, n, p) => Holds(i, n, p)'
  BY <1>5 DEF Holds
<1>9. \A s \in Threads : s # t => /\ Registered(s)' <=> Registered(s)
                                /\ \A n : Claims(s, n)' <=> Claims(s, n)
  BY <1>1 DEF Registered, Claims, AccountsTypeOK
<1>10. ~ Registered(t)' /\ \A n : Claims(t, n)' <=> n = form[t].name
  BY <1>1 DEF Registered, Claims, AccountsTypeOK
<1> HIDE DEF new
<1>11. AccountsTypeOK'
  BY <1>1, <1>4, <1>5 DEF AccountsTypeOK, AnyInt, NewId
<1>12. NamesUnique'
  <2> SUFFICES ASSUME NEW i \in DOMAIN accounts', NEW j \in DOMAIN accounts',
                      accounts'[i].name = accounts'[j].name
               PROVE  i = j
    BY DEF NamesUnique
  <2>1. \A k \in DOMAIN accounts' : k \in DOMAIN accounts \/ k = Len(accounts) + 1
    BY <1>4, <1>5
  <2> QED BY <1>5, <1>6, <1>7, <2>1 DEF NamesUnique
<1>13. SeedKept'
  <2>1. \A i \in DOMAIN Seed : i \in DOMAIN accounts
    BY <1>4, SeedFacts DEF SeedKept
  <2> QED BY <1>4, <1>5, <2>1, SeedFacts DEF SeedKept
<1>14. ClaimsOK'
  <2>1. wins[form[t].name] = 0 /\ \A s \in Threads : ~ Claims(s, form[t].name)
    BY <1>2, <1>7 DEF ClaimsOK
  <2> SUFFICES ASSUME NEW n \in Names
               PROVE  /\ wins[n] \in {0, 1}
                      /\ \A r, s \in Threads : Claims(r, n)' /\ Claims(s, n)' => r = s
                      /\ wins[n] = 1 => \A s \in Threads : ~ Claims(s, n)'
                      /\ wins[n] = 1 \/ (\E s \in Threads : Claims(s, n)') =>
                            \E i \in DOMAIN accounts' :
                                Len(Seed) < i /\ accounts'[i].name = n
                      /\ \A s \in Threads : Claims(s, n)' =>
                            \E i \in DOMAIN accounts' : Holds(i, n, form[s].password)'
                      /\ \A p \in Passwords : <<n, p>> \in told =>
                            \E i \in DOMAIN accounts' : Holds(i, n, p)'
    BY <1>1 DEF ClaimsOK
  <2>2. CASE n # form[t].name
    <3>1. \A s \in Threads : Claims(s, n)' <=> Claims(s, n)
      BY <1>1, <1>9, <1>10, <2>2 DEF Claims
    <3>2. \A p : (\E i \in DOMAIN accounts : Holds(i, n, p)) =>
                  \E i \in DOMAIN accounts' : Holds(i, n, p)'
      BY <1>5, <1>8
    <3>3. (\E i \in DOMAIN accounts : Len(Seed) < i /\ accounts[i].name = n) =>
              \E i \in DOMAIN accounts' : Len(Seed) < i /\ accounts'[i].name = n
      BY <1>5
    <3>4. \A s \in Threads : Claims(s, n)' =>
              \E i \in DOMAIN accounts' : Holds(i, n, form[s].password)'
      <4>1. \A s \in Threads : Claims(s, n)' =>
                \E i \in DOMAIN accounts : Holds(i, n, form[s].password)
        BY <3>1 DEF ClaimsOK
      <4> QED BY <1>1, <1>5, <1>8, <4>1 DEF Holds
    <3> QED BY <3>1, <3>2, <3>3, <3>4 DEF ClaimsOK
  <2>3. CASE n = form[t].name
    <3>1. \A s \in Threads : Claims(s, n)' => s = t
      BY <1>9, <2>1, <2>3
    <3>2. /\ Len(accounts) + 1 \in DOMAIN accounts' /\ Len(Seed) < Len(accounts) + 1
          /\ accounts'[Len(accounts) + 1].name = n
      BY <1>4, <1>5, <1>6, <2>3, SeedFacts DEF SeedKept
    <3>3. \E i \in DOMAIN accounts' : Holds(i, n, form[t].password)'
      BY <1>1, <1>6, <2>3 DEF Holds
    <3>4. \A p \in Passwords : <<n, p>> \in told =>
              \E i \in DOMAIN accounts' : Holds(i, n, p)'
      BY <1>5, <1>8 DEF ClaimsOK
    <3> QED BY <2>1, <2>3, <3>1, <3>2, <3>3, <3>4
  <2> QED BY <2>2, <2>3
<1>15. \A s \in Threads : ThreadOK(s)'
  <2>1. ThreadOK(t)'
    BY <1>1, <1>2, <1>6, <1>10 DEF ThreadOK, AccountsTypeOK
  <2>2. ASSUME NEW s \in Threads, s # t PROVE ThreadOK(s)'
    <3>1. pc'[s] = pc[s] /\ (s \notin overtaken' =>
              s \notin overtaken /\ pc[s] # "rowid" /\ pc[s] # "changes")
      BY <1>1, <2>2
    <3> QED BY <1>1, <1>5, <1>8, <1>9, <2>2, <3>1 DEF ThreadOK
  <2> QED BY <2>1, <2>2
<1> QED BY <1>11, <1>12, <1>13, <1>14, <1>15

LEMMA ReplyPart ==
    ASSUME IInv, NEW t \in Threads, Reply(t)
    PROVE  IInv'
<1> DEFINE n == form[t].name
           p == form[t].password
<1> USE DEF IInv
<1>1. /\ pc[t] = "reply" /\ pc' = [pc EXCEPT ![t] = "idle"]
      /\ wins' = IF Registered(t) THEN [wins EXCEPT ![n] = @ + 1] ELSE wins
      /\ told' = IF Registered(t) THEN told \cup {<<n, p>>} ELSE told
      /\ form' = [form EXCEPT ![t] = NoForm]
      /\ uid' = [uid EXCEPT ![t] = 0]
      /\ entry' = [entry EXCEPT ![t] = NoLine]
      /\ removed' = removed \ {t} /\ overtaken' = overtaken \ {t}
      /\ UNCHANGED <<accounts, items, lastRowid, changes>>
  BY DEF Reply, Registered, Goto, tables, connection
<1>2. Registered(t) => n \in Names /\ p \in Passwords /\ Claims(t, n)
  BY DEF ThreadOK, Claims
<1>3. NoForm \in Form /\ NoLine \in Line /\ 0 \in AnyInt
  BY RefusedLine DEF NoForm, NoLine, Form
<1>4. ~ Registered(t)' /\ \A m : ~ Claims(t, m)'
  BY <1>1 DEF Registered, Claims, AccountsTypeOK
<1>5. \A s \in Threads : s # t => /\ Registered(s)' <=> Registered(s)
                                /\ \A m : Claims(s, m)' <=> Claims(s, m)
  BY <1>1 DEF Registered, Claims, AccountsTypeOK
<1>6. AccountsTypeOK'
  BY <1>1, <1>2, <1>3 DEF AccountsTypeOK
<1>7. NamesUnique' /\ SeedKept'
  BY <1>1 DEF NamesUnique, SeedKept
<1>8. \A s \in Threads : ThreadOK(s)'
  <2>1. ThreadOK(t)'
    BY <1>1, <1>4 DEF ThreadOK, AccountsTypeOK
  <2>2. ASSUME NEW s \in Threads, s # t PROVE ThreadOK(s)'
    BY <1>1, <1>5, <2>2 DEF ThreadOK, Holds
  <2> QED BY <2>1, <2>2
<1>9. ClaimsOK'
  <2> SUFFICES ASSUME NEW m \in Names
               PROVE  /\ wins'[m] \in {0, 1}
                      /\ \A r, s \in Threads : Claims(r, m)' /\ Claims(s, m)' => r = s
                      /\ wins'[m] = 1 => \A s \in Threads : ~ Claims(s, m)'
                      /\ wins'[m] = 1 \/ (\E s \in Threads : Claims(s, m)') =>
                            \E i \in DOMAIN accounts :
                                Len(Seed) < i /\ accounts[i].name = m
                      /\ \A s \in Threads : Claims(s, m)' =>
                            \E i \in DOMAIN accounts : Holds(i, m, form'[s].password)
                      /\ \A q \in Passwords : <<m, q>> \in told' =>
                            \E i \in DOMAIN accounts : Holds(i, m, q)
    BY <1>1 DEF ClaimsOK, Holds
  <2>1. \A s \in Threads : Claims(s, m)' =>
            s # t /\ Claims(s, m) /\ form'[s].password = form[s].password
    BY <1>1, <1>4, <1>5
  <2>2. CASE Registered(t) /\ m = n
    <3>1. Claims(t, m)
      BY <1>2, <2>2
    <3>2. wins[m] = 0 /\ wins'[m] = 1 /\ \A s \in Threads : ~ Claims(s, m)'
      <4>1. wins[m] = 0 /\ \A s \in Threads : Claims(s, m) => s = t
        BY <3>1 DEF ClaimsOK
      <4>2. wins'[m] = 1
        BY <1>1, <2>2, <4>1 DEF AccountsTypeOK
      <4> QED BY <2>1, <4>1, <4>2
    <3>3. (\E i \in DOMAIN accounts : Len(Seed) < i /\ accounts[i].name = m)
          /\ (\E i \in DOMAIN accounts : Holds(i, m, p))
      BY <3>1 DEF ClaimsOK
    <3>4. \A q \in Passwords : <<m, q>> \in told' => <<m, q>> \in told \/ q = p
      BY <1>1, <2>2
    <3> QED BY <3>2, <3>3, <3>4 DEF ClaimsOK
  <2>3. CASE ~ (Registered(t) /\ m = n)
    <3>1. wins'[m] = wins[m] /\ \A q : <<m, q>> \in told' <=> <<m, q>> \in told
      BY <1>1, <1>2, <2>3 DEF AccountsTypeOK
    <3> QED BY <2>1, <3>1 DEF ClaimsOK
  <2> QED BY <2>2, <2>3
<1> QED BY <1>6, <1>7, <1>8, <1>9

LEMMA RestartPart ==
    ASSUME IInv, Restart
    PROVE  IInv'
<1> USE DEF IInv
<1>1. AccountsTypeOK'
  BY RefusedLine
     DEF Restart, tables, AccountsTypeOK, NoForm, NoLine, Form
<1>2. NamesUnique' /\ SeedKept'
  BY DEF Restart, tables, NamesUnique, SeedKept
<1>3. \A t \in Threads : pc'[t] = "idle" /\ ~ Registered(t)' /\ \A n : ~ Claims(t, n)'
  BY DEF Restart, Registered, Claims
<1>4. ClaimsOK'
  BY <1>3 DEF Restart, tables, ClaimsOK, Holds
<1>5. \A t \in Threads : ThreadOK(t)'
  BY <1>3 DEF Restart, ThreadOK
<1> QED BY <1>1, <1>2, <1>4, <1>5

LEMMA UnchangedPart ==
    ASSUME IInv, UNCHANGED vars
    PROVE  IInv'
<1> USE DEF IInv, vars, tables, connection, history
<1>1. AccountsTypeOK' /\ NamesUnique' /\ SeedKept'
  BY DEF AccountsTypeOK, NamesUnique, SeedKept
<1>2. \A t \in Threads : /\ Registered(t)' <=> Registered(t)
                         /\ \A n : Claims(t, n)' <=> Claims(t, n)
  BY DEF Registered, Claims
<1>3. ClaimsOK'
  BY <1>2 DEF ClaimsOK, Holds
<1>4. \A t \in Threads : ThreadOK(t)'
  BY <1>2 DEF ThreadOK, Holds
<1> QED BY <1>1, <1>3, <1>4

LEMMA InductiveStep == IInv /\ [Next]_vars => IInv'
<1> SUFFICES ASSUME IInv, [Next]_vars PROVE IInv'
  OBVIOUS
<1>1. ASSUME NEW t \in Threads, Register(t) PROVE IInv'
  BY <1>1, RegisterPart, InsertPart DEF Register
<1>2. ASSUME NEW t \in Threads, Login(t) PROVE IInv'
  BY <1>2, LoginPart
<1>3. ASSUME NEW t \in Threads, Conclusion(t) PROVE IInv'
  BY <1>3, LogPart, ReplyPart DEF Conclusion
<1> QED BY <1>1, <1>2, <1>3, RemovalPart, RestartPart, UnchangedPart DEF Next

LEMMA Invariance == Spec => []IInv
BY Start, InductiveStep, PTL DEF Spec
------------------------------------------------------------------------------
\* The accounts, the connection and the handlers are what they should be.
THEOREM AccountsTypesCorrect == Spec => []AccountsTypeOK
<1>1. IInv => AccountsTypeOK
  BY DEF IInv
<1> QED BY <1>1, Invariance, PTL

\* Of any number of connections that register one name, one at most is told
\* 201, and from then on its password, and no other, logs in to that name.
THEOREM OneRegistrationWins == Spec => []OneWinner
<1>1. IInv => OneWinner
  <2> SUFFICES ASSUME IInv, NEW n \in Names
               PROVE  /\ wins[n] <= 1
                      /\ (\E i \in DOMAIN Seed : Seed[i].name = n) => wins[n] = 0
                      /\ \A p \in Passwords : <<n, p>> \in told =>
                            {q \in Passwords : \E i \in DOMAIN accounts : Opens(i, n, q)}
                              = {p}
    BY DEF OneWinner
  <2>1. wins[n] \in {0, 1}
    BY DEF IInv, ClaimsOK
  <2>2. ASSUME NEW i \in DOMAIN Seed, Seed[i].name = n, wins[n] = 1 PROVE FALSE
    <3>1. PICK j \in DOMAIN accounts : Len(Seed) < j /\ accounts[j].name = n
      BY <2>2 DEF IInv, ClaimsOK
    <3>2. i \in DOMAIN accounts /\ accounts[i].name = n /\ i # j
      BY <2>2, <3>1, SeedFacts, AccountsFacts DEF IInv, SeedKept
    <3> QED BY <3>1, <3>2 DEF IInv, NamesUnique
  <2>3. ASSUME NEW p \in Passwords, <<n, p>> \in told
        PROVE  {q \in Passwords : \E i \in DOMAIN accounts : Opens(i, n, q)} = {p}
    <3>1. PICK i \in DOMAIN accounts : Holds(i, n, p)
      BY <2>3 DEF IInv, ClaimsOK
    <3>2. Opens(i, n, p)
      BY <3>1 DEF Holds, Opens
    <3>3. \A j \in DOMAIN accounts : \A q : Opens(j, n, q) => j = i /\ q = p
      BY <3>1 DEF IInv, NamesUnique, Holds, Opens
    <3> QED BY <3>2, <3>3
  <2> QED BY <2>1, <2>2, <2>3
<1> QED BY <1>1, Invariance, PTL

\* A handler that no other statement has overtaken answers for its own.
THEOREM AnswersAreOwn == Spec => []OwnAnswer
<1>1. IInv => OwnAnswer
  BY DEF IInv, ThreadOK, OwnAnswer, Registered
<1> QED BY <1>1, Invariance, PTL
==============================================================================
