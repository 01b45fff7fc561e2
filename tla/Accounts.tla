------------------------------- MODULE Accounts ------------------------------
(***************************************************************************)
(* Accounts: handle_register and handle_login (server.cpp) over            *)
(* account_service.cpp, the INSERT into the activity log that ends them,   *)
(* and the two values that handlers read off the one sqlite3 connection    *)
(* all threads share: sqlite3_last_insert_rowid after the INSERT of        *)
(* register_user, and sqlite3_changes after the DELETE of                  *)
(* remove_friend_request, remove_friendship and remove_group_member.       *)
(*                                                                         *)
(* Every SQL statement, and every read of one of those values, is a step:  *)
(* another thread may write in between.  An id is the position of an       *)
(* account (AUTOINCREMENT, and nothing deletes an account); 0 stands for   *)
(* the -1 of "no user".  The rows a removal deletes are items.  Sessions   *)
(* are left to module Sessions: a verified login is accepted or refused.   *)
(* The program never reads the log: of a line only the handler and its     *)
(* result are kept, until the answer is sent.                              *)
(***************************************************************************)
EXTENDS Naturals, Sequences, FiniteSets

CONSTANTS Threads, Names, Passwords, Items,
          NoName, NoPassword,
          Seed,         \* the accounts the seed tool has put there
          MaxAccounts   \* bound on the accounts

Status == {"active", "banned"}
Account == [name : Names, password : Passwords, status : Status]

ASSUME AccountsAssumption ==
    /\ Seed \in Seq(Account)
    /\ \A i, j \in DOMAIN Seed : Seed[i].name = Seed[j].name => i = j
    /\ MaxAccounts \in Nat /\ Len(Seed) <= MaxAccounts
    /\ NoName \notin Names /\ NoPassword \notin Passwords

VARIABLES accounts,     \* the table, by id
          items,        \* rows of friend_requests, friendships, group_members
          lastRowid,    \* sqlite3_last_insert_rowid of the connection
          changes,      \* sqlite3_changes of the connection
          pc,           \* where the handler of each thread is
          form,         \* the username and password it was sent
          uid,          \* the local user_id of a registration
          entry,        \* what it has done and with which result
          \* The rest is history, read by properties only.
          removed,      \* threads whose DELETE has taken a row away
          overtaken,    \* threads that read what another statement had set
          wins,         \* for every name, how many were told 201
          told          \* names and passwords that were told 201

connection == <<lastRowid, changes>>
tables == <<accounts, items>>
history == <<removed, overtaken, wins, told>>
vars == <<tables, connection, pc, form, uid, entry, history>>

Ids == 1..MaxAccounts
AnyInt == 0..MaxAccounts
Form == [name : Names \cup {NoName}, password : Passwords \cup {NoPassword}]
Line == [action : {"register", "login", "remove"}, ok : BOOLEAN]

NoForm == [name |-> NoName, password |-> NoPassword]
NoLine == [action |-> "remove", ok |-> FALSE]

Init ==
    /\ accounts = Seed
    /\ items \in SUBSET Items
    /\ lastRowid = 0 /\ changes = 0
    /\ pc = [t \in Threads |-> "idle"]
    /\ form = [t \in Threads |-> NoForm]
    /\ uid = [t \in Threads |-> 0]
    /\ entry = [t \in Threads |-> NoLine]
    /\ removed = {} /\ overtaken = {}
    /\ wins = [n \in Names |-> 0]
    /\ told = {}
------------------------------------------------------------------------------
Goto(t, loc) == pc' = [pc EXCEPT ![t] = loc]

\* The handler has its result and logs it next.
Conclude(t, action, ok) ==
    /\ Goto(t, "log")
    /\ entry' = [entry EXCEPT ![t] = [action |-> action, ok |-> ok]]

\* A statement of t sets what the threads in the given places have yet to read.
Overtake(t, places) ==
    overtaken' = overtaken \cup {s \in Threads \ {t} : pc[s] \in places}

\* An INSERT of a row of another table: its rowid can be any number.
InsertElsewhere(t) ==
    /\ lastRowid' \in AnyInt
    /\ changes' = 1
    /\ Overtake(t, {"rowid", "changes"})

\* A statement that fails changes no row.
Fail(t) ==
    /\ changes' \in {changes, 0}
    /\ Overtake(t, {"changes"})
    /\ UNCHANGED lastRowid
------------------------------------------------------------------------------
\* handle_register

Taken(n) == \E i \in DOMAIN accounts : accounts[i].name = n

\* The SELECT: 409 when the name is there.  One that fails finds nothing.
RegisterCheck(t, n, p) ==
    /\ pc[t] = "idle"
    /\ form' = [form EXCEPT ![t] = [name |-> n, password |-> p]]
    /\ \/ Taken(n) /\ Conclude(t, "register", FALSE)
       \/ Goto(t, "insert") /\ UNCHANGED entry
    /\ UNCHANGED <<tables, connection, uid, history>>

\* Mutant: the id after the one that was given.
NewIdNext == Len(accounts) + 2

\* AUTOINCREMENT.
NewId == Len(accounts) + 1

\* Mutant: the table without UNIQUE.
RegisterNotUnique(t) ==
    /\ pc[t] = "insert"
    /\ Len(accounts) < MaxAccounts
    /\ accounts' = Append(accounts, [name |-> form[t].name,
                                     password |-> form[t].password,
                                     status |-> "active"])
    /\ lastRowid' = NewId
    /\ changes' = 1
    /\ Overtake(t, {"rowid", "changes"})
    /\ Goto(t, "rowid")
    /\ UNCHANGED <<items, form, uid, entry, removed, wins, told>>

\* The INSERT, under UNIQUE(username).
RegisterInsert(t) ==
    /\ pc[t] = "insert"
    /\ ~ Taken(form[t].name)
    /\ Len(accounts) < MaxAccounts
    /\ accounts' = Append(accounts, [name |-> form[t].name,
                                     password |-> form[t].password,
                                     status |-> "active"])
    /\ lastRowid' = NewId
    /\ changes' = 1
    /\ Overtake(t, {"rowid", "changes"})
    /\ Goto(t, "rowid")
    /\ UNCHANGED <<items, form, uid, entry, removed, wins, told>>

\* The INSERT is refused, by the constraint or the database: 500.
RegisterRefused(t) ==
    /\ pc[t] = "insert"
    /\ Fail(t)
    /\ Conclude(t, "register", FALSE)
    /\ UNCHANGED <<tables, form, uid, removed, wins, told>>

\* *user_id = sqlite3_last_insert_rowid(db).
RegisterRowid(t) ==
    /\ pc[t] = "rowid"
    /\ uid' = [uid EXCEPT ![t] = lastRowid]
    /\ Conclude(t, "register", TRUE)
    /\ UNCHANGED <<tables, connection, form, history>>
------------------------------------------------------------------------------
\* handle_login

\* verify_login: the account is there, not banned, and the password is its own.
Opens(i, n, p) ==
    /\ accounts[i].name = n
    /\ accounts[i].status # "banned"
    /\ accounts[i].password = p

\* A verified login is accepted, or refused because of a session (409).
LoginVerified(t) ==
    /\ pc[t] = "idle"
    /\ \E i \in DOMAIN accounts, n \in Names, p \in Passwords : Opens(i, n, p)
    /\ \E ok \in BOOLEAN : Conclude(t, "login", ok)
    /\ UNCHANGED <<tables, connection, form, uid, history>>

\* A login fails for its name, its password, a ban or an error.  The user_id it
\* then logs is uninitialised, unless the name is unknown.
LoginFailed(t) ==
    /\ pc[t] = "idle"
    /\ Conclude(t, "login", FALSE)
    /\ UNCHANGED <<tables, connection, form, uid, history>>
------------------------------------------------------------------------------
\* The rows that handlers add and remove.

Add(t, i) ==
    /\ pc[t] = "idle"
    /\ i \notin items
    /\ items' = items \cup {i}
    /\ InsertElsewhere(t)
    /\ UNCHANGED <<accounts, pc, form, uid, entry, removed, wins, told>>

RemoveDelete(t, i) ==
    /\ pc[t] = "idle"
    /\ items' = items \ {i}
    /\ changes' = IF i \in items THEN 1 ELSE 0
    /\ removed' = IF i \in items THEN removed \cup {t} ELSE removed
    /\ Overtake(t, {"changes"})
    /\ Goto(t, "changes")
    /\ UNCHANGED <<accounts, lastRowid, form, uid, entry, wins, told>>

\* Mutant: a DELETE that matches nothing counts as done, as in delete_group.
RemoveDone(t) == TRUE

\* sqlite3_changes(db) > 0.
RemoveSucceeded(t) == changes > 0

RemoveChanges(t) ==
    /\ pc[t] = "changes"
    /\ Conclude(t, "remove", RemoveSucceeded(t))
    /\ UNCHANGED <<tables, connection, form, uid, history>>

RemoveRefused(t) ==
    /\ pc[t] = "idle"
    /\ Fail(t)
    /\ Conclude(t, "remove", FALSE)
    /\ UNCHANGED <<tables, form, uid, removed, wins, told>>
------------------------------------------------------------------------------
\* log_activity, whose result is ignored.

LogWritten(t) ==
    /\ pc[t] = "log"
    /\ InsertElsewhere(t)
    /\ Goto(t, "reply")
    /\ UNCHANGED <<tables, form, uid, entry, removed, wins, told>>

LogRefused(t) ==
    /\ pc[t] = "log"
    /\ Fail(t)
    /\ Goto(t, "reply")
    /\ UNCHANGED <<tables, form, uid, entry, removed, wins, told>>

\* The answer: 201, 200 or a refusal.  The code sends a refusal before it writes
\* the log, which makes no difference to the state kept here.
Reply(t) ==
    LET registered == entry[t].action = "register" /\ entry[t].ok
        n == form[t].name
    IN  /\ pc[t] = "reply"
        /\ wins' = IF registered THEN [wins EXCEPT ![n] = @ + 1] ELSE wins
        /\ told' = IF registered THEN told \cup {<<n, form[t].password>>} ELSE told
        /\ Goto(t, "idle")
        /\ form' = [form EXCEPT ![t] = NoForm]
        /\ uid' = [uid EXCEPT ![t] = 0]
        /\ entry' = [entry EXCEPT ![t] = NoLine]
        /\ removed' = removed \ {t}
        /\ overtaken' = overtaken \ {t}
        /\ UNCHANGED <<tables, connection>>

\* The process ends and is started again on the same file.
Restart ==
    /\ lastRowid' = 0 /\ changes' = 0
    /\ pc' = [t \in Threads |-> "idle"]
    /\ form' = [t \in Threads |-> NoForm]
    /\ uid' = [t \in Threads |-> 0]
    /\ entry' = [t \in Threads |-> NoLine]
    /\ removed' = {} /\ overtaken' = {}
    /\ UNCHANGED <<tables, wins, told>>

Register(t) ==
    \/ \E n \in Names, p \in Passwords : RegisterCheck(t, n, p)
    \/ RegisterInsert(t) \/ RegisterRefused(t) \/ RegisterRowid(t)

Login(t) == LoginVerified(t) \/ LoginFailed(t)

Removal(t) ==
    \/ \E i \in Items : Add(t, i) \/ RemoveDelete(t, i)
    \/ RemoveChanges(t) \/ RemoveRefused(t)

Conclusion(t) == LogWritten(t) \/ LogRefused(t) \/ Reply(t)

Next ==
    \/ \E t \in Threads : Register(t) \/ Login(t) \/ Removal(t) \/ Conclusion(t)
    \/ Restart

Spec == Init /\ [][Next]_vars
------------------------------------------------------------------------------
AccountsTypeOK ==
    /\ accounts \in Seq(Account) /\ Len(accounts) <= MaxAccounts
    /\ items \subseteq Items
    /\ lastRowid \in AnyInt /\ changes \in {0, 1}
    /\ pc \in [Threads -> {"idle", "insert", "rowid", "changes", "log", "reply"}]
    /\ form \in [Threads -> Form] /\ uid \in [Threads -> AnyInt]
    /\ entry \in [Threads -> Line]
    /\ removed \subseteq Threads /\ overtaken \subseteq Threads
    /\ wins \in [Names -> Nat]
    /\ told \subseteq Names \X Passwords

\* Account i belongs to whoever knows this name and password, and is in use.
Holds(i, n, p) == accounts[i] = [name |-> n, password |-> p, status |-> "active"]

\* However many connections register one name at the same time, one at most is
\* told 201, never for a name of the seed, and from then on the password it chose
\* logs in to that name, and no other does.  The check in register_user does not
\* ensure this: UNIQUE(username) does.
OneWinner ==
    \A n \in Names :
        /\ wins[n] <= 1
        /\ (\E i \in DOMAIN Seed : Seed[i].name = n) => wins[n] = 0
        /\ \A p \in Passwords : <<n, p>> \in told =>
              {q \in Passwords : \E i \in DOMAIN accounts : Opens(i, n, q)} = {p}

\* What a handler reads off the shared connection is about its own statement
\* unless another thread's statement came between the two: only then may 201
\* carry another id, or a removal be reported that was none, or none that was.
OwnAnswer ==
    \A t \in Threads \ overtaken :
        pc[t] \in {"log", "reply"} =>
            /\ entry[t].action = "register" /\ entry[t].ok =>
                  /\ uid[t] \in DOMAIN accounts
                  /\ Holds(uid[t], form[t].name, form[t].password)
            /\ entry[t].action = "remove" => (entry[t].ok <=> t \in removed)
==============================================================================
