-------------------------------- MODULE Groups -------------------------------
(***************************************************************************)
(* Groups, their members and their messages: the group handlers of         *)
(* server.cpp over group_service.cpp.                                      *)
(*                                                                         *)
(* Every SQL statement is a step, as in module Friends, and so is the read *)
(* of sqlite3_last_insert_rowid: all threads share one connection, whose   *)
(* last rowid is that of the last INSERT of any of them, activity log      *)
(* included.  A user runs one handler at a time.  The schema's constraints *)
(* (UNIQUE name, AUTOINCREMENT, foreign keys with ON DELETE CASCADE) are   *)
(* part of the steps.  Replies and the lists that are only read are left   *)
(* out.                                                                    *)
(***************************************************************************)
EXTENDS Naturals, FiniteSets

CONSTANTS Users, Names, NoUser, NoName,
          MaxGroups     \* bound on the groups ever created

ASSUME GroupsAssumption ==
    NoUser \notin Users /\ NoName \notin Names /\ MaxGroups \in Nat

VARIABLES pc,           \* where the handler of each user is
          grp,          \* its local group_id (0: none)
          target,       \* its local target_user_id
          groups,       \* a function from group_id to name and owner
          created,      \* AUTOINCREMENT: the largest group_id given so far
          members,      \* group_members: <<group_id, user_id>>
          messages,     \* group_messages: <<group_id, sender_id>>
          lastRowid,    \* sqlite3_last_insert_rowid of the shared connection
          \* The rest is history, read by properties only.
          named,        \* the group_name a handler was asked for
          joined,       \* every membership there has ever been
          disturbed     \* something went wrong that create_group cannot mend

tables == <<groups, created, members, messages, lastRowid>>
history == <<joined, disturbed>>
locals == <<grp, target, named>>
vars == <<pc, locals, tables, history>>

Gids == 1..MaxGroups
Live == DOMAIN groups
Group == [name : Names, owner : Users]

Init ==
    /\ pc = [u \in Users |-> "idle"]
    /\ grp = [u \in Users |-> 0]
    /\ target = [u \in Users |-> NoUser]
    /\ named = [u \in Users |-> NoName]
    /\ groups = [g \in {} |-> NoUser]
    /\ created = 0 /\ lastRowid = 0
    /\ members = {} /\ messages = {}
    /\ joined = {} /\ disturbed = FALSE

Goto(u, loc) == pc' = [pc EXCEPT ![u] = loc] /\ UNCHANGED locals

Done(u) ==
    /\ pc' = [pc EXCEPT ![u] = "idle"]
    /\ grp' = [grp EXCEPT ![u] = 0]
    /\ target' = [target EXCEPT ![u] = NoUser]
    /\ named' = [named EXCEPT ![u] = NoName]

\* The database refuses a write: an error, or a constraint.
Refused(u, from) ==
    /\ pc[u] = from
    /\ disturbed' = TRUE
    /\ Done(u)
    /\ UNCHANGED <<tables, joined>>

IsOwner(g, u)  == g \in Live /\ groups[g].owner = u
IsMember(g, u) == <<g, u>> \in members
------------------------------------------------------------------------------
\* A handler that names a group starts with get_group_id_by_name.  A name that
\* no group has ends it, as does a target that is the user, in remove.
Find(u, name, v, loc) ==
    /\ pc[u] = "idle"
    /\ \E g \in Live : groups[g].name = name /\ grp' = [grp EXCEPT ![u] = g]
    /\ pc' = [pc EXCEPT ![u] = loc]
    /\ target' = [target EXCEPT ![u] = v]
    /\ named' = [named EXCEPT ![u] = name]
    /\ UNCHANGED <<tables, history>>

\* A SELECT that decides whether the handler goes on.
Check(u, from, ok, to) ==
    /\ pc[u] = from
    /\ IF ok THEN Goto(u, to) ELSE Done(u)
    /\ UNCHANGED <<tables, history>>

\* The foreign key: a member or a message needs a group that exists.
\*
\* Mutant: PRAGMA foreign_keys is left at its default, off.
ReferencesAnything(g) == g \in Gids

References(g) == g \in Live

\* An INSERT disturbs a handler that has yet to read the rowid of its own.
Insert == disturbed' = (disturbed \/ \E w \in Users : pc[w] = "create_rowid")

\* INSERT OR IGNORE.  A new row moves last_insert_rowid to its own rowid, which
\* is of another table and can be any number.
AddMember(u, v, from) ==
    /\ pc[u] = from
    /\ References(grp[u])
    /\ members' = members \cup {<<grp[u], v>>}
    /\ joined' = joined \cup {<<grp[u], v>>}
    /\ lastRowid' \in IF IsMember(grp[u], v) THEN {lastRowid} ELSE 0..MaxGroups
    /\ Done(u)
    /\ Insert
    /\ UNCHANGED <<groups, created, messages>>

RemoveMember(u, v, from) ==
    /\ pc[u] = from
    /\ members' = members \ {<<grp[u], v>>}
    /\ Done(u)
    /\ UNCHANGED <<groups, created, messages, lastRowid, history>>
------------------------------------------------------------------------------
\* handle_create_group

\* Mutant: an id without AUTOINCREMENT is the largest one in use, plus one.
NextGidReused ==
    CHOOSE g \in 1..(MaxGroups + 1) :
        (\A h \in Live : h < g) /\ (g = 1 \/ g - 1 \in Live)

NextGid == created + 1

CreateInsert(u, name) ==
    /\ pc[u] = "idle"
    /\ \A g \in Live : groups[g].name # name
    /\ created < MaxGroups
    /\ groups' = [g \in Live \cup {NextGid} |->
                    IF g = NextGid THEN [name |-> name, owner |-> u] ELSE groups[g]]
    /\ created' = NextGid
    /\ lastRowid' = NextGid
    /\ Goto(u, "create_rowid")
    /\ Insert
    /\ UNCHANGED <<members, messages, joined>>

CreateRowid(u) ==
    /\ pc[u] = "create_rowid"
    /\ grp' = [grp EXCEPT ![u] = lastRowid]
    /\ pc' = [pc EXCEPT ![u] = "create_member"]
    /\ UNCHANGED <<target, named, tables, history>>

CreateMember(u) == AddMember(u, u, "create_member")
------------------------------------------------------------------------------
\* handle_add_to_group and handle_remove_from_group

\* Mutants: an unknown target is not refused; a member may add; the user may
\* be its own target.
AddFindNobody(u, name, v) == Find(u, name, NoUser, "add_owner")
AddOwnerMember(u) == Check(u, "add_owner", IsMember(grp[u], u), "add_insert")
RemoveFindSelf(u, name, v) == Find(u, name, v, "remove_owner")

AddFind(u, name, v) == Find(u, name, v, "add_owner")
AddOwner(u)  == Check(u, "add_owner", IsOwner(grp[u], u), "add_insert")
AddInsert(u) == AddMember(u, target[u], "add_insert")

RemoveFind(u, name, v) == u # v /\ Find(u, name, v, "remove_owner")
RemoveOwner(u)  == Check(u, "remove_owner", IsOwner(grp[u], u), "remove_member")
RemoveIsMember(u) ==
    Check(u, "remove_member", IsMember(grp[u], target[u]), "remove_delete")
RemoveDelete(u) == RemoveMember(u, target[u], "remove_delete")

\* handle_leave_group: the owner dissolves the group, anyone else only leaves.
LeaveFind(u, name) == Find(u, name, u, "leave_member")
LeaveIsMember(u) ==
    Check(u, "leave_member", IsMember(grp[u], u), "leave_owner")

LeaveOwner(u) ==
    /\ pc[u] = "leave_owner"
    /\ Goto(u, IF IsOwner(grp[u], u) THEN "leave_dissolve" ELSE "leave_delete")
    /\ UNCHANGED <<tables, history>>

LeaveDelete(u) == RemoveMember(u, u, "leave_delete")

\* delete_group: the cascade takes the members and the messages along.
Cascaded(rows, g) == {r \in rows : r[1] # g}

LeaveDissolve(u) ==
    /\ pc[u] = "leave_dissolve"
    /\ groups' = [g \in Live \ {grp[u]} |-> groups[g]]
    /\ members' = Cascaded(members, grp[u])
    /\ messages' = Cascaded(messages, grp[u])
    /\ Done(u)
    /\ UNCHANGED <<created, lastRowid, history>>
------------------------------------------------------------------------------
\* handle_send_group_message

\* Mutant: the membership is not checked.
SendUnchecked(u) == Check(u, "send_member", TRUE, "send_insert")

SendFind(u, name) == Find(u, name, NoUser, "send_member")
SendIsMember(u) == Check(u, "send_member", IsMember(grp[u], u), "send_insert")

SendInsert(u) ==
    /\ pc[u] = "send_insert"
    /\ References(grp[u])
    /\ messages' = messages \cup {<<grp[u], u>>}
    /\ lastRowid' \in 0..MaxGroups
    /\ Done(u)
    /\ Insert
    /\ UNCHANGED <<groups, created, members, joined>>
------------------------------------------------------------------------------
\* An INSERT of any other handler: a message, a request, a line of the log.
OtherInsert ==
    /\ lastRowid' \in 0..MaxGroups
    /\ Insert
    /\ UNCHANGED <<pc, locals, groups, created, members, messages, joined>>

Restart ==
    /\ pc' = [u \in Users |-> "idle"]
    /\ grp' = [u \in Users |-> 0]
    /\ target' = [u \in Users |-> NoUser]
    /\ named' = [u \in Users |-> NoName]
    /\ disturbed' = TRUE
    /\ lastRowid' = 0
    /\ UNCHANGED <<groups, created, members, messages, joined>>

Step(u) ==
    \/ CreateRowid(u) \/ CreateMember(u)
    \/ AddOwner(u) \/ AddInsert(u)
    \/ RemoveOwner(u) \/ RemoveIsMember(u) \/ RemoveDelete(u)
    \/ LeaveIsMember(u) \/ LeaveOwner(u) \/ LeaveDelete(u) \/ LeaveDissolve(u)
    \/ SendIsMember(u) \/ SendInsert(u)
    \/ \E w \in {"create_member", "add_insert", "remove_delete", "leave_delete",
                 "leave_dissolve", "send_insert"} : Refused(u, w)

Next ==
    \/ \E u \in Users : Step(u)
    \/ \E u \in Users, name \in Names :
          \/ CreateInsert(u, name) \/ LeaveFind(u, name) \/ SendFind(u, name)
          \/ \E v \in Users : AddFind(u, name, v) \/ RemoveFind(u, name, v)
    \/ OtherInsert
    \/ Restart

Spec == Init /\ [][Next]_vars
------------------------------------------------------------------------------
GroupsTypeOK ==
    /\ pc \in [Users -> {"idle", "create_rowid", "create_member", "add_owner",
                 "add_insert", "remove_owner", "remove_member", "remove_delete",
                 "leave_member", "leave_owner", "leave_delete",
                 "leave_dissolve", "send_member", "send_insert"}]
    /\ grp \in [Users -> 0..MaxGroups]
    /\ target \in [Users -> Users \cup {NoUser}]
    /\ named \in [Users -> Names \cup {NoName}]
    /\ Live \subseteq 1..created /\ groups \in [Live -> Group]
    /\ created \in 0..MaxGroups
    /\ members \subseteq Gids \X Users
    /\ messages \subseteq Gids \X Users
    /\ lastRowid \in 0..MaxGroups
    /\ joined \subseteq Gids \X Users
    /\ disturbed \in BOOLEAN

\* A handler acts on the group it was asked for or on none.  The group may be
\* dissolved and another one created between its statements, but the id that
\* get_group_id_by_name returned is never given to a group of another name.
ActsOnNamedGroup ==
    \A u \in Users :
        named[u] # NoName /\ grp[u] \in Live => groups[grp[u]].name = named[u]

\* What is_group_owner said is still so when the handler acts on it: only an
\* owner removes others and dissolves, and leave never strands a group.
OwnerCheckHolds ==
    \A u \in Users : grp[u] \in Live =>
        /\ pc[u] \in {"add_insert", "remove_member", "remove_delete",
                      "leave_dissolve"} => groups[grp[u]].owner = u
        /\ pc[u] = "leave_delete" => groups[grp[u]].owner # u

\* A dissolved group leaves nothing behind: members and messages, those added
\* while it was being dissolved included, belong to groups that exist.
NothingOutlivesGroup ==
    \A r \in members \cup messages : r[1] \in Live

\* Whoever wrote to a group was a member of that very group at some time.
SenderWasMember == messages \subseteq joined

\* An owner that is a member stays one as long as the group exists: remove
\* refuses its own user, and leave dissolves.
OwnerStaysMember ==
    [][\A g \in Live \cap DOMAIN groups' :
          <<g, groups[g].owner>> \in members => <<g, groups[g].owner>> \in members']_vars

\* "Add the creator to the group": the owner of a group is its member once
\* create_group is over, with three exceptions only: a write was refused, the
\* process was restarted, or some INSERT of another handler came between the
\* creator's INSERT and its read of last_insert_rowid.
OwnerIsMember ==
    ~ disturbed =>
        \A g \in Live :
            \/ pc[groups[g].owner] \in {"create_rowid", "create_member"}
            \/ <<g, groups[g].owner>> \in members
==============================================================================
