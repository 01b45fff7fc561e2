---------------------------- MODULE GroupsProofs -----------------------------
(***************************************************************************)
(* Proofs about Groups, for any set of users and of names and any bound on *)
(* the groups.                                                             *)
(***************************************************************************)
EXTENDS Groups, TLAPS

\* Handlers that have no group_name to look up.
NoLookup == {"idle", "create_rowid", "create_member"}

\* An id that get_group_id_by_name returned has been given to a group, so that
\* no later group gets it.
FoundIsOld ==
    \A u \in Users : IF pc[u] \in NoLookup THEN named[u] = NoName
                                           ELSE grp[u] \in 1..created

\* The locals that the checks of remove and of send leave behind.
RemovesAnother ==
    \A u \in Users :
        pc[u] \in {"remove_owner", "remove_member", "remove_delete"} =>
            target[u] # u

TargetKnown ==
    \A u \in Users :
        pc[u] \in {"add_owner", "add_insert", "remove_owner", "remove_member",
                   "remove_delete"} => target[u] \in Users

SendWasChecked ==
    /\ members \subseteq joined
    /\ \A u \in Users : pc[u] = "send_insert" => <<grp[u], u>> \in joined

IInv == /\ GroupsTypeOK
        /\ FoundIsOld /\ TargetKnown /\ RemovesAnother /\ SendWasChecked
        /\ ActsOnNamedGroup /\ OwnerCheckHolds
        /\ NothingOutlivesGroup /\ SenderWasMember

USE GroupsAssumption
------------------------------------------------------------------------------
LEMMA Start == Init => IInv
<1> SUFFICES ASSUME Init PROVE IInv
  OBVIOUS
<1>1. Live = {}
  BY DEF Init, Live
<1>2. groups \in [Live -> Group]
  <2>1. groups = [g \in Live |-> NoUser]
    BY <1>1 DEF Init
  <2>2. \A g \in Live : NoUser \in Group
    BY <1>1
  <2> QED BY <2>1, <2>2
<1>3. GroupsTypeOK
  <2>1. grp \in [Users -> 0..MaxGroups] /\ created \in 0..MaxGroups
        /\ lastRowid \in 0..MaxGroups
    BY DEF Init
  <2>2. pc = [u \in Users |-> "idle"] /\ target \in [Users -> Users \cup {NoUser}]
        /\ named \in [Users -> Names \cup {NoName}] /\ disturbed \in BOOLEAN
    BY DEF Init
  <2>3. /\ members \subseteq Gids \X Users /\ messages \subseteq Gids \X Users
        /\ joined \subseteq Gids \X Users /\ Live \subseteq 1..created
    BY <1>1 DEF Init
  <2> QED BY <1>2, <2>1, <2>2, <2>3 DEF GroupsTypeOK
<1>4. FoundIsOld /\ TargetKnown /\ RemovesAnother /\ SendWasChecked
  BY DEF Init, FoundIsOld, NoLookup, TargetKnown, RemovesAnother, SendWasChecked
<1>5. ActsOnNamedGroup /\ OwnerCheckHolds
  BY <1>1 DEF ActsOnNamedGroup, OwnerCheckHolds
<1>6. NothingOutlivesGroup /\ SenderWasMember
  BY DEF Init, NothingOutlivesGroup, SenderWasMember
<1> QED BY <1>3, <1>4, <1>5, <1>6 DEF IInv

\* A step that only moves its own user and leaves the tables alone keeps the
\* invariant when the locals it leaves satisfy it.
LEMMA LocalPart ==
    ASSUME IInv, UNCHANGED <<tables, joined>>, NEW u \in Users,
           disturbed' \in BOOLEAN,
           GroupsTypeOK',
           \A w \in Users \ {u} : /\ pc'[w] = pc[w] /\ grp'[w] = grp[w]
                                  /\ target'[w] = target[w]
                                  /\ named'[w] = named[w],
           IF pc'[u] \in NoLookup THEN named'[u] = NoName
                                  ELSE grp'[u] \in 1..created,
           pc'[u] \in {"add_owner", "add_insert", "remove_owner",
                       "remove_member", "remove_delete"} => target'[u] \in Users,
           pc'[u] \in {"remove_owner", "remove_member", "remove_delete"} =>
               target'[u] # u,
           pc'[u] = "send_insert" => <<grp'[u], u>> \in joined,
           named'[u] # NoName /\ grp'[u] \in Live =>
               groups[grp'[u]].name = named'[u],
           grp'[u] \in Live =>
               /\ pc'[u] \in {"add_insert", "remove_member", "remove_delete",
                              "leave_dissolve"} => groups[grp'[u]].owner = u
               /\ pc'[u] = "leave_delete" => groups[grp'[u]].owner # u
    PROVE  IInv'
<1> USE DEF IInv, tables, Live
<1>1. FoundIsOld'
  BY DEF FoundIsOld, NoLookup
<1>2. TargetKnown' /\ RemovesAnother'
  BY DEF TargetKnown, RemovesAnother
<1>3. SendWasChecked'
  BY DEF SendWasChecked
<1>4. ActsOnNamedGroup'
  BY DEF ActsOnNamedGroup
<1>5. OwnerCheckHolds'
  BY DEF OwnerCheckHolds
<1>6. NothingOutlivesGroup' /\ SenderWasMember'
  BY DEF NothingOutlivesGroup, SenderWasMember
<1> QED BY <1>1, <1>2, <1>3, <1>4, <1>5, <1>6

LEMMA FindPart ==
    ASSUME IInv, NEW u \in Users, NEW name \in Names,
           NEW v \in Users \cup {NoUser},
           NEW loc \in {"add_owner", "remove_owner", "leave_member", "send_member"},
           loc \in {"add_owner", "remove_owner"} => v \in Users,
           loc = "remove_owner" => v # u,
           Find(u, name, v, loc)
    PROVE  IInv'
<1> USE DEF IInv, GroupsTypeOK, Find
<1>1. PICK g \in Live : groups[g].name = name /\ grp' = [grp EXCEPT ![u] = g]
  OBVIOUS
<1>2. g \in 1..created /\ g \in 0..MaxGroups
  BY <1>1 DEF Live
<1>3. GroupsTypeOK'
  BY <1>1, <1>2 DEF tables, history, Live
<1>4. UNCHANGED <<tables, joined>> /\ disturbed' \in BOOLEAN
  BY DEF history
<1>5. pc'[u] = loc /\ grp'[u] = g /\ target'[u] = v /\ named'[u] = name
  BY <1>1
<1>6. \A w \in Users \ {u} : /\ pc'[w] = pc[w] /\ grp'[w] = grp[w]
                              /\ target'[w] = target[w]
                              /\ named'[w] = named[w]
  BY <1>1
<1>7. loc \notin NoLookup \cup {"add_insert", "remove_member",
                  "remove_delete", "leave_dissolve", "leave_delete", "send_insert"}
  BY DEF NoLookup
<1> HIDE DEF IInv, Find
<1> QED
  BY <1>1, <1>2, <1>3, <1>4, <1>5, <1>6, <1>7, LocalPart

LEMMA DonePart ==
    ASSUME IInv, NEW u \in Users, Done(u), UNCHANGED <<tables, joined>>,
           disturbed' \in BOOLEAN
    PROVE  IInv'
<1>1. GroupsTypeOK'
  BY DEF IInv, GroupsTypeOK, Done, tables, Live
<1> QED BY <1>1, LocalPart DEF IInv, GroupsTypeOK, Done, NoLookup, Live

\* The SELECTs after the lookup: what is handed on is what the invariant says
\* of the next location.
LEMMA GotoPart ==
    ASSUME IInv, NEW u \in Users, NEW loc, Goto(u, loc),
           UNCHANGED <<tables, history>>,
           <<pc[u], loc>> \in
               {<<"add_owner", "add_insert">>,
                <<"remove_owner", "remove_member">>,
                <<"remove_member", "remove_delete">>,
                <<"leave_member", "leave_owner">>,
                <<"leave_owner", "leave_dissolve">>,
                <<"leave_owner", "leave_delete">>,
                <<"send_member", "send_insert">>},
           loc \in {"add_insert", "remove_member", "leave_dissolve"} =>
               IsOwner(grp[u], u),
           loc = "leave_delete" => ~ IsOwner(grp[u], u),
           loc = "send_insert" => IsMember(grp[u], u)
    PROVE  IInv'
<1> USE DEF Goto, locals, history
<1>1. GroupsTypeOK'
  BY DEF IInv, GroupsTypeOK, tables, Live
<1>2. pc'[u] = loc /\ \A w \in Users \ {u} : pc'[w] = pc[w]
  BY DEF IInv, GroupsTypeOK
<1>3. grp[u] \in 1..created
  BY DEF IInv, FoundIsOld, NoLookup
<1>4. loc \notin NoLookup
  BY DEF NoLookup
<1>5. loc \in {"add_insert", "remove_member", "remove_delete"} =>
          target[u] \in Users
  BY DEF IInv, TargetKnown
<1>6. loc \in {"remove_member", "remove_delete"} => target[u] # u
  BY DEF IInv, RemovesAnother
<1>7. loc = "send_insert" => <<grp[u], u>> \in joined
  BY DEF IInv, SendWasChecked, IsMember
<1>8. named[u] # NoName /\ grp[u] \in Live => groups[grp[u]].name = named[u]
  BY DEF IInv, ActsOnNamedGroup
<1>9. grp[u] \in Live =>
          /\ loc \in {"add_insert", "remove_member", "remove_delete",
                      "leave_dissolve"} => groups[grp[u]].owner = u
          /\ loc = "leave_delete" => groups[grp[u]].owner # u
  BY DEF IInv, OwnerCheckHolds, IsOwner
<1>10. loc \notin {"add_owner", "remove_owner"}
  OBVIOUS
<1>11. disturbed' \in BOOLEAN
  BY DEF IInv, GroupsTypeOK
<1> QED
  BY <1>1, <1>2, <1>3, <1>4, <1>5, <1>6, <1>7, <1>8, <1>9, <1>10, <1>11,
     LocalPart

LEMMA CheckPart ==
    ASSUME IInv, NEW u \in Users,
           \/ AddOwner(u) \/ RemoveOwner(u) \/ RemoveIsMember(u)
           \/ LeaveIsMember(u) \/ LeaveOwner(u) \/ SendIsMember(u)
    PROVE  IInv'
<1>1. ASSUME NEW from, NEW ok, NEW to, Check(u, from, ok, to), ~ ok
      PROVE  IInv'
  BY <1>1, DonePart DEF Check, history, IInv, GroupsTypeOK
<1>2. CASE AddOwner(u)
  BY <1>2, <1>1, GotoPart DEF AddOwner, Check
<1>3. CASE RemoveOwner(u)
  BY <1>3, <1>1, GotoPart DEF RemoveOwner, Check
<1>4. CASE RemoveIsMember(u)
  BY <1>4, <1>1, GotoPart DEF RemoveIsMember, Check
<1>5. CASE LeaveIsMember(u)
  BY <1>5, <1>1, GotoPart DEF LeaveIsMember, Check
<1>6. CASE LeaveOwner(u)
  BY <1>6, GotoPart DEF LeaveOwner
<1>7. CASE SendIsMember(u)
  BY <1>7, <1>1, GotoPart DEF SendIsMember, Check
<1> QED BY <1>2, <1>3, <1>4, <1>5, <1>6, <1>7

\* What an INSERT does to the history keeps its type.
LEMMA InsertPart ==
    ASSUME Insert
    PROVE  disturbed' \in BOOLEAN
BY DEF Insert

LEMMA AddPart ==
    ASSUME IInv, NEW u \in Users, NEW v \in Users, NEW from, AddMember(u, v, from)
    PROVE  IInv'
<1> USE DEF IInv, GroupsTypeOK, AddMember, References, Done, Live
<1>1. grp[u] \in Gids
  BY DEF Gids
<1>2. GroupsTypeOK'
  BY <1>1, InsertPart
<1>3. FoundIsOld' /\ TargetKnown' /\ RemovesAnother'
  BY DEF FoundIsOld, NoLookup, TargetKnown, RemovesAnother
<1>4. SendWasChecked'
  BY DEF SendWasChecked
<1>5. ActsOnNamedGroup' /\ OwnerCheckHolds'
  BY DEF ActsOnNamedGroup, OwnerCheckHolds
<1>6. NothingOutlivesGroup' /\ SenderWasMember'
  BY DEF NothingOutlivesGroup, SenderWasMember
<1> QED BY <1>2, <1>3, <1>4, <1>5, <1>6

LEMMA RemovePart ==
    ASSUME IInv, NEW u \in Users, NEW v \in Users, NEW from,
           RemoveMember(u, v, from)
    PROVE  IInv'
<1> USE DEF IInv, GroupsTypeOK, RemoveMember, Done, Live, history
<1>1. GroupsTypeOK'
  OBVIOUS
<1>2. FoundIsOld' /\ TargetKnown' /\ RemovesAnother' /\ SendWasChecked'
  BY DEF FoundIsOld, NoLookup, TargetKnown, RemovesAnother, SendWasChecked
<1>3. ActsOnNamedGroup' /\ OwnerCheckHolds'
  BY DEF ActsOnNamedGroup, OwnerCheckHolds
<1>4. NothingOutlivesGroup' /\ SenderWasMember'
  BY DEF NothingOutlivesGroup, SenderWasMember
<1> QED BY <1>1, <1>2, <1>3, <1>4

\* No handler has found the id that AUTOINCREMENT gives to the new group.
LEMMA CreateInsertPart ==
    ASSUME IInv, NEW u \in Users, NEW name \in Names, CreateInsert(u, name)
    PROVE  IInv'
<1> USE DEF IInv, GroupsTypeOK, CreateInsert, NextGid, Goto, locals, history
<1>1. created + 1 \in 0..MaxGroups /\ created + 1 \notin 1..created
  OBVIOUS
<1>2. /\ DOMAIN groups' = Live \cup {created + 1}
      /\ \A g \in Live : groups'[g] = groups[g]
      /\ groups'[created + 1] = [name |-> name, owner |-> u]
  BY <1>1 DEF Live
<1>3. groups' \in [DOMAIN groups' -> Group]
  BY <1>1, <1>2 DEF Live, Group
<1>4. GroupsTypeOK'
  BY <1>1, <1>2, <1>3, InsertPart DEF Live
<1>5. FoundIsOld' /\ TargetKnown' /\ RemovesAnother' /\ SendWasChecked'
  BY DEF FoundIsOld, NoLookup, TargetKnown, RemovesAnother, SendWasChecked
<1>6. \A w \in Users : pc'[w] \notin NoLookup =>
          pc'[w] = pc[w] /\ grp[w] \in 1..created
  BY DEF FoundIsOld, NoLookup
<1>7. ActsOnNamedGroup'
  BY <1>1, <1>2, <1>6 DEF ActsOnNamedGroup, FoundIsOld, NoLookup, Live
<1>8. OwnerCheckHolds'
  BY <1>1, <1>2, <1>6 DEF OwnerCheckHolds, NoLookup, Live
<1>9. NothingOutlivesGroup' /\ SenderWasMember'
  BY <1>2 DEF NothingOutlivesGroup, SenderWasMember, Live
<1> QED BY <1>4, <1>5, <1>7, <1>8, <1>9

LEMMA CreateRowidPart ==
    ASSUME IInv, NEW u \in Users, CreateRowid(u)
    PROVE  IInv'
<1> USE DEF IInv, GroupsTypeOK, CreateRowid, tables, history, Live
<1>1. GroupsTypeOK'
  OBVIOUS
<1>2. FoundIsOld' /\ TargetKnown' /\ RemovesAnother' /\ SendWasChecked'
  BY DEF FoundIsOld, NoLookup, TargetKnown, RemovesAnother, SendWasChecked
<1>3. ActsOnNamedGroup' /\ OwnerCheckHolds'
  BY DEF ActsOnNamedGroup, OwnerCheckHolds, FoundIsOld, NoLookup
<1>4. NothingOutlivesGroup' /\ SenderWasMember'
  BY DEF NothingOutlivesGroup, SenderWasMember
<1> QED BY <1>1, <1>2, <1>3, <1>4

LEMMA DissolvePart ==
    ASSUME IInv, NEW u \in Users, LeaveDissolve(u)
    PROVE  IInv'
<1> USE DEF IInv, GroupsTypeOK, LeaveDissolve, Cascaded, Done, history
<1>1. /\ DOMAIN groups' = Live \ {grp[u]}
      /\ \A g \in DOMAIN groups' : groups'[g] = groups[g]
  BY DEF Live
<1>2. groups' \in [DOMAIN groups' -> Group]
  BY <1>1
<1>3. GroupsTypeOK'
  BY <1>1, <1>2 DEF Live
<1>4. FoundIsOld' /\ TargetKnown' /\ RemovesAnother' /\ SendWasChecked'
  BY DEF FoundIsOld, NoLookup, TargetKnown, RemovesAnother, SendWasChecked
<1>5. ActsOnNamedGroup' /\ OwnerCheckHolds'
  BY <1>1 DEF ActsOnNamedGroup, OwnerCheckHolds, Live
<1>6. NothingOutlivesGroup' /\ SenderWasMember'
  BY <1>1 DEF NothingOutlivesGroup, SenderWasMember, Live
<1> QED BY <1>3, <1>4, <1>5, <1>6

LEMMA SendPart ==
    ASSUME IInv, NEW u \in Users, SendInsert(u)
    PROVE  IInv'
<1> USE DEF IInv, GroupsTypeOK, SendInsert, References, Done, Live, history
<1>1. grp[u] \in Gids
  BY DEF Gids
<1>2. GroupsTypeOK'
  BY <1>1, InsertPart
<1>3. FoundIsOld' /\ TargetKnown' /\ RemovesAnother' /\ SendWasChecked'
  BY DEF FoundIsOld, NoLookup, TargetKnown, RemovesAnother, SendWasChecked
<1>4. ActsOnNamedGroup' /\ OwnerCheckHolds'
  BY DEF ActsOnNamedGroup, OwnerCheckHolds
<1>5. NothingOutlivesGroup' /\ SenderWasMember'
  BY DEF NothingOutlivesGroup, SenderWasMember, SendWasChecked
<1> QED BY <1>2, <1>3, <1>4, <1>5

\* The steps that move neither a handler nor a table that the invariant reads.
LEMMA StutterPart ==
    ASSUME IInv, UNCHANGED <<pc, locals, groups, created, members, messages,
                             joined>>,
           lastRowid' \in 0..MaxGroups, disturbed' \in BOOLEAN
    PROVE  IInv'
BY DEF IInv, GroupsTypeOK, locals, Live, FoundIsOld, TargetKnown,
       RemovesAnother, SendWasChecked, ActsOnNamedGroup, OwnerCheckHolds,
       NothingOutlivesGroup, SenderWasMember

LEMMA RestartPart ==
    ASSUME IInv, Restart
    PROVE  IInv'
<1> USE DEF IInv, GroupsTypeOK, Restart, Live
<1>1. GroupsTypeOK'
  OBVIOUS
<1>2. FoundIsOld' /\ TargetKnown' /\ RemovesAnother' /\ SendWasChecked'
  BY DEF FoundIsOld, NoLookup, TargetKnown, RemovesAnother, SendWasChecked
<1>3. ActsOnNamedGroup' /\ OwnerCheckHolds'
  BY DEF ActsOnNamedGroup, OwnerCheckHolds
<1>4. NothingOutlivesGroup' /\ SenderWasMember'
  BY DEF NothingOutlivesGroup, SenderWasMember
<1> QED BY <1>1, <1>2, <1>3, <1>4

LEMMA StepPart ==
    ASSUME IInv, NEW u \in Users, Step(u)
    PROVE  IInv'
<1>1. CASE CreateMember(u)
  BY <1>1, AddPart DEF CreateMember
<1>2. CASE AddInsert(u)
  <2>1. target[u] \in Users
    BY <1>2 DEF IInv, TargetKnown, AddInsert, AddMember
  <2> QED BY <1>2, <2>1, AddPart DEF AddInsert
<1>3. CASE RemoveDelete(u)
  <2>1. target[u] \in Users
    BY <1>3 DEF IInv, TargetKnown, RemoveDelete, RemoveMember
  <2> QED BY <1>3, <2>1, RemovePart DEF RemoveDelete
<1>4. CASE LeaveDelete(u)
  BY <1>4, RemovePart DEF LeaveDelete
<1>5. ASSUME NEW from, Refused(u, from) PROVE IInv'
  BY <1>5, DonePart DEF Refused
<1> QED
  BY <1>1, <1>2, <1>3, <1>4, <1>5, CheckPart, CreateRowidPart, DissolvePart,
     SendPart DEF Step

LEMMA InductiveStep == IInv /\ [Next]_vars => IInv'
<1> SUFFICES ASSUME IInv, [Next]_vars PROVE IInv'
  OBVIOUS
<1>1. ASSUME NEW u \in Users, NEW name \in Names,
             \/ LeaveFind(u, name) \/ SendFind(u, name)
             \/ \E v \in Users : AddFind(u, name, v) \/ RemoveFind(u, name, v)
      PROVE  IInv'
  BY <1>1, FindPart DEF LeaveFind, SendFind, AddFind, RemoveFind
<1>2. CASE OtherInsert
  BY <1>2, StutterPart, InsertPart DEF OtherInsert, IInv, GroupsTypeOK
<1>3. CASE UNCHANGED vars
  BY <1>3, StutterPart DEF vars, tables, history, IInv, GroupsTypeOK
<1> QED
  BY <1>1, <1>2, <1>3, StepPart, CreateInsertPart, RestartPart DEF Next

LEMMA Invariance == Spec => []IInv
BY Start, InductiveStep, PTL DEF Spec
------------------------------------------------------------------------------
\* A handler never acts on a group of another name than it was asked for.
THEOREM HandlersKeepTheirGroup == Spec => []ActsOnNamedGroup
<1>1. IInv => ActsOnNamedGroup
  BY DEF IInv
<1> QED BY <1>1, Invariance, PTL

\* What a handler found of the owner of its group still holds when it writes.
THEOREM OwnerChecksHold == Spec => []OwnerCheckHolds
<1>1. IInv => OwnerCheckHolds
  BY DEF IInv
<1> QED BY <1>1, Invariance, PTL

\* Members and messages are of groups that exist.
THEOREM CascadeIsComplete == Spec => []NothingOutlivesGroup
<1>1. IInv => NothingOutlivesGroup
  BY DEF IInv
<1> QED BY <1>1, Invariance, PTL

\* Whoever wrote to a group was its member at some time.
THEOREM SendersWereMembers == Spec => []SenderWasMember
<1>1. IInv => SenderWasMember
  BY DEF IInv
<1> QED BY <1>1, Invariance, PTL

\* No step takes a membership away from the owner of a group that stays.
LEMMA OwnerKept ==
    ASSUME IInv, [Next]_vars, NEW g \in Live, g \in DOMAIN groups',
           <<g, groups[g].owner>> \in members
    PROVE  <<g, groups[g].owner>> \in members'
<1>1. ASSUME NEW u \in Users, RemoveDelete(u)
      PROVE  <<g, groups[g].owner>> \in members'
  <2>1. g = grp[u] => groups[g].owner = u /\ target[u] # u
    BY <1>1 DEF IInv, OwnerCheckHolds, RemovesAnother, RemoveDelete, RemoveMember
  <2> QED BY <1>1, <2>1 DEF RemoveDelete, RemoveMember
<1>2. ASSUME NEW u \in Users, LeaveDelete(u)
      PROVE  <<g, groups[g].owner>> \in members'
  <2>1. g = grp[u] => groups[g].owner # u
    BY <1>2 DEF IInv, OwnerCheckHolds, LeaveDelete, RemoveMember
  <2> QED BY <1>2, <2>1 DEF LeaveDelete, RemoveMember
<1>3. ASSUME NEW u \in Users, LeaveDissolve(u)
      PROVE  <<g, groups[g].owner>> \in members'
  BY <1>3 DEF LeaveDissolve, Cascaded
<1>4. CASE members \subseteq members'
  BY <1>4
<1> QED
  BY <1>1, <1>2, <1>3, <1>4
     DEF Next, Step, CreateInsert, CreateRowid, CreateMember, AddFind, AddOwner,
         AddInsert, AddMember, RemoveFind, RemoveOwner, RemoveIsMember,
         LeaveFind, LeaveIsMember, LeaveOwner, SendFind, SendIsMember,
         SendInsert, Find, Check, Refused, OtherInsert, Restart, tables, vars

\* What create_group still has to do for a group whose owner is no member.
Joining(g, o) ==
    \/ pc[o] = "create_rowid" /\ lastRowid = g
    \/ pc[o] = "create_member" /\ grp[o] = g

CreatorInv ==
    ~ disturbed =>
        \A g \in Live : \/ <<g, groups[g].owner>> \in members
                       \/ Joining(g, groups[g].owner)

\* A group that stays keeps its owner; a new one is its creator's, and is the
\* last row inserted.
LEMMA GroupKept ==
    ASSUME IInv, [Next]_vars, NEW g \in DOMAIN groups'
    PROVE  IF g \in Live THEN groups'[g] = groups[g]
                         ELSE Joining(g, groups[g].owner)'
<1>1. ASSUME NEW u \in Users, NEW name \in Names, CreateInsert(u, name)
      PROVE  IF g \in Live THEN groups'[g] = groups[g]
                           ELSE Joining(g, groups[g].owner)'
  <2>1. created + 1 \notin Live
    BY DEF IInv, GroupsTypeOK
  <2> QED
    BY <1>1, <2>1 DEF CreateInsert, NextGid, Joining, Goto, Live, IInv, GroupsTypeOK
<1>2. ASSUME NEW u \in Users, LeaveDissolve(u)
      PROVE  g \in Live /\ groups'[g] = groups[g]
  BY <1>2 DEF LeaveDissolve, Live
<1>3. CASE groups' = groups
  BY <1>3 DEF Live
<1> QED
  BY <1>1, <1>2, <1>3
     DEF Next, Step, CreateRowid, CreateMember, AddFind, AddOwner, AddInsert,
         AddMember, RemoveFind, RemoveOwner, RemoveIsMember, RemoveDelete,
         LeaveFind, LeaveIsMember, LeaveOwner, LeaveDelete, RemoveMember,
         SendFind, SendIsMember, SendInsert, Find, Check, Refused, OtherInsert,
         Restart, tables, vars

\* A creator whose rowid nobody disturbs goes on to add itself.
LEMMA CreatorGoesOn ==
    ASSUME IInv, [Next]_vars, ~ disturbed', NEW g \in Live, NEW o \in Users,
           Joining(g, o)
    PROVE  ~ disturbed /\ (<<g, o>> \in members' \/ Joining(g, o)')
<1> USE DEF Joining
<1>1. ASSUME NEW u \in Users, Step(u)
      PROVE  ~ disturbed /\ (<<g, o>> \in members' \/ Joining(g, o)')
  BY <1>1
     DEF IInv, GroupsTypeOK, Step, CreateRowid, CreateMember, AddOwner, AddInsert,
         AddMember, Insert, RemoveOwner, RemoveIsMember, RemoveDelete, LeaveIsMember,
         LeaveOwner, LeaveDelete, LeaveDissolve, RemoveMember, SendIsMember,
         SendInsert, Check, Refused, Goto, Done, tables, history, locals
<1>2. ASSUME NEW u \in Users, NEW name \in Names, CreateInsert(u, name)
      PROVE  ~ disturbed /\ (<<g, o>> \in members' \/ Joining(g, o)')
  BY <1>2 DEF IInv, GroupsTypeOK, CreateInsert, Insert, Goto, locals
<1>3. ASSUME NEW u \in Users, NEW name, NEW v, NEW loc, Find(u, name, v, loc)
      PROVE  ~ disturbed /\ (<<g, o>> \in members' \/ Joining(g, o)')
  BY <1>3 DEF IInv, GroupsTypeOK, Find, tables, history
<1>4. CASE OtherInsert
  BY <1>4 DEF OtherInsert, Insert, locals
<1>5. CASE UNCHANGED vars
  BY <1>5 DEF vars, tables, history, locals
<1> QED
  BY <1>1, <1>2, <1>3, <1>4, <1>5
     DEF Next, LeaveFind, SendFind, AddFind, RemoveFind, Restart

\* What went wrong is not forgotten.
LEMMA DisturbedStays ==
    ASSUME [Next]_vars, disturbed
    PROVE  disturbed'
BY DEF Next, Step, CreateInsert, CreateRowid, CreateMember, AddFind, AddOwner,
       AddInsert, AddMember, Insert, RemoveFind, RemoveOwner, RemoveIsMember,
       RemoveDelete, LeaveFind, LeaveIsMember, LeaveOwner, LeaveDelete,
       LeaveDissolve, RemoveMember, SendFind, SendIsMember, SendInsert, Find,
       Check, Refused, OtherInsert, Restart, history, vars

LEMMA CreatorStep == IInv /\ CreatorInv /\ [Next]_vars => CreatorInv'
<1> SUFFICES ASSUME IInv, CreatorInv, [Next]_vars, ~ disturbed', NEW g \in DOMAIN groups'
             PROVE  <<g, groups[g].owner>>' \in members' \/ Joining(g, groups[g].owner)'
  BY DEF CreatorInv, Live
<1>1. CASE g \notin Live
  BY <1>1, GroupKept
<1>2. CASE g \in Live
  <2>1. PICK o \in Users : o = groups[g].owner /\ o = groups'[g].owner
    BY <1>2, GroupKept DEF IInv, GroupsTypeOK, Group
  <2>2. <<g, o>> \in members \/ Joining(g, o)
    BY <1>2, <2>1, DisturbedStays DEF CreatorInv
  <2>3. CASE <<g, o>> \in members
    BY <1>2, <2>1, <2>3, OwnerKept
  <2>4. CASE Joining(g, o)
    <3>1. <<g, o>> \in members' \/ Joining(g, o)'
      BY <1>2, <2>4, CreatorGoesOn
    <3> QED BY <2>1, <3>1 DEF Joining
  <2> QED BY <2>2, <2>3, <2>4
<1> QED BY <1>1, <1>2
------------------------------------------------------------------------------
\* The state of the handlers and of the tables is what the declarations say.
THEOREM GroupsTypesCorrect == Spec => []GroupsTypeOK
<1>1. IInv => GroupsTypeOK
  BY DEF IInv
<1> QED BY <1>1, Invariance, PTL

\* An owner that is a member stays one: remove refuses the owner itself, and
\* leave dissolves the group of an owner.
THEOREM OwnersStay == Spec => OwnerStaysMember
<1> DEFINE Kept == \A g \in Live \cap DOMAIN groups' :
        <<g, groups[g].owner>> \in members => <<g, groups[g].owner>> \in members'
<1>1. IInv /\ [Next]_vars => [Kept]_vars
  BY OwnerKept
<1> QED BY <1>1, Invariance, PTL DEF Spec, OwnerStaysMember

\* create_group adds its creator unless a write is refused, the process stops,
\* or an INSERT comes between its own and its read of last_insert_rowid.
THEOREM CreatorsJoin == Spec => []OwnerIsMember
<1>1. Init => CreatorInv
  BY DEF Init, CreatorInv, Live
<1>2. CreatorInv => OwnerIsMember
  BY DEF CreatorInv, OwnerIsMember, Joining
<1> QED BY <1>1, <1>2, CreatorStep, Invariance, PTL DEF Spec
==============================================================================
