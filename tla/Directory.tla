------------------------------ MODULE Directory -------------------------------
(***************************************************************************)
(* Accounts, friends and groups: the handlers reg, addFriend, createGroup  *)
(* and addGroup over the tables User, Friend, AllGroup and GroupUser, and  *)
(* the lists of friends and groups that login reads for its answer.  Each  *)
(* step is one statement, on a connection of its own; nothing makes two of *)
(* them one transaction, and every failure is ignored but the first of reg *)
(* and of createGroup.                                                     *)
(***************************************************************************)
EXTENDS Protocol, Sequences

CONSTANTS
    Conns,          \* the clients' connections, to whichever server
    Names,          \* the names users register with; User.name is unique
    AddFriendExtra, \* what clients add to the fields of addfriend requests
    MaxUsers,       \* bound: rows of User
    MaxGroups,      \* bound: rows of AllGroup, and ids of groups in requests
    MaxFailures     \* bound: how many database calls fail and processes end

ASSUME DirectoryAssumption ==
    /\ AddFriendExtra \subseteq {{}, {"friendid"}}
    /\ MaxUsers \in Nat /\ MaxGroups \in Nat /\ MaxFailures \in Nat

VARIABLES
    user,       \* User: user[id] is the row with the auto-increment key id
    friend,     \* Friend: pairs <<userid, friendid>>
    group,      \* AllGroup: group[id] is the user who had the row inserted
    member,     \* GroupUser: triples <<groupid, userid, grouprole>>
    session,    \* session[c]: the user logged in on c, 0 for none
    job,        \* job[c]: the handler running for c
    deaths,     \* how often the server process has ended with an exception
    faults

tables == <<user, friend, group, member>>
dirVars == <<tables, session, job, deaths, faults>>

UserIds == 1 .. Len(user)
GroupIds == 1 .. Len(group)

Roles == {"creator", "nomal"}

\* The locals of a handler: id is user.getId() or group.getId() as set from
\* mysql_insert_id, friends is userVec, todo and users belong to queryGroups.
Idle == [at |-> "idle", name |-> "", id |-> 0, friends |-> {}, todo |-> {},
         users |-> <<>>]

Steps == {"idle", "reg_ack", "creator", "online", "friends", "groups", "members"}

\* Types: and a row of GroupUser and a session belong to users with an account,
\* while the group of a row need not exist.
DirTypeOK ==
    /\ user \in Seq([name : Names, state : {"online", "offline"}])
    /\ friend \subseteq (1 .. MaxUsers) \X (1 .. MaxUsers)
    /\ group \in Seq(1 .. MaxUsers)
    /\ member \subseteq (1 .. MaxGroups) \X UserIds \X Roles
    /\ session \in [Conns -> 0 .. MaxUsers]
    /\ \A c \in Conns : job[c].at \in Steps /\ session[c] \in {0} \cup UserIds
    /\ faults \in 0 .. MaxFailures
    /\ deaths \in 0 .. MaxFailures

Init ==
    /\ user = <<>> /\ friend = {} /\ group = <<>> /\ member = {}
    /\ session = [c \in Conns |-> 0]
    /\ job = [c \in Conns |-> Idle]
    /\ deaths = 0
    /\ faults = 0
-------------------------------------------------------------------------------
DbOk == UNCHANGED faults

DbFail == faults + deaths < MaxFailures /\ faults' = faults + 1

\* A query finds all its rows, or none when it fails.
Found(found, rows) == (found = rows /\ DbOk) \/ (found = {} /\ DbFail)

\* The field sets clients send with a request.  The repository's client adds
\* nothing; the server expects "msgid,id,friendid" (chatservice.cpp:253).
Sent(kind) ==
    IF kind = "addfriend"
    THEN {RequestFields[kind] \cup extra : extra \in AddFriendExtra}
    ELSE {RequestFields[kind]}

\* The client of c sends a request, from its login menu or its main menu, while
\* the server handles nothing else for c.
Request(c, kind) ==
    /\ job[c].at = "idle"
    /\ (session[c] = 0) = (kind \in {"login", "reg"})

Handle(c, kind) ==
    /\ Request(c, kind)
    /\ \E fields \in Sent(kind) : Served(kind, fields)

Step(c, at) == job[c].at = at

Return(c) == job' = [job EXCEPT ![c] = Idle]

\* Mutant: the last key of the table, whoever has inserted its row.
LastId(c) == IF job[c].at = "creator" THEN Len(group) ELSE Len(user)

\* mysql_insert_id: the key of the row this connection has inserted.
InsertId(c) == job[c].id

SetState(u, state) == [user EXCEPT ![u].state = state]
-------------------------------------------------------------------------------
Reg(c, n) ==
    /\ Handle(c, "reg")
    /\ Len(user) < MaxUsers
    /\ \/ /\ \A u \in UserIds : user[u].name # n
          /\ user' = Append(user, [name |-> n, state |-> "offline"])
          /\ job' = [job EXCEPT ![c] = [Idle EXCEPT !.at = "reg_ack", !.name = n,
                                                    !.id = Len(user) + 1]]
          /\ DbOk
       \/ /\ ((\E u \in UserIds : user[u].name = n) /\ DbOk) \/ DbFail
          /\ UNCHANGED <<user, job>>
    /\ UNCHANGED <<friend, group, member, session, deaths>>

\* errno 0 and the id; a refusal is answered in the step that found it.
RegAck(c) ==
    /\ Step(c, "reg_ack")
    /\ Return(c)
    /\ UNCHANGED <<tables, session, deaths, faults>>

\* The exception of a get<int>() on a missing field leaves onMessage and its
\* thread: the process ends, whatever else it was doing, and is started again.
Throw(c, kind) ==
    /\ Request(c, kind)
    /\ \E fields \in Sent(kind) : ~Served(kind, fields)
    /\ faults + deaths < MaxFailures
    /\ deaths' = deaths + 1
    /\ session' = [d \in Conns |-> 0]
    /\ job' = [d \in Conns |-> Idle]
    /\ UNCHANGED <<tables, faults>>

AddFriend(c, v) ==
    /\ Handle(c, "addfriend")
    /\ \/ friend' = friend \cup {<<session[c], v>>} /\ DbOk
       \/ UNCHANGED friend /\ DbFail
    /\ UNCHANGED <<user, group, member, session, job, deaths>>

\* Mutant: the row of the creator is left out.
CreateGroupAlone(c) ==
    /\ Handle(c, "creategroup")
    /\ Len(group) < MaxGroups
    /\ group' = Append(group, session[c])
    /\ UNCHANGED job
    /\ DbOk
    /\ UNCHANGED <<user, friend, member, session, deaths>>

CreateGroup(c) ==
    /\ Handle(c, "creategroup")
    /\ Len(group) < MaxGroups
    /\ \/ /\ group' = Append(group, session[c])
          /\ job' = [job EXCEPT ![c] = [Idle EXCEPT !.at = "creator",
                                                    !.id = Len(group) + 1]]
          /\ DbOk
       \/ UNCHANGED <<group, job>> /\ DbFail
    /\ UNCHANGED <<user, friend, member, session, deaths>>

\* Mutant: the columns in the order of addGroup's parameters.
addGroupSwapped(u, g, role) ==
    \/ member' = member \cup {<<u, g, role>>} /\ DbOk
    \/ UNCHANGED member /\ DbFail

\* insert into GroupUser(groupid, userid, grouprole)
addGroup(u, g, role) ==
    \/ member' = member \cup {<<g, u, role>>} /\ DbOk
    \/ UNCHANGED member /\ DbFail

AddCreator(c) ==
    /\ Step(c, "creator")
    /\ addGroup(session[c], InsertId(c), "creator")
    /\ Return(c)
    /\ UNCHANGED <<user, friend, group, session, deaths>>

\* Nothing checks the groupid: the row of a group that does not exist is written
\* too, and is a member's row of the group that is given this id later.
AddGroup(c, g) ==
    /\ Handle(c, "addgroup")
    /\ addGroup(session[c], g, "nomal")
    /\ UNCHANGED <<user, friend, group, session, job, deaths>>
-------------------------------------------------------------------------------
(* login, from the query to the answer, and loginOut *)

\* The query of the user's row: "online" is refused, a row that cannot be read
\* is refused too, and else the connection is entered as the user's.
LoginQuery(c, u) ==
    /\ Handle(c, "login")
    /\ \/ /\ user[u].state = "offline" /\ DbOk
          /\ session' = [session EXCEPT ![c] = u]
          /\ job' = [job EXCEPT ![c] = [Idle EXCEPT !.at = "online"]]
       \/ /\ (user[u].state = "online" /\ DbOk) \/ DbFail
          /\ UNCHANGED <<session, job>>
    /\ UNCHANGED <<tables, deaths>>

\* updateState, whose failure login ignores.
LoginOnline(c) ==
    /\ Step(c, "online")
    /\ \/ user' = SetState(session[c], "online") /\ DbOk
       \/ UNCHANGED user /\ DbFail
    /\ job' = [job EXCEPT ![c] = [@ EXCEPT !.at = "friends"]]
    /\ UNCHANGED <<friend, group, member, session, deaths>>

\* An inner join of Friend and User: a friendid without a row is left out.
FriendsOf(u) == {v \in UserIds : <<u, v>> \in friend}

FriendList(c) ==
    /\ Step(c, "friends")
    /\ \E found \in {FriendsOf(session[c]), {}} :
         /\ job' = [job EXCEPT ![c] = [@ EXCEPT !.at = "groups", !.friends = found]]
         /\ Found(found, FriendsOf(session[c]))
    /\ UNCHANGED <<tables, session, deaths>>

GroupsOf(u) == {g \in GroupIds : \E r \in Roles : <<g, u, r>> \in member}

\* The first query of queryGroups; login answers no groups when it fails.
GroupList(c) ==
    /\ Step(c, "groups")
    /\ \E found \in {GroupsOf(session[c]), {}} :
         /\ job' = [job EXCEPT ![c] = [@ EXCEPT !.at = "members", !.todo = found,
                                             !.users = [g \in found |-> {}]]]
         /\ Found(found, GroupsOf(session[c]))
    /\ UNCHANGED <<tables, session, deaths>>

\* Mutant: the query of queryGroupUsers, which leaves the user out.
OthersOf(c, g) ==
    {u \in UserIds \ {session[c]} : \E r \in Roles : <<g, u, r>> \in member}

MembersOf(c, g) == {u \in UserIds : \E r \in Roles : <<g, u, r>> \in member}

\* The second query of queryGroups, once for each group the first has found; a
\* group whose query fails is answered without users.
MemberList(c, g) ==
    /\ Step(c, "members")
    /\ g \in job[c].todo
    /\ \E found \in {MembersOf(c, g), {}} :
         /\ job' = [job EXCEPT ![c] = [job[c] EXCEPT !.todo = @ \ {g},
                                                   !.users[g] = found]]
         /\ Found(found, MembersOf(c, g))
    /\ UNCHANGED <<tables, session, deaths>>

\* The answer with the lists; the client shows them.
LoginAck(c) ==
    /\ Step(c, "members")
    /\ job[c].todo = {}
    /\ Return(c)
    /\ UNCHANGED <<tables, session, deaths, faults>>

\* loginout, and the client process ends.
LoginOut(c) ==
    /\ Handle(c, "loginout")
    /\ session' = [session EXCEPT ![c] = 0]
    /\ \/ user' = SetState(session[c], "offline") /\ DbOk
       \/ UNCHANGED user /\ DbFail
    /\ UNCHANGED <<friend, group, member, job, deaths>>

Next ==
    \E c \in Conns :
        \/ \E n \in Names : Reg(c, n)
        \/ RegAck(c)
        \/ \E kind \in DOMAIN RequestFields : Throw(c, kind)
        \/ \E v \in 1 .. MaxUsers : AddFriend(c, v)
        \/ CreateGroup(c) \/ AddCreator(c)
        \/ \E g \in 1 .. MaxGroups : AddGroup(c, g)
        \/ \E u \in UserIds : LoginQuery(c, u)
        \/ LoginOnline(c)
        \/ FriendList(c) \/ GroupList(c)
        \/ \E g \in GroupIds : MemberList(c, g)
        \/ LoginAck(c) \/ LoginOut(c)

Spec == Init /\ [][Next]_dirVars
-------------------------------------------------------------------------------
(* Properties *)

\* The id a registration answers is the key of the row it has inserted, with
\* the name of its request: registrations that overlap never swap their ids.
RegAnswersOwnRow ==
    \A c \in Conns :
      job[c].at = "reg_ack" =>
        /\ InsertId(c) \in UserIds
        /\ user[InsertId(c)].name = job[c].name
        /\ \A d \in Conns \ {c} :
             job[d].at = "reg_ack" => InsertId(d) # InsertId(c)

\* Nobody becomes "creator" of a group whose creation someone else has asked
\* for, although createGroup inserts the group and its creator in two steps.
CreatorIsMaker ==
    \A g \in GroupIds, u \in UserIds :
      <<g, u, "creator">> \in member => u = group[g]

\* A group has its creator as a member once its createGroup has ended, unless
\* a database call has failed or the process has died in between: the second
\* insert is neither undone nor repeated.
OrphanOnlyAfterFailure ==
    \A g \in GroupIds :
      \/ faults + deaths > 0
      \/ \E c \in Conns : job[c].at = "creator" /\ InsertId(c) = g
      \/ <<g, group[g], "creator">> \in member

\* The friends and groups a login answers are true although they are read in
\* separate statements while others register and join: its friends have
\* accounts, and its groups exist, list members only, and list the user.
LoginListsTrue ==
    \A c \in Conns :
      /\ job[c].friends \subseteq UserIds
      /\ \A g \in DOMAIN job[c].users :
           /\ g \in GroupIds
           /\ \A u \in job[c].users[g] : \E r \in Roles : <<g, u, r>> \in member
           /\ g \in job[c].todo \/ faults > 0 \/ session[c] \in job[c].users[g]

\* No command of the client, sent in the format its help shows, ends the server
\* process: each handler finds in a request what it gets from it.
CommandsKeepServerUp == deaths = 0
==============================================================================
