--------------------------- MODULE DirectoryProofs ----------------------------
(***************************************************************************)
(* The tables of accounts and groups, for any number of connections, names,*)
(* rows and failures.                                                      *)
(*                                                                         *)
(* The properties are not inductive: that an answered id is the key of the *)
(* row inserted, and that a creator's row names the user who asked for the *)
(* group, depends on what each handler remembers between its two steps.    *)
(* HandlerInv says it for the steps in between, and DirInv adds it.  As a  *)
(* user may join a group before it is created, TableInv says that only a   *)
(* group that exists has a creator's row.                                  *)
(***************************************************************************)
EXTENDS Directory, SequenceTheorems, TLAPS

UserRow == [name : Names, state : {"online", "offline"}]

\* Whatever lists queryGroups has built so far.
Lists == UNION {[gs -> SUBSET Nat] : gs \in SUBSET Nat}

Job == [at : Steps, name : Names \cup {""}, id : Nat, friends : SUBSET Nat,
        todo : SUBSET Nat, users : Lists]

TableInv ==
    /\ user \in Seq(UserRow)
    /\ Len(user) <= MaxUsers
    /\ friend \subseteq (1 .. MaxUsers) \X (1 .. MaxUsers)
    /\ group \in Seq(UserIds)
    /\ Len(group) <= MaxGroups
    /\ member \subseteq (1 .. MaxGroups) \X UserIds \X Roles
    /\ \A g \in 1 .. MaxGroups, u \in UserIds :
         <<g, u, "creator">> \in member => g \in GroupIds
    /\ faults \in 0 .. MaxFailures
    /\ deaths \in 0 .. MaxFailures

\* What the handler of c holds between two of its steps.
HandlerInv(c) ==
    /\ session[c] \in {0} \cup UserIds
    /\ job[c].at = "reg_ack" =>
         job[c].id \in UserIds /\ user[job[c].id].name = job[c].name
    /\ job[c].at = "creator" =>
         job[c].id \in GroupIds /\ group[job[c].id] = session[c]
    /\ job[c].at \in {"online", "friends", "groups", "members"} =>
         session[c] # 0
    /\ job[c].friends \subseteq UserIds
    /\ job[c].at # "members" => DOMAIN job[c].users = {}
    /\ \A g \in DOMAIN job[c].users :
         /\ g \in GroupsOf(session[c])
         /\ \A u \in job[c].users[g] : \E r \in Roles : <<g, u, r>> \in member
         /\ g \in job[c].todo \/ faults > 0 \/ session[c] \in job[c].users[g]

JobInv ==
    /\ session \in [Conns -> Nat]
    /\ job \in [Conns -> Job]
    /\ \A c \in Conns : HandlerInv(c)

DirInv ==
    /\ TableInv
    /\ JobInv
    /\ RegAnswersOwnRow
    /\ CreatorIsMaker
    /\ OrphanOnlyAfterFailure

-----------------------------------------------------------------------------

LEMMA StepNames ==
  /\ "idle" \in Steps /\ "reg_ack" \in Steps /\ "creator" \in Steps
  /\ "online" \in Steps /\ "friends" \in Steps /\ "groups" \in Steps /\ "members" \in Steps
  BY DEF Steps

LEMMA IdleType ==
  /\ Idle \in Job
  /\ Idle.at = "idle" /\ Idle.friends = {} /\ DOMAIN Idle.users = {}
  <1>1. Idle.users \in [{} -> SUBSET Nat]
    BY DEF Idle
  <1>2. Idle \in Job
    BY <1>1 DEF Idle, Job, Lists, Steps
  <1>3. DOMAIN Idle.users = {}
    BY <1>1
  <1>4. Idle.at = "idle" /\ Idle.friends = {}
    BY DEF Idle
  <1> QED BY <1>2, <1>3, <1>4

\* The records the handlers build from their locals.
RegJob(name, id) == [Idle EXCEPT !.at = "reg_ack", !.name = name, !.id = id]

MakerJob(id) == [Idle EXCEPT !.at = "creator", !.id = id]

LoginJob == [Idle EXCEPT !.at = "online"]

OnlineJob(j) == [j EXCEPT !.at = "friends"]

WithFriends(j, found) == [j EXCEPT !.at = "groups", !.friends = found]

WithGroups(j, found, lists) ==
    [j EXCEPT !.at = "members", !.todo = found, !.users = lists]

WithUsers(j, g, found) == [j EXCEPT !.todo = @ \ {g}, !.users[g] = found]

LEMMA RegType ==
  ASSUME NEW name \in Names, NEW id \in Nat
  PROVE  /\ RegJob(name, id) \in Job
         /\ RegJob(name, id).at = "reg_ack"
         /\ RegJob(name, id).id = id /\ RegJob(name, id).name = name
         /\ RegJob(name, id).friends = {} /\ DOMAIN RegJob(name, id).users = {}
  <1> DEFINE j == RegJob(name, id)
  <1>1. j \in Job
    BY IdleType, StepNames DEF Job, RegJob
  <1>2. /\ j.at = "reg_ack" /\ j.id = id /\ j.name = name
        /\ j.friends = Idle.friends /\ j.users = Idle.users
    BY IdleType DEF Job, RegJob
  <1> QED BY <1>1, <1>2, IdleType

LEMMA MakerType ==
  ASSUME NEW id \in Nat
  PROVE  /\ MakerJob(id) \in Job
         /\ MakerJob(id).at = "creator" /\ MakerJob(id).id = id
         /\ MakerJob(id).friends = {} /\ DOMAIN MakerJob(id).users = {}
  <1> DEFINE j == MakerJob(id)
  <1>1. j \in Job
    BY IdleType, StepNames DEF Job, MakerJob
  <1>2. /\ j.at = "creator" /\ j.id = id
        /\ j.friends = Idle.friends /\ j.users = Idle.users
    BY IdleType DEF Job, MakerJob
  <1> QED BY <1>1, <1>2, IdleType

LEMMA LoginType ==
  /\ LoginJob \in Job /\ LoginJob.at = "online"
  /\ LoginJob.friends = {} /\ DOMAIN LoginJob.users = {}
  <1>1. LoginJob \in Job
    BY IdleType, StepNames DEF Job, LoginJob
  <1>2. /\ LoginJob.at = "online" /\ LoginJob.friends = Idle.friends
        /\ LoginJob.users = Idle.users
    BY IdleType DEF Job, LoginJob
  <1> QED BY <1>1, <1>2, IdleType

LEMMA OnlineType ==
  ASSUME NEW j \in Job
  PROVE  /\ OnlineJob(j) \in Job /\ OnlineJob(j).at = "friends"
         /\ OnlineJob(j).friends = j.friends /\ OnlineJob(j).users = j.users
  <1>1. OnlineJob(j) \in Job
    BY StepNames DEF Job, OnlineJob
  <1> QED BY <1>1 DEF Job, OnlineJob

LEMMA FriendsType ==
  ASSUME NEW j \in Job, NEW found \in SUBSET Nat
  PROVE  /\ WithFriends(j, found) \in Job /\ WithFriends(j, found).at = "groups"
         /\ WithFriends(j, found).friends = found
         /\ WithFriends(j, found).users = j.users
  <1>1. WithFriends(j, found) \in Job
    BY StepNames DEF Job, WithFriends
  <1> QED BY <1>1 DEF Job, WithFriends

LEMMA GroupsType ==
  ASSUME NEW j \in Job, NEW found \in SUBSET Nat, NEW lists \in Lists
  PROVE  /\ WithGroups(j, found, lists) \in Job
         /\ WithGroups(j, found, lists).at = "members"
         /\ WithGroups(j, found, lists).friends = j.friends
         /\ WithGroups(j, found, lists).todo = found
         /\ WithGroups(j, found, lists).users = lists
  <1>1. WithGroups(j, found, lists) \in Job
    BY StepNames DEF Job, WithGroups
  <1> QED BY <1>1 DEF Job, WithGroups

LEMMA MembersType ==
  ASSUME NEW j \in Job, NEW g, NEW found \in SUBSET Nat,
         NEW k, k = WithUsers(j, g, found)
  PROVE  /\ k \in Job /\ k.at = j.at /\ k.friends = j.friends
         /\ k.todo = j.todo \ {g} /\ DOMAIN k.users = DOMAIN j.users
         /\ \A h \in DOMAIN j.users :
              k.users[h] = IF h = g THEN found ELSE j.users[h]
  <1> DEFINE todo == j.todo \ {g}
             lists == [j.users EXCEPT ![g] = found]
             m == [j EXCEPT !.todo = todo, !.users = lists]
  <1>1. j.users \in Lists /\ j.todo \in SUBSET Nat
    BY DEF Job
  <1>2. PICK gs \in SUBSET Nat : j.users \in [gs -> SUBSET Nat]
    BY <1>1 DEF Lists
  <1>3. lists \in [gs -> SUBSET Nat]
    BY <1>2
  <1>4. lists \in Lists /\ todo \in SUBSET Nat
    BY <1>1, <1>3 DEF Lists
  <1>5. /\ DOMAIN lists = DOMAIN j.users
        /\ \A h \in DOMAIN j.users : lists[h] = IF h = g THEN found ELSE j.users[h]
    BY <1>2
  <1>8. m = k
    BY DEF WithUsers
  <1> HIDE DEF todo, lists
  <1>6. m \in Job
    BY <1>4 DEF Job
  <1>7. m.at = j.at /\ m.friends = j.friends /\ m.todo = todo /\ m.users = lists
    BY DEF Job
  <1> QED BY <1>5, <1>6, <1>7, <1>8 DEF todo

\* A row of User whose state is set keeps its key and its name.
LEMMA SetStateType ==
  ASSUME NEW u \in Seq(UserRow), NEW i \in 1 .. Len(u),
         NEW st \in {"online", "offline"}, NEW v, v = [u EXCEPT ![i].state = st]
  PROVE  /\ v \in Seq(UserRow)
         /\ Len(v) = Len(u)
         /\ \A k \in 1 .. Len(u) : v[k].name = u[k].name
  <1> DEFINE row == [u[i] EXCEPT !.state = st]
             w == [u EXCEPT ![i] = row]
  <1>1. u[i] \in UserRow
    OBVIOUS
  <1>2. row \in UserRow /\ row.name = u[i].name
    BY <1>1 DEF UserRow
  <1>3. w = v
    OBVIOUS
  <1> HIDE DEF row
  <1>4. /\ w \in Seq(UserRow) /\ Len(w) = Len(u)
        /\ \A k \in 1 .. Len(u) : w[k] = IF k = i THEN row ELSE u[k]
    BY <1>2, ExceptSeq
  <1> QED BY <1>2, <1>3, <1>4

LEMMA StateSet ==
  ASSUME TableInv, NEW i \in UserIds, NEW st \in {"online", "offline"},
         user' = SetState(i, st) \/ UNCHANGED user
  PROVE  /\ user' \in Seq(UserRow) /\ Len(user') = Len(user)
         /\ \A v \in UserIds : user'[v].name = user[v].name
         /\ UserIds' = UserIds
  <1>1. CASE user' = SetState(i, st)
    <2>1. user \in Seq(UserRow) /\ i \in 1 .. Len(user)
      BY DEF TableInv, UserIds
    <2>2. /\ user' \in Seq(UserRow) /\ Len(user') = Len(user)
          /\ \A v \in 1 .. Len(user) : user'[v].name = user[v].name
      <3>1. user' = [user EXCEPT ![i].state = st]
        BY <1>1 DEF SetState
      <3> QED BY <2>1, <3>1, SetStateType
    <2> QED BY <2>2 DEF UserIds
  <1>2. CASE UNCHANGED user
    BY <1>2 DEF TableInv, UserIds
  <1> QED BY <1>1, <1>2

\* A handler that is not running keeps no list.
LEMMA IdleHandler ==
  ASSUME NEW c \in Conns, job'[c] = Idle, session'[c] \in {0} \cup UserIds'
  PROVE  HandlerInv(c)'
  <1>1. job'[c].at = "idle" /\ job'[c].friends = {}
    BY IdleType
  <1>2. DOMAIN job'[c].users = {}
    BY IdleType
  <1> QED BY <1>1, <1>2 DEF HandlerInv

\* The tables only grow: nothing any handler remembers of them becomes false.
Grow ==
    /\ UserIds \subseteq UserIds'
    /\ \A u \in UserIds : user'[u].name = user[u].name
    /\ GroupIds \subseteq GroupIds'
    /\ \A g \in GroupIds : group'[g] = group[g]
    /\ member \subseteq member'
    /\ faults <= faults'

LEMMA GrowKeeps ==
  ASSUME TableInv, Grow, NEW c \in Conns, HandlerInv(c), faults' \in Nat,
         UNCHANGED <<session[c], job[c]>>
  PROVE  HandlerInv(c)'
  <1>1. job'[c] = job[c] /\ session'[c] = session[c]
    OBVIOUS
  <1>2. GroupsOf(session[c]) \subseteq GroupsOf(session[c])'
    BY <1>1 DEF Grow, GroupsOf
  <1>3. faults > 0 => faults' > 0
    BY DEF Grow, TableInv
  <1>4. ASSUME NEW g \in DOMAIN job'[c].users
        PROVE  /\ g \in GroupsOf(session[c])'
               /\ \A u \in job'[c].users[g] : \E r \in Roles : <<g, u, r>> \in member'
               /\ \/ g \in job'[c].todo
                  \/ faults' > 0
                  \/ session'[c] \in job'[c].users[g]
    BY <1>1, <1>2, <1>3, <1>4 DEF HandlerInv, Grow
  <1>5. /\ session'[c] \in {0} \cup UserIds'
        /\ job'[c].friends \subseteq UserIds'
        /\ job'[c].at = "reg_ack" =>
             job'[c].id \in UserIds' /\ user'[job'[c].id].name = job'[c].name
        /\ job'[c].at = "creator" =>
             job'[c].id \in GroupIds' /\ group'[job'[c].id] = session'[c]
    BY <1>1 DEF HandlerInv, Grow
  <1> QED BY <1>1, <1>4, <1>5 DEF HandlerInv

\* A step of the handler of c keeps JobInv when it keeps what c remembers.
LEMMA OneMoves ==
  ASSUME TableInv, JobInv, Grow, faults' \in Nat, NEW c \in Conns,
         session' \in [Conns -> Nat], job' \in [Conns -> Job],
         \A d \in Conns \ {c} : UNCHANGED <<session[d], job[d]>>,
         HandlerInv(c)'
  PROVE  JobInv'
  BY GrowKeeps DEF JobInv

LEMMA RegKept ==
  ASSUME DirInv, Grow,
         \A d \in Conns : job'[d].at = "reg_ack" => job'[d] = job[d]
  PROVE  RegAnswersOwnRow'
  BY DEF DirInv, Grow, RegAnswersOwnRow, InsertId

\* What keeps the three properties, for the steps that insert neither a group
\* nor a creator.
LEMMA Kept ==
  ASSUME DirInv, Grow, UNCHANGED group, deaths' \in Nat, faults' \in Nat,
         deaths' >= deaths,
         \A g, u : <<g, u, "creator">> \in member' => <<g, u, "creator">> \in member,
         \A d \in Conns : job'[d].at = "reg_ack" => job'[d] = job[d],
         \A d \in Conns : job[d].at = "creator" => job'[d] = job[d] \/ deaths' > 0
  PROVE  RegAnswersOwnRow' /\ CreatorIsMaker' /\ OrphanOnlyAfterFailure'
  <1>1. RegAnswersOwnRow'
    BY RegKept
  <1>2. CreatorIsMaker'
    BY DEF DirInv, TableInv, Grow, CreatorIsMaker, GroupIds
  <1>3. OrphanOnlyAfterFailure'
    BY DEF DirInv, TableInv, Grow, OrphanOnlyAfterFailure, GroupIds, InsertId
  <1> QED BY <1>1, <1>2, <1>3

\* A step that changes no table, no session and no handler but that of c.
LEMMA OnlyJob ==
  ASSUME DirInv, UNCHANGED <<tables, session, deaths>>, NEW c \in Conns,
         NEW j \in Job, job' = [job EXCEPT ![c] = j],
         j.at \notin {"reg_ack", "creator"}, job[c].at # "creator",
         DbOk \/ DbFail,
         HandlerInv(c)'
  PROVE  DirInv'
  <1>1. Grow /\ faults' \in 0 .. MaxFailures
    <2>1. faults' \in 0 .. MaxFailures /\ faults <= faults'
      BY DirectoryAssumption DEF DbOk, DbFail, DirInv, TableInv
    <2> QED BY <2>1 DEF tables, Grow, UserIds, GroupIds
  <1>2. TableInv'
    BY <1>1 DEF tables, DirInv, TableInv, UserIds, GroupIds
  <1>3. JobInv'
    BY <1>1, OneMoves, DirectoryAssumption DEF DirInv, JobInv
  <1>4. RegAnswersOwnRow' /\ CreatorIsMaker' /\ OrphanOnlyAfterFailure'
    BY <1>1, Kept, DirectoryAssumption DEF tables, DirInv, TableInv, JobInv
  <1> QED BY <1>2, <1>3, <1>4 DEF DirInv

LEMMA StillDir == ASSUME DirInv, UNCHANGED dirVars PROVE DirInv'
  BY DEF DirInv, dirVars, tables, TableInv, JobInv, HandlerInv, UserIds,
         GroupIds, GroupsOf, RegAnswersOwnRow, CreatorIsMaker,
         OrphanOnlyAfterFailure, InsertId

LEMMA DirStep == DirInv /\ [Next]_dirVars => DirInv'
  <1> SUFFICES ASSUME DirInv, [Next]_dirVars PROVE DirInv'
    OBVIOUS
  <1> USE DirectoryAssumption
  <1>0. /\ DbOk \/ DbFail => faults' \in 0 .. MaxFailures /\ faults <= faults'
        /\ UserIds \subseteq 1 .. MaxUsers /\ UserIds \subseteq Nat
        /\ GroupIds \subseteq Nat /\ GroupIds \subseteq 1 .. MaxGroups
        /\ job \in [Conns -> Job] /\ session \in [Conns -> Nat]
        /\ \A c \in Conns : HandlerInv(c)
        /\ deaths \in Nat /\ faults \in Nat
    BY DEF DbOk, DbFail, DirInv, TableInv, JobInv, UserIds, GroupIds
  <1>1. ASSUME NEW c \in Conns, NEW n \in Names, Reg(c, n) PROVE DirInv'
    <2>1. CASE UNCHANGED <<user, job>>
      <3>1. DbOk \/ DbFail
        BY <1>1, <2>1, <1>0 DEF Reg, DbOk, DbFail
      <3>2. Grow
        BY <1>1, <2>1, <3>1, <1>0 DEF Reg, Grow, UserIds, GroupIds
      <3>3. TableInv'
        BY <1>1, <2>1, <3>1, <1>0 DEF Reg, DirInv, TableInv, UserIds, GroupIds
      <3>4. JobInv'
        BY <1>1, <2>1, <3>1, <3>2, <1>0, GrowKeeps DEF Reg, DirInv, JobInv
      <3>5. RegAnswersOwnRow' /\ CreatorIsMaker' /\ OrphanOnlyAfterFailure'
        BY <1>1, <2>1, <3>1, <3>2, <1>0, Kept DEF Reg
      <3> QED BY <3>3, <3>4, <3>5 DEF DirInv
    <2>2. CASE ~UNCHANGED <<user, job>>
      <3> DEFINE row == [name |-> n, state |-> "offline"]
      <3>0. PICK j : j = RegJob(n, Len(user) + 1)
        OBVIOUS
      <3>1. /\ job[c].at = "idle"
            /\ Len(user) < MaxUsers
            /\ user' = Append(user, row)
            /\ job' = [job EXCEPT ![c] = j]
            /\ DbOk
            /\ UNCHANGED <<friend, group, member, session, deaths>>
        BY <1>1, <2>2, <3>0 DEF Reg, RegJob, Handle, Request
      <3>2. /\ row \in UserRow
            /\ user' \in Seq(UserRow) /\ Len(user') = Len(user) + 1
            /\ Len(user) \in Nat
            /\ user'[Len(user) + 1] = row
            /\ \A u \in UserIds : user'[u] = user[u]
            /\ UserIds' = UserIds \cup {Len(user) + 1} /\ Len(user) + 1 \notin UserIds
        BY <3>1 DEF UserRow, DirInv, TableInv, UserIds
      <3>3. /\ j \in Job /\ j.at = "reg_ack" /\ j.id = Len(user) + 1 /\ j.name = n
            /\ j.friends = {} /\ DOMAIN j.users = {}
        <4>1. Len(user) + 1 \in Nat
          BY <3>2
        <4> QED BY <3>0, <4>1, RegType
      <3>4. Grow
        BY <3>1, <3>2, <1>0 DEF Grow, GroupIds
      <3>5. TableInv'
        BY <3>1, <3>2, <1>0 DEF DirInv, TableInv, GroupIds
      <3>6. HandlerInv(c)'
        BY <3>1, <3>2, <3>3, <1>0 DEF HandlerInv, JobInv
      <3>7. JobInv'
        BY <3>1, <3>3, <3>4, <3>6, <1>0, OneMoves DEF DirInv
      <3>8. RegAnswersOwnRow'
        <4>1. \A d \in Conns \ {c} : job'[d].at = "reg_ack" => job'[d].id \in UserIds
          BY <3>1, <1>0 DEF HandlerInv
        <4>2. \A d \in Conns : job'[d].at = "reg_ack" =>
                job'[d].id \in UserIds' /\ user'[job'[d].id].name = job'[d].name
          BY <3>7 DEF JobInv, HandlerInv
        <4>3. job'[c].id = Len(user) + 1
          BY <3>1, <3>3, <1>0
        <4>4. \A d \in Conns \ {c} : job'[d] = job[d]
          BY <3>1, <1>0
        <4> QED
          BY <3>2, <4>1, <4>2, <4>3, <4>4 DEF DirInv, RegAnswersOwnRow, InsertId
      <3>9. CreatorIsMaker'
        BY <3>1, <3>2 DEF DirInv, TableInv, CreatorIsMaker, GroupIds
      <3>10. OrphanOnlyAfterFailure'
        BY <3>1, <3>3, <1>0 DEF DirInv, OrphanOnlyAfterFailure, GroupIds, InsertId, DbOk
      <3> QED BY <3>5, <3>7, <3>8, <3>9, <3>10 DEF DirInv
    <2> QED BY <2>1, <2>2
  <1>2. ASSUME NEW c \in Conns, RegAck(c) PROVE DirInv'
    <2>1. /\ job' = [job EXCEPT ![c] = Idle] /\ job[c].at = "reg_ack"
          /\ UNCHANGED <<tables, session, deaths>> /\ DbOk
      BY <1>2 DEF RegAck, Step, Return, DbOk
    <2>2. job'[c] = Idle /\ session'[c] \in {0} \cup UserIds'
      BY <2>1, <1>0 DEF HandlerInv, UserIds, tables
    <2> QED BY <2>1, <2>2, IdleType, IdleHandler, OnlyJob
  <1>3. ASSUME NEW c \in Conns, NEW kind, Throw(c, kind) PROVE DirInv'
    <2>1. /\ \A d \in Conns : session'[d] = 0 /\ job'[d] = Idle
          /\ session' \in [Conns -> Nat] /\ job' \in [Conns -> Job]
          /\ faults + deaths < MaxFailures /\ deaths' = deaths + 1
          /\ UNCHANGED <<tables, faults>>
      BY <1>3, IdleType DEF Throw
    <2>2. Grow
      BY <2>1, <1>0 DEF tables, Grow, UserIds, GroupIds
    <2>3. TableInv'
      BY <2>1, <1>0 DEF tables, DirInv, TableInv, UserIds, GroupIds
    <2>4. JobInv'
      BY <2>1, IdleHandler DEF JobInv
    <2>5. RegAnswersOwnRow' /\ CreatorIsMaker' /\ OrphanOnlyAfterFailure'
      BY <2>1, <2>2, <1>0, Kept, IdleType DEF tables
    <2> QED BY <2>3, <2>4, <2>5 DEF DirInv
  <1>4. ASSUME NEW c \in Conns, NEW v \in 1 .. MaxUsers, AddFriend(c, v)
        PROVE  DirInv'
    <2>1. /\ session[c] \in UserIds
          /\ friend' \subseteq friend \cup {<<session[c], v>>}
          /\ DbOk \/ DbFail
          /\ UNCHANGED <<user, group, member, session, job, deaths>>
      BY <1>4, <1>0 DEF AddFriend, Handle, Request, HandlerInv
    <2>2. Grow
      BY <2>1, <1>0 DEF Grow, UserIds, GroupIds
    <2>3. TableInv'
      BY <2>1, <1>0 DEF DirInv, TableInv, UserIds, GroupIds
    <2>4. JobInv'
      BY <2>1, <2>2, <1>0, GrowKeeps DEF DirInv, JobInv
    <2>5. RegAnswersOwnRow' /\ CreatorIsMaker' /\ OrphanOnlyAfterFailure'
      BY <2>1, <2>2, <1>0, Kept
    <2> QED BY <2>3, <2>4, <2>5 DEF DirInv
  <1>5. ASSUME NEW c \in Conns, CreateGroup(c) PROVE DirInv'
    <2>1. /\ job[c].at = "idle" /\ session[c] \in UserIds
          /\ Len(group) < MaxGroups
      BY <1>5, <1>0 DEF CreateGroup, Handle, Request, HandlerInv
    <2>2. CASE UNCHANGED <<group, job>>
      <3>1. /\ DbOk \/ DbFail
            /\ UNCHANGED <<tables, session, job, deaths>>
        BY <1>5, <2>2, <1>0 DEF CreateGroup, DbOk, DbFail, tables
      <3>2. Grow
        BY <3>1, <1>0 DEF tables, Grow, UserIds, GroupIds
      <3>3. TableInv'
        BY <3>1, <1>0 DEF tables, DirInv, TableInv, UserIds, GroupIds
      <3>4. JobInv'
        BY <3>1, <3>2, <1>0, GrowKeeps DEF DirInv, JobInv
      <3>5. RegAnswersOwnRow' /\ CreatorIsMaker' /\ OrphanOnlyAfterFailure'
        BY <3>1, <3>2, <1>0, Kept DEF tables
      <3> QED BY <3>3, <3>4, <3>5 DEF DirInv
    <2>3. CASE ~UNCHANGED <<group, job>>
      <3>0. PICK j : j = MakerJob(Len(group) + 1)
        OBVIOUS
      <3>1. /\ group' = Append(group, session[c])
            /\ job' = [job EXCEPT ![c] = j]
            /\ DbOk
            /\ UNCHANGED <<user, friend, member, session, deaths>>
        BY <1>5, <2>3, <3>0 DEF CreateGroup, MakerJob
      <3>2. /\ group' \in Seq(UserIds) /\ Len(group') = Len(group) + 1
            /\ Len(group) \in Nat
            /\ group'[Len(group) + 1] = session[c]
            /\ \A g \in GroupIds : group'[g] = group[g]
            /\ GroupIds' = GroupIds \cup {Len(group) + 1}
            /\ Len(group) + 1 \notin GroupIds
        BY <2>1, <3>1 DEF DirInv, TableInv, GroupIds
      <3>3. /\ j \in Job /\ j.at = "creator" /\ j.id = Len(group) + 1
            /\ j.friends = {} /\ DOMAIN j.users = {}
        <4>1. Len(group) + 1 \in Nat
          BY <3>2
        <4> QED BY <3>0, <4>1, MakerType
      <3>4. Grow
        BY <3>1, <3>2, <1>0 DEF Grow, UserIds
      <3>5. TableInv'
        BY <2>1, <3>1, <3>2, <1>0 DEF DirInv, TableInv, UserIds
      <3>6. HandlerInv(c)'
        BY <2>1, <3>1, <3>2, <3>3, <3>4, <1>0 DEF HandlerInv, Grow
      <3>7. JobInv'
        BY <3>1, <3>3, <3>4, <3>6, <1>0, OneMoves DEF DirInv
      <3>8. RegAnswersOwnRow'
        <4>1. \A d \in Conns \ {c} : job'[d] = job[d]
          BY <3>1, <1>0
        <4>2. job'[c].at # "reg_ack"
          BY <3>1, <3>3, <1>0
        <4> QED BY <3>4, <4>1, <4>2, RegKept
      <3>9. CreatorIsMaker'
        BY <3>1, <3>2 DEF DirInv, TableInv, CreatorIsMaker, UserIds
      <3>10. OrphanOnlyAfterFailure'
        <4>1. \A g \in GroupIds : \A d \in Conns :
                job[d].at = "creator" /\ InsertId(d) = g =>
                  job'[d].at = "creator" /\ InsertId(d)' = g
          BY <2>1, <3>1, <1>0 DEF InsertId
        <4>2. job'[c].at = "creator" /\ InsertId(c)' = Len(group) + 1
          BY <3>1, <3>3, <1>0 DEF InsertId
        <4> QED
          BY <3>1, <3>2, <4>1, <4>2, <1>0 DEF DirInv, OrphanOnlyAfterFailure, DbOk
      <3> QED BY <3>5, <3>7, <3>8, <3>9, <3>10 DEF DirInv
    <2> QED BY <2>2, <2>3
  <1>6. ASSUME NEW c \in Conns, AddCreator(c) PROVE DirInv'
    <2> DEFINE g == job[c].id
    <2>1. /\ job[c].at = "creator" /\ g \in GroupIds /\ group[g] = session[c]
          /\ session[c] \in UserIds
          /\ job' = [job EXCEPT ![c] = Idle]
          /\ UNCHANGED <<user, friend, group, session, deaths>>
          /\ \/ member' = member \cup {<<g, session[c], "creator">>} /\ DbOk
             \/ UNCHANGED member /\ DbFail
      BY <1>6, <1>0
      DEF AddCreator, Step, Return, addGroup, InsertId, HandlerInv, DirInv,
          TableInv, GroupIds
    <2>2. Grow
      BY <2>1, <1>0 DEF Grow, UserIds, GroupIds
    <2>3. TableInv'
      BY <2>1, <1>0 DEF DirInv, TableInv, UserIds, GroupIds, Roles
    <2>4. HandlerInv(c)'
      BY <2>1, <2>2, <1>0, IdleHandler DEF Grow
    <2>5. JobInv'
      BY <2>1, <2>2, <2>4, <1>0, IdleType, OneMoves DEF DirInv
    <2>6. RegAnswersOwnRow'
      BY <2>1, <2>2, <1>0, IdleType, RegKept DEF DirInv
    <2>7. CreatorIsMaker'
      BY <2>1 DEF DirInv, CreatorIsMaker, UserIds, GroupIds
    <2>8. OrphanOnlyAfterFailure'
      <3>1. CASE DbFail
        BY <2>1, <3>1, <1>0 DEF OrphanOnlyAfterFailure, DbFail
      <3>2. CASE member' = member \cup {<<g, session[c], "creator">>} /\ DbOk
        <4>1. ASSUME NEW d \in Conns, job[d].at = "creator", d # c
              PROVE  job'[d].at = "creator" /\ InsertId(d)' = InsertId(d)
          BY <2>1, <4>1, <1>0 DEF InsertId
        <4> QED
          BY <2>1, <3>2, <4>1, <1>0
          DEF DirInv, OrphanOnlyAfterFailure, InsertId, GroupIds, DbOk
      <3> QED BY <2>1, <3>1, <3>2
    <2> QED BY <2>3, <2>5, <2>6, <2>7, <2>8 DEF DirInv
  <1>7. ASSUME NEW c \in Conns, NEW g \in 1 .. MaxGroups, AddGroup(c, g)
        PROVE  DirInv'
    <2>1. /\ session[c] \in UserIds
          /\ member' \subseteq member \cup {<<g, session[c], "nomal">>}
          /\ member \subseteq member'
          /\ DbOk \/ DbFail
          /\ UNCHANGED <<user, friend, group, session, job, deaths>>
      BY <1>7, <1>0 DEF AddGroup, addGroup, Handle, Request, HandlerInv
    <2>2. Grow
      BY <2>1, <1>0 DEF Grow, UserIds, GroupIds
    <2>3. TableInv'
      BY <2>1, <1>0 DEF DirInv, TableInv, UserIds, GroupIds, Roles
    <2>4. JobInv'
      BY <2>1, <2>2, <1>0, GrowKeeps DEF DirInv, JobInv
    <2>5. RegAnswersOwnRow' /\ CreatorIsMaker' /\ OrphanOnlyAfterFailure'
      BY <2>1, <2>2, <1>0, Kept
    <2> QED BY <2>3, <2>4, <2>5 DEF DirInv
  <1>8. ASSUME NEW c \in Conns, NEW u \in UserIds, LoginQuery(c, u)
        PROVE  DirInv'
    <2>1. /\ job[c].at = "idle"
          /\ DbOk \/ DbFail
          /\ UNCHANGED <<tables, deaths>>
      BY <1>8, <1>0 DEF LoginQuery, Handle, Request
    <2>2. Grow
      BY <2>1, <1>0 DEF tables, Grow, UserIds, GroupIds
    <2>3. TableInv'
      BY <2>1, <1>0 DEF tables, DirInv, TableInv, UserIds, GroupIds
    <2>4. CASE UNCHANGED <<session, job>>
      <3>1. JobInv'
        BY <2>1, <2>2, <2>4, <1>0, GrowKeeps DEF DirInv, JobInv
      <3>2. RegAnswersOwnRow' /\ CreatorIsMaker' /\ OrphanOnlyAfterFailure'
        BY <2>1, <2>2, <2>4, <1>0, Kept DEF tables
      <3> QED BY <2>3, <3>1, <3>2 DEF DirInv
    <2>5. CASE ~UNCHANGED <<session, job>>
      <3> DEFINE j == LoginJob
      <3>1. /\ session' = [session EXCEPT ![c] = u]
            /\ job' = [job EXCEPT ![c] = j]
        BY <1>8, <2>5 DEF LoginQuery, LoginJob
      <3>2. j \in Job /\ j.at = "online" /\ j.friends = {} /\ DOMAIN j.users = {}
        BY LoginType
      <3>3. HandlerInv(c)'
        BY <2>1, <2>2, <3>1, <3>2, <1>0 DEF HandlerInv, Grow
      <3>4. JobInv'
        BY <2>1, <2>2, <3>1, <3>2, <3>3, <1>0, OneMoves DEF DirInv
      <3>5. /\ job'[c] = j
            /\ \A d \in Conns \ {c} : job'[d] = job[d]
        BY <3>1, <3>2, <1>0
      <3>6. RegAnswersOwnRow' /\ CreatorIsMaker' /\ OrphanOnlyAfterFailure'
        <4>1. /\ UNCHANGED <<group, member>> /\ deaths' \in Nat /\ deaths' >= deaths
              /\ faults' \in Nat
          BY <2>1, <1>0 DEF tables
        <4>2. \A d \in Conns :
                /\ job'[d].at = "reg_ack" => job'[d] = job[d]
                /\ job[d].at = "creator" => job'[d] = job[d]
          BY <2>1, <3>2, <3>5
        <4> QED BY <2>2, <4>1, <4>2, Kept
      <3> QED BY <2>3, <3>4, <3>6 DEF DirInv
    <2> QED BY <2>4, <2>5
  <1>15. ASSUME NEW c \in Conns, LoginOnline(c) PROVE DirInv'
    <2>1. PICK j : j = OnlineJob(job[c])
      OBVIOUS
    <2>2. /\ job[c].at = "online"
          /\ job' = [job EXCEPT ![c] = j]
          /\ \/ user' = SetState(session[c], "online") /\ DbOk
             \/ UNCHANGED user /\ DbFail
          /\ UNCHANGED <<friend, group, member, session, deaths>>
      BY <1>15, <2>1 DEF LoginOnline, Step, OnlineJob
    <2>3. /\ session[c] \in UserIds /\ DOMAIN job[c].users = {}
          /\ job[c].friends \subseteq UserIds
      BY <2>2, <1>0 DEF HandlerInv
    <2>4. /\ j \in Job /\ j.at = "friends" /\ j.friends = job[c].friends
          /\ j.users = job[c].users
      BY <2>1, <1>0, OnlineType
    <2>5. /\ user' \in Seq(UserRow) /\ Len(user') = Len(user)
          /\ \A v \in UserIds : user'[v].name = user[v].name
          /\ UserIds' = UserIds
      <3>1. user' = SetState(session[c], "online") \/ UNCHANGED user
        BY <2>2
      <3>2. TableInv
        BY DEF DirInv
      <3> QED BY <2>3, <3>1, <3>2, StateSet
    <2>6. Grow
      BY <2>2, <2>5, <1>0 DEF Grow, GroupIds
    <2>7. TableInv'
      BY <2>2, <2>5, <1>0 DEF DirInv, TableInv, GroupIds
    <2>8. HandlerInv(c)'
      BY <2>2, <2>3, <2>4, <2>5, <1>0 DEF HandlerInv
    <2>9. JobInv'
      BY <2>2, <2>4, <2>6, <2>8, <1>0, OneMoves DEF DirInv
    <2>10. RegAnswersOwnRow' /\ CreatorIsMaker' /\ OrphanOnlyAfterFailure'
      BY <2>2, <2>4, <2>6, <1>0, Kept
    <2> QED BY <2>7, <2>9, <2>10 DEF DirInv
  <1>9. ASSUME NEW c \in Conns, FriendList(c) PROVE DirInv'
    <2>1. PICK found \in {FriendsOf(session[c]), {}} :
            /\ job' = [job EXCEPT ![c] = [@ EXCEPT !.at = "groups",
                                                   !.friends = found]]
            /\ Found(found, FriendsOf(session[c]))
      BY <1>9 DEF FriendList
    <2>2. PICK j : j = WithFriends(job[c], found)
      OBVIOUS
    <2>3. /\ job' = [job EXCEPT ![c] = j] /\ job'[c] = j
          /\ job[c] \in Job
          /\ DbOk \/ DbFail
      BY <2>1, <2>2, <1>0 DEF WithFriends, Found
    <2>4. /\ job[c].at = "friends" /\ UNCHANGED <<tables, session, deaths>>
      BY <1>9 DEF FriendList, Step
    <2>5. found \subseteq UserIds /\ found \in SUBSET Nat
      BY <2>1, <1>0 DEF FriendsOf
    <2>6. /\ j \in Job /\ j.at = "groups" /\ j.friends = found
          /\ j.users = job[c].users
      <3>1. /\ WithFriends(job[c], found) \in Job
            /\ WithFriends(job[c], found).at = "groups"
            /\ WithFriends(job[c], found).friends = found
            /\ WithFriends(job[c], found).users = job[c].users
        BY <2>3, <2>5, FriendsType
      <3> QED BY <2>2, <3>1
    <2>7. session'[c] = session[c] /\ UserIds' = UserIds
      BY <2>4 DEF tables, UserIds
    <2>8. HandlerInv(c)'
      <3>1. /\ session[c] \in {0} \cup UserIds /\ session[c] # 0
            /\ DOMAIN job[c].users = {}
        BY <2>4, <1>0 DEF HandlerInv
      <3> QED BY <3>1, <2>3, <2>5, <2>6, <2>7 DEF HandlerInv
    <2> QED BY <2>3, <2>4, <2>6, <2>8, OnlyJob
  <1>10. ASSUME NEW c \in Conns, GroupList(c) PROVE DirInv'
    <2>1. PICK found \in {GroupsOf(session[c]), {}} :
            /\ job' = [job EXCEPT ![c] = [@ EXCEPT !.at = "members",
                                !.todo = found, !.users = [g \in found |-> {}]]]
            /\ Found(found, GroupsOf(session[c]))
      BY <1>10 DEF GroupList
    <2>2. PICK lists : lists = [g \in found |-> {}]
      OBVIOUS
    <2>3. PICK j : j = WithGroups(job[c], found, lists)
      OBVIOUS
    <2>4. /\ job' = [job EXCEPT ![c] = j] /\ job'[c] = j
          /\ job[c] \in Job
          /\ DbOk \/ DbFail
      BY <2>1, <2>2, <2>3, <1>0 DEF WithGroups, Found
    <2>5. /\ job[c].at = "groups" /\ UNCHANGED <<tables, session, deaths>>
      BY <1>10 DEF GroupList, Step
    <2>6. found \subseteq GroupsOf(session[c]) /\ found \in SUBSET Nat
      BY <2>1, <1>0 DEF GroupsOf
    <2>7. lists \in [found -> SUBSET Nat] /\ \A g \in found : lists[g] = {}
      BY <2>2
    <2>8. lists \in Lists /\ DOMAIN lists = found
      BY <2>6, <2>7 DEF Lists
    <2>9. /\ j \in Job /\ j.at = "members" /\ j.friends = job[c].friends
          /\ j.todo = found /\ j.users = lists
      BY <2>3, <2>4, <2>6, <2>8, GroupsType
    <2>10. session'[c] = session[c] /\ UserIds' = UserIds
      BY <2>5 DEF tables, UserIds
    <2>11. GroupsOf(session[c])' = GroupsOf(session[c])
      BY <2>5 DEF tables, GroupsOf, GroupIds
    <2>12. HandlerInv(c)'
      <3>1. /\ session[c] \in {0} \cup UserIds /\ session[c] # 0
            /\ job[c].friends \subseteq UserIds
        BY <2>5, <1>0 DEF HandlerInv
      <3>2. ASSUME NEW g \in DOMAIN j.users
            PROVE  g \in GroupsOf(session[c])' /\ j.users[g] = {} /\ g \in j.todo
        <4>1. j.todo = found /\ j.users = lists
          BY <2>9
        <4>2. g \in found /\ lists[g] = {}
          BY <2>7, <2>8, <4>1
        <4>3. g \in GroupsOf(session[c])
          BY <2>6, <4>2
        <4>4. g \in GroupsOf(session[c])'
          BY <2>11, <4>3, Zenon
        <4> QED BY <4>1, <4>2, <4>4
      <3> QED BY <3>1, <3>2, <2>4, <2>9, <2>10, <2>11 DEF HandlerInv
    <2> QED BY <2>4, <2>5, <2>9, <2>12, OnlyJob
  <1>11. ASSUME NEW c \in Conns, NEW g \in GroupIds, MemberList(c, g)
         PROVE  DirInv'
    <2>1. PICK found \in {MembersOf(c, g), {}} :
            /\ job' = [job EXCEPT ![c] = WithUsers(job[c], g, found)]
            /\ Found(found, MembersOf(c, g))
      BY <1>11, Zenon DEF MemberList, WithUsers
    <2>2. PICK j : j = WithUsers(job[c], g, found)
      OBVIOUS
    <2>3. /\ job' = [job EXCEPT ![c] = j] /\ job'[c] = j
          /\ job[c] \in Job
          /\ DbOk \/ DbFail
      <3>1. job' = [job EXCEPT ![c] = j]
        BY <2>1, <2>2
      <3> QED BY <2>1, <3>1, <1>0 DEF Found
    <2>4. /\ job[c].at = "members" /\ UNCHANGED <<tables, session, deaths>>
          /\ g \in job[c].todo
      BY <1>11 DEF MemberList, Step
    <2>5. found \in SUBSET Nat
      BY <2>1, <1>0 DEF MembersOf
    <2>6. /\ j \in Job /\ j.at = "members" /\ j.friends = job[c].friends
          /\ j.todo = job[c].todo \ {g}
          /\ DOMAIN j.users = DOMAIN job[c].users
          /\ \A h \in DOMAIN job[c].users :
               j.users[h] = IF h = g THEN found ELSE job[c].users[h]
      <3>1. /\ j \in Job /\ j.at = job[c].at /\ j.friends = job[c].friends
            /\ j.todo = job[c].todo \ {g}
            /\ DOMAIN j.users = DOMAIN job[c].users
            /\ \A h \in DOMAIN job[c].users :
                 j.users[h] = IF h = g THEN found ELSE job[c].users[h]
        BY <2>2, <2>3, <2>5, MembersType
      <3> QED BY <2>4, <3>1
    <2>7. session'[c] = session[c] /\ UserIds' = UserIds
      BY <2>4 DEF tables, UserIds
    <2>8. HandlerInv(c)'
      <3>1. GroupsOf(session[c])' = GroupsOf(session[c]) /\ member' = member
        BY <2>4 DEF tables, GroupsOf, GroupIds
      <3>2. /\ session[c] # 0 /\ session[c] \in {0} \cup UserIds
            /\ job[c].friends \subseteq UserIds
        BY <2>4, <1>0 DEF HandlerInv
      <3>3. found = MembersOf(c, g) \/ faults' > 0
        BY <2>1, <1>0 DEF Found, DbFail
      <3>4. faults > 0 => faults' > 0
        BY <2>1, <1>0 DEF Found, DbOk, DbFail
      <3>5. ASSUME NEW h \in DOMAIN job[c].users
            PROVE  /\ h \in GroupsOf(session[c])
                   /\ \A u \in j.users[h] : \E r \in Roles : <<h, u, r>> \in member
                   /\ \/ h \in j.todo
                      \/ faults' > 0
                      \/ session[c] \in j.users[h]
        <4>1. /\ h \in GroupsOf(session[c])
              /\ \A u \in job[c].users[h] : \E r \in Roles : <<h, u, r>> \in member
              /\ \/ h \in job[c].todo
                 \/ faults > 0
                 \/ session[c] \in job[c].users[h]
          BY <3>5, <1>0 DEF HandlerInv
        <4>2. CASE h = g
          <5>1. j.users[h] = found
            BY <2>6, <4>2
          <5>2. session[c] \in MembersOf(c, g)
            BY <3>2, <4>1, <4>2 DEF GroupsOf, MembersOf
          <5>3. \A u \in found : \E r \in Roles : <<h, u, r>> \in member
            <6>1. \A u \in MembersOf(c, g) : \E r \in Roles : <<g, u, r>> \in member
              BY DEF MembersOf
            <6> QED BY <2>1, <4>2, <6>1
          <5> QED BY <4>1, <5>1, <5>2, <5>3, <3>3
        <4>3. CASE h # g
          BY <2>6, <3>4, <4>1, <4>3
        <4> QED BY <4>2, <4>3
      <3> QED BY <2>3, <2>6, <2>7, <3>1, <3>2, <3>5 DEF HandlerInv
    <2> QED BY <2>3, <2>4, <2>6, <2>8, OnlyJob
  <1>12. ASSUME NEW c \in Conns, LoginAck(c) PROVE DirInv'
    <2>1. /\ job' = [job EXCEPT ![c] = Idle] /\ job[c].at = "members"
          /\ UNCHANGED <<tables, session, deaths>> /\ DbOk
      BY <1>12 DEF LoginAck, Step, Return, DbOk
    <2>2. job'[c] = Idle /\ session'[c] \in {0} \cup UserIds'
      BY <2>1, <1>0 DEF HandlerInv, UserIds, tables
    <2> QED BY <2>1, <2>2, IdleType, IdleHandler, OnlyJob
  <1>13. ASSUME NEW c \in Conns, LoginOut(c) PROVE DirInv'
    <2>1. /\ job[c].at = "idle" /\ session[c] \in UserIds
          /\ session' = [session EXCEPT ![c] = 0]
          /\ \/ user' = SetState(session[c], "offline") /\ DbOk
             \/ UNCHANGED user /\ DbFail
          /\ UNCHANGED <<friend, group, member, job, deaths>>
      BY <1>13, <1>0 DEF LoginOut, Handle, Request, HandlerInv
    <2>2. /\ user' \in Seq(UserRow) /\ Len(user') = Len(user)
          /\ \A v \in UserIds : user'[v].name = user[v].name
          /\ UserIds' = UserIds
      <3>1. user' = SetState(session[c], "offline") \/ UNCHANGED user
        BY <2>1
      <3>2. TableInv
        BY DEF DirInv
      <3> QED BY <2>1, <3>1, <3>2, StateSet
    <2>3. Grow
      BY <2>1, <2>2, <1>0 DEF Grow, GroupIds
    <2>4. TableInv'
      BY <2>1, <2>2, <1>0 DEF DirInv, TableInv, GroupIds
    <2>5. HandlerInv(c)'
      BY <2>1, <2>2, <1>0 DEF HandlerInv
    <2>6. JobInv'
      BY <2>1, <2>3, <2>5, <1>0, OneMoves DEF DirInv
    <2>7. RegAnswersOwnRow' /\ CreatorIsMaker' /\ OrphanOnlyAfterFailure'
      BY <2>1, <2>3, <1>0, Kept
    <2> QED BY <2>4, <2>6, <2>7 DEF DirInv
  <1>14. CASE UNCHANGED dirVars
    BY <1>14, StillDir
  <1> QED
    BY <1>1, <1>2, <1>3, <1>4, <1>5, <1>6, <1>7, <1>8, <1>9, <1>10, <1>11, <1>12,
       <1>13, <1>14, <1>15
    DEF Next

LEMMA InitDir == Init => DirInv
  <1> SUFFICES ASSUME Init PROVE DirInv
    OBVIOUS
  <1>1. TableInv
    BY DirectoryAssumption DEF Init, TableInv, UserIds, GroupIds, UserRow
  <1>2. ASSUME NEW c \in Conns PROVE HandlerInv(c)
    <2>1. job[c] = Idle /\ session[c] = 0
      BY DEF Init
    <2>2. job[c].at = "idle" /\ job[c].friends = {}
      BY <2>1, IdleType
    <2>3. DOMAIN job[c].users = {}
      BY <2>1, IdleType
    <2> QED BY <2>1, <2>2, <2>3 DEF HandlerInv
  <1>3. JobInv
    BY <1>2, IdleType DEF Init, JobInv
  <1>4. RegAnswersOwnRow /\ CreatorIsMaker /\ OrphanOnlyAfterFailure
    BY IdleType DEF Init, RegAnswersOwnRow, CreatorIsMaker,
                    OrphanOnlyAfterFailure, GroupIds
  <1> QED BY <1>1, <1>3, <1>4 DEF DirInv

LEMMA DirInvariant == Spec => []DirInv
  BY InitDir, DirStep, PTL DEF Spec

-----------------------------------------------------------------------------

\* RegAnswersOwnRow, for any number of registrations that overlap.
THEOREM RegAnswersOwnRowCorrect == Spec => []RegAnswersOwnRow
  <1>1. DirInv => RegAnswersOwnRow
    BY DEF DirInv
  <1> QED BY <1>1, DirInvariant, PTL

\* CreatorIsMaker, for any number of groups, members and failures.
THEOREM CreatorIsMakerCorrect == Spec => []CreatorIsMaker
  <1>1. DirInv => CreatorIsMaker
    BY DEF DirInv
  <1> QED BY <1>1, DirInvariant, PTL

\* OrphanOnlyAfterFailure: without a failure no group is left without creator.
THEOREM OrphanOnlyAfterFailureCorrect == Spec => []OrphanOnlyAfterFailure
  <1>1. DirInv => OrphanOnlyAfterFailure
    BY DEF DirInv
  <1> QED BY <1>1, DirInvariant, PTL

\* LoginListsTrue, however many register, befriend and join in between.
THEOREM LoginListsTrueCorrect == Spec => []LoginListsTrue
  <1>1. DirInv => LoginListsTrue
    BY DEF DirInv, JobInv, HandlerInv, LoginListsTrue, GroupsOf
  <1> QED BY <1>1, DirInvariant, PTL

\* DirTypeOK, for every instance: whatever is registered, created and joined, a
\* row of GroupUser names a user who has an account, and a session does.
THEOREM DirTypeCorrect == Spec => []DirTypeOK
  <1>1. DirInv => DirTypeOK
    <2> SUFFICES ASSUME DirInv PROVE DirTypeOK
      OBVIOUS
    <2> USE DirectoryAssumption DEF DirInv
    <2>1. UserIds \subseteq 1 .. MaxUsers
      BY DEF TableInv, UserIds
    <2>2. group \in Seq(1 .. MaxUsers)
      <3>1. group \in Seq(UserIds)
        BY DEF TableInv
      <3> QED BY <2>1, <3>1, SeqMonotonic
    <2>3. session \in [Conns -> 0 .. MaxUsers]
      BY <2>1 DEF JobInv, HandlerInv
    <2>4. \A c \in Conns : job[c].at \in Steps /\ session[c] \in {0} \cup UserIds
      BY DEF JobInv, HandlerInv, Job
    <2> QED BY <2>2, <2>3, <2>4 DEF TableInv, DirTypeOK, UserRow
  <1> QED BY <1>1, DirInvariant, PTL
=============================================================================
