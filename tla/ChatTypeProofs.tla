--------------------------- MODULE ChatTypeProofs ----------------------------
(***************************************************************************)
(* Type correctness of the chat core.                                      *)
(*                                                                         *)
(* TypeOK is not inductive as it stands.  That publish() pushes to a user, *)
(* that insertOffline() gets a text, and that a send has a connection, only*)
(* follows from where the handler is: JobFits and ObserverFits say it, and *)
(* ClientInv that a client in the main menu has a user.  TypeInv adds them.*)
(***************************************************************************)
EXTENDS ChatService, TLAPS

\* The step a handler is at has the user, the text and the connection it uses.
JobFits(j) ==
    /\ j.at \notin {"idle", "group_lock", "group_next"} => j.id \in Users
    /\ j.at \in ChatSteps \cup GroupSteps => j.msg \in Msgs
    /\ j.at = "chat_send" => j.tgt \in Conns

\* The same for the observer thread, once it has popped a push.
ObserverFits(o) ==
    /\ o.at # "idle" => o.chan \in Users /\ o.msg \in Msgs
    /\ o.at = "send" => o.tgt \in Conns

\* TypeInv: TypeOK and these two, one conjunct per part of the state.
ProcInv == /\ proc \in [Servers -> {"up", "exiting", "down"}]
           /\ crashes \in 0 .. MaxCrashes
           /\ sigints \in 0 .. MaxSigints
MapInv == /\ connMap \in [Servers -> [Users -> Conns \cup {NoConn}]]
          /\ connMutex \in [Servers -> Conns \cup {NoConn, ObserverThread}]
ClientInv == /\ client \in [Conns -> Client]
             /\ \A c \in Conns : client[c].mode \in {"menu", "left"}
                                   => client[c].user \in Users
JobInv == job \in [Conns -> Job] /\ \A c \in Conns : JobFits(job[c])
ObserverInv == /\ observer \in [Servers -> Observer]
               /\ \A s \in Servers : ObserverFits(observer[s])
SendInv == posted \subseteq Msgs /\ sends \in [Users -> Rows]

TypeInv == /\ DbTypeOK /\ BusTypeOK /\ ProcInv /\ MapInv
           /\ ClientInv /\ JobInv /\ ObserverInv /\ SendInv

\* The empty table of a user is a bag of rows (OfflineMessage).
LEMMA NoRowsType == NoRows \in Rows
  BY DEF NoRows, Rows

\* The job of a connection for which no handler runs is a job.
LEMMA IdleType == Idle \in Job
  BY NoRowsType DEF Idle, Job, Steps

\* UserOperator::updateState writes one of the two states.
LEMMA UpdateStateType ==
  ASSUME DbTypeOK, NEW u, NEW state \in UserStates, updateState(u, state)
  PROVE  DbTypeOK'
  BY MaxDbFaultsAssumption DEF DbTypeOK, updateState, DbOk, DbFail

\* UserOperator::resetState writes one of the two states.
LEMMA ResetStateType ==
  ASSUME DbTypeOK, resetState
  PROVE  DbTypeOK'
  BY MaxDbFaultsAssumption DEF DbTypeOK, resetState, DbOk, DbFail, UserStates

\* OfflineMessage::insert adds a row of one user.
LEMMA InsertOfflineType ==
  ASSUME DbTypeOK, NEW u \in Users, NEW m \in Msgs, insertOffline(u, m)
  PROVE  DbTypeOK'
  BY MaxDbFaultsAssumption DEF DbTypeOK, insertOffline, DbOk, DbFail, Rows

\* OfflineMessage::remove leaves a user without rows.
LEMMA RemoveOfflineType ==
  ASSUME DbTypeOK, NEW u, removeOffline(u)
  PROVE  DbTypeOK'
  BY MaxDbFaultsAssumption, NoRowsType DEF DbTypeOK, removeOffline, DbOk, DbFail

\* GroupOpt::addGroup adds a member to a group.
LEMMA AddGroupRowType ==
  ASSUME DbTypeOK, NEW u \in Users, NEW g, addGroupRow(u, g)
  PROVE  DbTypeOK'
  BY MaxDbFaultsAssumption DEF DbTypeOK, addGroupRow, DbOk, DbFail

\* A handler that goes on to another step keeps its user and its text, so
\* the step it reaches may rely on them as the one before did.
LEMMA GotoType ==
  ASSUME JobInv, NEW c \in Conns, NEW at \in Steps \ {"chat_send"}, Goto(c, at),
         at \notin {"idle", "group_lock", "group_next"} => job[c].id \in Users,
         at \in ChatSteps \cup GroupSteps => job[c].msg \in Msgs
  PROVE  /\ JobInv'
         /\ job'[c] = [job[c] EXCEPT !.at = at]
         /\ \A d \in Conns : d # c => job'[d] = job[d]
  <1>1. /\ job' \in [Conns -> Job]
        /\ job'[c] = [job[c] EXCEPT !.at = at]
        /\ \A d \in Conns : d # c => job'[d] = job[d]
    BY DEF Goto, Job, JobInv
  <1>2. JobFits(job'[c])
    BY <1>1 DEF JobInv, JobFits, Job
  <1> QED BY <1>1, <1>2 DEF JobInv

\* A handler that starts puts a fitting job in the place of the idle one.
LEMMA StartType ==
  ASSUME JobInv, NEW c \in Conns, NEW r \in Job, JobFits(r), job' = [job EXCEPT
         ![c] = r]
  PROVE  /\ JobInv'
         /\ job'[c] = r
         /\ \A d \in Conns : d # c => job'[d] = job[d]
  BY DEF JobInv

\* A handler that returns leaves its connection idle.
LEMMA ReturnType ==
  ASSUME JobInv, NEW c \in Conns, Return(c)
  PROVE  JobInv'
  <1>1. JobFits(Idle)
    BY DEF JobFits, Idle, ChatSteps, GroupSteps
  <1> QED BY <1>1, IdleType, StartType DEF Return

\* The handlers that start with nothing but a user: login, loginOut and
\* clientCloseException.
LEMMA BeginType ==
  ASSUME JobInv, NEW c \in Conns, NEW at \in Steps, NEW u \in Users,
         at \notin ChatSteps \cup GroupSteps,
         job' = [job EXCEPT ![c] = [Idle EXCEPT !.at = at, !.id = u]]
  PROVE  JobInv'
  <1>1. [Idle EXCEPT !.at = at, !.id = u] \in Job
    BY IdleType DEF Job
  <1>2. JobFits([Idle EXCEPT !.at = at, !.id = u])
    BY DEF JobFits, Idle, ChatSteps
  <1> QED BY <1>1, <1>2, StartType

\* A query changes no table, whether or not it fails.
LEMMA QueryType ==
  ASSUME DbTypeOK, UNCHANGED <<userState, offlineMsg, groupUser>>, DbOk \/
         DbFail
  PROVE  DbTypeOK'
  BY MaxDbFaultsAssumption DEF DbTypeOK, DbOk, DbFail

\* SUBSCRIBE and UNSUBSCRIBE are appended to one connection.
LEMMA WriteCmdType ==
  ASSUME BusTypeOK, NEW s \in Servers, NEW op \in {"SUBSCRIBE", "UNSUBSCRIBE"},
         NEW u \in Users,
         WriteCmd(s, op, u)
  PROVE  BusTypeOK'
  <1> DEFINE cmd == [op |-> op, chan |-> u]
  <1>1. CASE ~linked[s] /\ UNCHANGED subCmds
    BY <1>1 DEF BusTypeOK, WriteCmd
  <1>2. CASE /\ Len(subCmds[s]) < MaxPending
             /\ subCmds' = [subCmds EXCEPT ![s] = Append(@, cmd)]
    <2>1. subCmds[s] \in Seq(Cmd) /\ cmd \in Cmd
      BY DEF BusTypeOK, Cmd
    <2>2. /\ Append(subCmds[s], cmd) \in Seq(Cmd)
          /\ Len(Append(subCmds[s], cmd)) = Len(subCmds[s]) + 1
          /\ Len(subCmds[s]) \in Nat
      BY <2>1
    <2> HIDE DEF cmd
    <2>3. /\ subCmds' \in [Servers -> Seq(Cmd)]
          /\ \A t \in Servers : Len(subCmds'[t]) <= MaxPending
      BY <1>2, <2>2, BusAssumption DEF BusTypeOK
    <2> QED BY <2>3 DEF BusTypeOK, WriteCmd
  <1> QED BY <1>1, <1>2 DEF WriteCmd

\* PUBLISH appends a push to the inbox of every subscribed process.
LEMMA PublishType ==
  ASSUME BusTypeOK, NEW u \in Users, NEW m \in Msgs, publish(u, m)
  PROVE  BusTypeOK'
  <1>1. inbox' \in [Servers -> Seq(Push)]
    <2>1. ASSUME NEW p \in Push, NEW s \in Servers
          PROVE  inbox[s] \in Seq(Push) /\ Append(inbox[s], p) \in Seq(Push)
      <3>1. inbox[s] \in Seq(Push)
        BY DEF BusTypeOK
      <3> QED BY <3>1
    <2>2. [chan |-> u, msg |-> m] \in Push
      BY DEF Push
    <2>3. CASE UNCHANGED inbox
      BY <2>3 DEF BusTypeOK
    <2>4. CASE inbox' = [s \in Servers |->
                           IF u \in subs[s]
                           THEN Append(inbox[s], [chan |-> u, msg |-> m])
                           ELSE inbox[s]]
      <3>1. PICK p \in Push : p = [chan |-> u, msg |-> m]
        BY <2>2
      <3>2. inbox' = [s \in Servers |->
                        IF u \in subs[s] THEN Append(inbox[s], p) ELSE inbox[s]]
        BY <2>4, <3>1
      <3> QED BY <2>1, <3>2
    <2> QED BY <2>3, <2>4 DEF publish
  <1>2. busFaults' \in 0 .. MaxBusFaults
    BY BusAssumption DEF BusTypeOK, publish, BusFail
  <1> QED BY <1>1, <1>2 DEF BusTypeOK, publish

\* Redis takes one command off a connection and changes its channels.
LEMMA RedisServeType ==
  ASSUME BusTypeOK, NEW s \in Servers, RedisServe(s)
  PROVE  BusTypeOK'
  <1>1. subCmds[s] \in Seq(Cmd) /\ subCmds[s] # <<>>
    BY DEF BusTypeOK, RedisServe
  <1>2. /\ Head(subCmds[s]) \in Cmd
        /\ Tail(subCmds[s]) \in Seq(Cmd)
        /\ Len(Tail(subCmds[s])) = Len(subCmds[s]) - 1
        /\ Len(subCmds[s]) \in Nat
    BY <1>1
  <1>3. /\ subCmds' \in [Servers -> Seq(Cmd)]
        /\ \A t \in Servers : Len(subCmds'[t]) <= MaxPending
    BY <1>2, BusAssumption DEF BusTypeOK, RedisServe
  <1>4. subs' \in [Servers -> SUBSET Users]
    BY <1>2 DEF BusTypeOK, RedisServe, Cmd
  <1> QED BY <1>3, <1>4 DEF BusTypeOK, RedisServe

\* A closed subscribe connection leaves empty queues.
LEMMA UnlinkType ==
  ASSUME BusTypeOK, NEW s \in Servers, Unlink(s), linked' \in [Servers ->
         BOOLEAN], busFaults' \in 0..MaxBusFaults
  PROVE  BusTypeOK'
  <1>1. /\ <<>> \in Seq(Cmd) /\ <<>> \in Seq(Push)
        /\ Len(<<>>) = 0
    OBVIOUS
  <1>2. /\ subCmds' \in [Servers -> Seq(Cmd)]
        /\ \A t \in Servers : Len(subCmds'[t]) <= MaxPending
    BY <1>1, BusAssumption DEF BusTypeOK, Unlink
  <1> QED BY <1>1, <1>2 DEF BusTypeOK, Unlink

VanishInv == BusTypeOK /\ MapInv /\ ClientInv /\ JobInv /\ ObserverInv

\* The observer that waits for a push has a fitting state.
LEMMA AsleepType == Asleep \in Observer /\ ObserverFits(Asleep)
  BY DEF Asleep, Observer, ObserverFits

\* conn->send adds a copy of one text to one user.
LEMMA SendType ==
  ASSUME SendInv, NEW u \in Users, NEW c, NEW m \in Msgs, Send(u, c, m),
         UNCHANGED posted
  PROVE  SendInv'
  <1>1. sends[u] \in Rows /\ [sends[u] EXCEPT ![m] = @ + 1] \in Rows
    BY DEF SendInv, Rows
  <1>2. sends' = sends \/ sends' = [sends EXCEPT ![u] = [sends[u] EXCEPT ![m] = @ + 1]]
    BY DEF Send
  <1> QED BY <1>1, <1>2 DEF SendInv

\* The branch on the state of the recipient, in oneChat and groupChat: the
\* job goes on for that recipient and the query changes no table.
LEMMA RouteType ==
  ASSUME DbTypeOK, JobInv, NEW c \in Conns, NEW u \in Users, job[c].msg \in
         Msgs,
         NEW online \in Steps \ {"chat_send"}, NEW offline \in Steps \ {"chat_send"},
         Route(c, u, online, offline)
  PROVE  DbTypeOK' /\ JobInv'
  <1>1. DbTypeOK'
    BY QueryType DEF Route
  <1>2. PICK at \in Steps \ {"chat_send"} :
          job' = [job EXCEPT ![c].at = at, ![c].id = u, ![c].todo = @ \ {u}]
    BY DEF Route
  <1> DEFINE r == [job[c] EXCEPT !.at = at, !.id = u, !.todo = @ \ {u}]
  <1>3. r \in Job /\ JobFits(r)
    BY DEF JobInv, Job, JobFits
  <1>4. job' = [job EXCEPT ![c] = r]
    BY <1>2 DEF JobInv, Job
  <1> HIDE DEF r
  <1> QED BY <1>1, <1>3, <1>4, StartType

\* A process that ends leaves its variables as a process that starts has them.
LEMMA VanishType ==
  ASSUME TypeInv, NEW s \in Servers, Vanish(s)
  PROVE  VanishInv'
  <1>1. BusTypeOK'
    <2>1. linked' \in [Servers -> BOOLEAN] /\ busFaults' \in 0 .. MaxBusFaults
      BY DEF TypeInv, BusTypeOK, Vanish
    <2> QED BY <2>1, UnlinkType DEF TypeInv, Vanish
  <1>2. MapInv'
    BY DEF TypeInv, MapInv, Vanish
  <1>3. ClientInv'
    BY DEF TypeInv, ClientInv, Vanish, NoClient, Client, Modes
  <1>4. JobInv'
    <2>1. JobFits(Idle)
      BY DEF JobFits, Idle, ChatSteps, GroupSteps
    <2> QED BY <2>1, IdleType DEF TypeInv, JobInv, Vanish
  <1>5. ObserverInv'
    BY AsleepType DEF TypeInv, ObserverInv, Vanish
  <1> QED BY <1>1, <1>2, <1>3, <1>4, <1>5 DEF VanishInv

\* What the other conjuncts of TypeInv need when a step leaves them alone.
LEMMA Frames ==
  ASSUME TypeInv
  PROVE  /\ UNCHANGED dbVars => DbTypeOK'
         /\ UNCHANGED busVars => BusTypeOK'
         /\ UNCHANGED procVars => ProcInv'
         /\ UNCHANGED mapVars => MapInv'
         /\ UNCHANGED client => ClientInv'
         /\ UNCHANGED job => JobInv'
         /\ UNCHANGED observer => ObserverInv'
         /\ UNCHANGED chatVars => SendInv'
  BY DEF TypeInv, DbTypeOK, dbVars, BusTypeOK, busVars, ProcInv, procVars,
         MapInv,
         mapVars, ClientInv, JobInv, ObserverInv, SendInv, chatVars

\* Every handler, command, Redis step and process step keeps TypeInv: one
\* step of the proof per action, and under it one per conjunct it disturbs.
LEMMA TypeStep == TypeInv /\ [Next]_vars => TypeInv'
  <1> SUFFICES ASSUME TypeInv, [Next]_vars PROVE TypeInv'
    OBVIOUS
  <1> USE Frames DEF TypeInv
  <1> USE SentinelAssumption, ServerOfAssumption
  <1>1. ASSUME NEW c \in Conns, Connect(c) PROVE TypeInv'
    <2>1. ClientInv'
      BY <1>1 DEF Connect, ClientInv, Client, Modes
    <2> QED BY <1>1, <2>1 DEF Connect
  <1>2. ASSUME NEW c \in Conns, Hangup(c) PROVE TypeInv'
    <2>1. ClientInv'
      BY <1>2 DEF Hangup, ClientInv, Client, Modes
    <2> QED BY <1>2, <2>1 DEF Hangup
  <1>3. ASSUME NEW c \in Conns, NEW u \in Users, LoginQuery(c, u) PROVE TypeInv'
    <2>1. DbTypeOK'
      BY <1>3, QueryType DEF LoginQuery
    <2>2. JobInv'
      BY <1>3, BeginType
      DEF LoginQuery, Steps, LoginSteps, ChatSteps, GroupSteps, JobInv
    <2> QED BY <1>3, <2>1, <2>2 DEF LoginQuery
  <1>4. ASSUME NEW c \in Conns, LoginInsert(c) PROVE TypeInv'
    <2>1. MapInv'
      BY <1>4 DEF LoginInsert, MapInv
    <2>2. JobInv'
      BY <1>4, GotoType
      DEF LoginInsert, JobInv, JobFits, Steps, LoginSteps, ChatSteps, GroupSteps
    <2> QED BY <1>4, <2>1, <2>2 DEF LoginInsert
  <1>5. ASSUME NEW c \in Conns, LoginSubscribe(c) PROVE TypeInv'
    <2>1. BusTypeOK'
      BY <1>5, WriteCmdType DEF LoginSubscribe, subscribe, JobInv, JobFits
    <2>2. JobInv'
      BY <1>5, GotoType
      DEF LoginSubscribe, JobInv, JobFits, Steps, LoginSteps, ChatSteps,
          GroupSteps
    <2> QED BY <1>5, <2>1, <2>2 DEF LoginSubscribe
  <1>6. ASSUME NEW c \in Conns, LoginOnline(c) PROVE TypeInv'
    <2>1. DbTypeOK'
      BY <1>6, UpdateStateType DEF LoginOnline, UserStates, JobInv, JobFits
    <2>2. JobInv'
      BY <1>6, GotoType
      DEF LoginOnline, JobInv, JobFits, Steps, LoginSteps, ChatSteps, GroupSteps
    <2> QED BY <1>6, <2>1, <2>2 DEF LoginOnline
  <1>7. ASSUME NEW c \in Conns, LoginReadOffline(c) PROVE TypeInv'
    <2>1. DbTypeOK'
      BY <1>7, QueryType DEF LoginReadOffline
    <2>2. JobInv'
      <3>1. CASE Goto(c, "login_ack")
        BY <3>1, <1>7, GotoType
        DEF LoginReadOffline, JobInv, JobFits, Steps, LoginSteps, ChatSteps,
            GroupSteps
      <3>2. CASE job' = [job EXCEPT ![c].at = "login_remove",
                                    ![c].batch = offlineMsg[job[c].id]]
        <4> DEFINE r == [job[c] EXCEPT !.at = "login_remove",
                                       !.batch = offlineMsg[job[c].id]]
        <4>1. job[c].id \in Users /\ offlineMsg[job[c].id] \in Rows
          BY <1>7 DEF LoginReadOffline, JobInv, JobFits, DbTypeOK
        <4>2. r \in Job
          BY <4>1 DEF JobInv, Job, Steps, LoginSteps
        <4>3. JobFits(r)
          BY <4>1 DEF JobInv, JobFits, Job, ChatSteps, GroupSteps
        <4>4. job' = [job EXCEPT ![c] = r]
          BY <3>2 DEF JobInv, Job
        <4> HIDE DEF r
        <4> QED BY <4>2, <4>3, <4>4, StartType
      <3> QED BY <3>1, <3>2, <1>7 DEF LoginReadOffline
    <2> QED BY <1>7, <2>1, <2>2 DEF LoginReadOffline
  <1>8. ASSUME NEW c \in Conns, LoginRemoveOffline(c) PROVE TypeInv'
    <2>1. DbTypeOK'
      BY <1>8, RemoveOfflineType DEF LoginRemoveOffline
    <2>2. JobInv'
      BY <1>8, GotoType
      DEF LoginRemoveOffline, JobInv, JobFits, Steps, LoginSteps, ChatSteps,
          GroupSteps
    <2> QED BY <1>8, <2>1, <2>2 DEF LoginRemoveOffline
  <1>9. ASSUME NEW c \in Conns, LoginAck(c) PROVE TypeInv'
    <2>1. ClientInv'
      BY <1>9 DEF LoginAck, ClientInv, Client, Modes, JobInv, JobFits, Open
    <2>2. SendInv'
      <3> DEFINE row == [m \in Msgs |-> sends[job[c].id][m] + job[c].batch[m]]
      <3>1. job[c].id \in Users /\ job[c].batch \in Rows /\ sends[job[c].id] \in Rows
        BY <1>9 DEF LoginAck, SendInv, JobInv, JobFits, Job
      <3>2. row \in Rows
        BY <3>1 DEF Rows
      <3>3. sends' = sends \/ sends' = [sends EXCEPT ![job[c].id] = row]
        BY <1>9 DEF LoginAck
      <3> HIDE DEF row
      <3> QED BY <1>9, <3>2, <3>3 DEF LoginAck, SendInv
    <2>3. JobInv'
      BY <1>9, ReturnType DEF LoginAck
    <2> QED BY <1>9, <2>1, <2>2, <2>3 DEF LoginAck
  <1>10. ASSUME NEW c \in Conns, LogoutErase(c) PROVE TypeInv'
    <2>1. MapInv'
      BY <1>10 DEF LogoutErase, MapInv
    <2>2. ClientInv'
      BY <1>10 DEF LogoutErase, ClientInv, Client, Modes, Commands
    <2>3. JobInv'
      <3>1. client[c].user \in Users
        BY <1>10 DEF LogoutErase, Commands, ClientInv
      <3> QED BY <1>10, <3>1, BeginType
              DEF LogoutErase, Steps, LogoutSteps, ChatSteps, GroupSteps
    <2> QED BY <1>10, <2>1, <2>2, <2>3 DEF LogoutErase
  <1>11. ASSUME NEW c \in Conns, LogoutUnsubscribe(c) PROVE TypeInv'
    <2>1. BusTypeOK'
      BY <1>11, WriteCmdType DEF LogoutUnsubscribe, unsubscribe, JobInv, JobFits
    <2>2. JobInv'
      BY <1>11, GotoType
      DEF LogoutUnsubscribe, JobInv, JobFits, Steps, LogoutSteps, ChatSteps,
          GroupSteps
    <2> QED BY <1>11, <2>1, <2>2 DEF LogoutUnsubscribe
  <1>12. ASSUME NEW c \in Conns, LogoutOffline(c) PROVE TypeInv'
    <2>1. DbTypeOK'
      BY <1>12, UpdateStateType DEF LogoutOffline, UserStates
    <2>2. JobInv'
      BY <1>12, ReturnType DEF LogoutOffline
    <2> QED BY <1>12, <2>1, <2>2 DEF LogoutOffline
  <1>13. ASSUME NEW c \in Conns, CloseErase(c) PROVE TypeInv'
    <2>1. ASSUME NEW u \in EntriesOf(c),
                 connMap' = [connMap EXCEPT ![ServerOf[c]][u] = NoConn],
                 client' = [client EXCEPT ![c].mode = "closing"],
                 job' = [job EXCEPT ![c] = [Idle EXCEPT !.at = "close_unsubscribe",
                                                        !.id = u]]
          PROVE  MapInv' /\ ClientInv' /\ JobInv'
      <3>1. u \in Users
        BY DEF EntriesOf
      <3>2. MapInv'
        BY <1>13, <2>1, <3>1 DEF MapInv, CloseErase
      <3>3. ClientInv'
        BY <2>1 DEF ClientInv, Client, Modes
      <3>4. JobInv'
        BY <2>1, <3>1, BeginType DEF Steps, CloseSteps, ChatSteps, GroupSteps
      <3> QED BY <3>2, <3>3, <3>4
    <2>2. ASSUME client' = [client EXCEPT ![c] = NoClient], UNCHANGED <<connMap,
                 job>>
          PROVE  MapInv' /\ ClientInv' /\ JobInv'
      <3>1. MapInv'
        BY <1>13, <2>2 DEF MapInv, CloseErase
      <3>2. ClientInv'
        BY <2>2 DEF ClientInv, Client, Modes, NoClient
      <3> QED BY <2>2, <3>1, <3>2
    <2> QED BY <1>13, <2>1, <2>2 DEF CloseErase
  <1>14. ASSUME NEW c \in Conns, CloseUnsubscribe(c) PROVE TypeInv'
    <2>1. BusTypeOK'
      BY <1>14, WriteCmdType DEF CloseUnsubscribe, unsubscribe, JobInv, JobFits
    <2>2. JobInv'
      BY <1>14, GotoType
      DEF CloseUnsubscribe, JobInv, JobFits, Steps, CloseSteps, ChatSteps,
          GroupSteps
    <2> QED BY <1>14, <2>1, <2>2 DEF CloseUnsubscribe
  <1>15. ASSUME NEW c \in Conns, CloseOffline(c) PROVE TypeInv'
    <2>1. DbTypeOK'
      BY <1>15, UpdateStateType DEF CloseOffline, UserStates
    <2>2. ClientInv'
      BY <1>15 DEF CloseOffline, ClientInv, Client, Modes, NoClient
    <2>3. JobInv'
      BY <1>15, ReturnType DEF CloseOffline
    <2> QED BY <1>15, <2>1, <2>2, <2>3 DEF CloseOffline
  <1>16. ASSUME NEW c \in Conns, NEW m \in Msgs, NEW d \in Users, ChatFind(c, m,
                d)
         PROVE  TypeInv'
    <2>1. MapInv'
      BY <1>16 DEF ChatFind, MapInv, Acquire
    <2>2. SendInv'
      BY <1>16 DEF ChatFind, SendInv
    <2>3. JobInv'
      <3>1. CASE connMap[ServerOf[c]][d] # NoConn
        <4> DEFINE r == [Idle EXCEPT !.at = "chat_send", !.id = d, !.msg = m,
                                     !.tgt = connMap[ServerOf[c]][d]]
        <4>1. connMap[ServerOf[c]][d] \in Conns
          BY <3>1 DEF MapInv
        <4>2. r \in Job /\ JobFits(r)
          BY <4>1, IdleType DEF Idle, Job, JobFits, Steps, ChatSteps
        <4>3. job' = [job EXCEPT ![c] = r]
          BY <3>1, <1>16 DEF ChatFind
        <4> HIDE DEF r
        <4> QED BY <4>2, <4>3, StartType
      <3>2. CASE connMap[ServerOf[c]][d] = NoConn
        <4> DEFINE r == [Idle EXCEPT !.at = "chat_query", !.id = d, !.msg = m]
        <4>1. r \in Job /\ JobFits(r)
          BY IdleType DEF Idle, Job, JobFits, Steps, ChatSteps
        <4>2. job' = [job EXCEPT ![c] = r]
          BY <3>2, <1>16 DEF ChatFind
        <4> HIDE DEF r
        <4> QED BY <4>1, <4>2, StartType
      <3> QED BY <3>1, <3>2
    <2> QED BY <1>16, <2>1, <2>2, <2>3 DEF ChatFind
  <1>17. ASSUME NEW c \in Conns, ChatSend(c) PROVE TypeInv'
    <2>1. SendInv'
      BY <1>17, SendType DEF ChatSend, JobInv, JobFits, ChatSteps, GroupSteps
    <2>2. MapInv'
      BY <1>17 DEF ChatSend, MapInv, Release
    <2>3. JobInv'
      BY <1>17, ReturnType DEF ChatSend
    <2> QED BY <1>17, <2>1, <2>2, <2>3 DEF ChatSend
  <1>18. ASSUME NEW c \in Conns, ChatQuery(c) PROVE TypeInv'
    <2>1. DbTypeOK' /\ JobInv'
      BY <1>18, RouteType DEF ChatQuery, JobInv, JobFits, Steps, ChatSteps
    <2> QED BY <1>18, <2>1 DEF ChatQuery
  <1>19. ASSUME NEW c \in Conns, ChatPublish(c) PROVE TypeInv'
    <2>1. BusTypeOK'
      BY <1>19, PublishType DEF ChatPublish, JobInv, JobFits, ChatSteps
    <2>2. JobInv'
      BY <1>19, ReturnType DEF ChatPublish
    <2> QED BY <1>19, <2>1, <2>2 DEF ChatPublish
  <1>20. ASSUME NEW c \in Conns, ChatStore(c) PROVE TypeInv'
    <2>1. DbTypeOK'
      BY <1>20, InsertOfflineType DEF ChatStore, JobInv, JobFits, ChatSteps
    <2>2. JobInv'
      BY <1>20, ReturnType DEF ChatStore
    <2> QED BY <1>20, <2>1, <2>2 DEF ChatStore
  <1>21. ASSUME NEW c \in Conns, NEW g \in Groups, AddGroup(c, g) PROVE TypeInv'
    <2>1. DbTypeOK'
      BY <1>21, AddGroupRowType DEF AddGroup, Commands, ClientInv
    <2> QED BY <1>21, <2>1 DEF AddGroup
  <1>22. ASSUME NEW c \in Conns, NEW m \in Msgs, NEW g \in Groups, GroupQuery(c,
                m, g)
         PROVE  TypeInv'
    <2>1. DbTypeOK'
      BY <1>22, QueryType DEF GroupQuery
    <2>2. SendInv'
      BY <1>22 DEF GroupQuery, SendInv
    <2>3. JobInv'
      <3>1. PICK members \in SUBSET Users :
              job' = [job EXCEPT ![c] = [Idle EXCEPT !.at = "group_lock", !.msg = m,
                                                     !.todo = members]]
        BY <1>22 DEF GroupQuery, DbTypeOK
      <3>2. [Idle EXCEPT !.at = "group_lock", !.msg = m, !.todo = members] \in Job
        BY IdleType DEF Job, Steps, GroupSteps
      <3>3. JobFits([Idle EXCEPT !.at = "group_lock", !.msg = m, !.todo = members])
        BY DEF Idle, JobFits
      <3> QED BY <3>1, <3>2, <3>3, StartType
    <2> QED BY <1>22, <2>1, <2>2, <2>3 DEF GroupQuery
  <1>23. ASSUME NEW c \in Conns, GroupLock(c) PROVE TypeInv'
    <2>1. MapInv'
      BY <1>23 DEF GroupLock, MapInv, Acquire
    <2>2. JobInv'
      BY <1>23, GotoType
      DEF GroupLock, JobInv, JobFits, Steps, GroupSteps, ChatSteps
    <2> QED BY <1>23, <2>1, <2>2 DEF GroupLock
  <1>24. ASSUME NEW c \in Conns, GroupDone(c) PROVE TypeInv'
    <2>1. MapInv'
      BY <1>24 DEF GroupDone, MapInv, Release
    <2>2. JobInv'
      BY <1>24, ReturnType DEF GroupDone
    <2> QED BY <1>24, <2>1, <2>2 DEF GroupDone
  <1>25. ASSUME NEW c \in Conns, NEW u \in Users, GroupSend(c, u) PROVE TypeInv'
    <2>1. SendInv'
      BY <1>25, SendType DEF GroupSend, JobInv, JobFits, ChatSteps, GroupSteps
    <2>2. MapInv'
      BY <1>25 DEF GroupSend, MapInv, Release
    <2>3. JobInv'
      BY <1>25, ReturnType DEF GroupSend
    <2> QED BY <1>25, <2>1, <2>2, <2>3 DEF GroupSend
  <1>26. ASSUME NEW c \in Conns, NEW u \in Users, GroupRoute(c, u)
         PROVE  TypeInv'
    <2>1. DbTypeOK' /\ JobInv'
      BY <1>26, RouteType DEF GroupRoute, JobInv, JobFits, Steps, GroupSteps
    <2> QED BY <1>26, <2>1 DEF GroupRoute
  <1>27. ASSUME NEW c \in Conns, GroupPublish(c) PROVE TypeInv'
    <2>1. BusTypeOK'
      BY <1>27, PublishType DEF GroupPublish, JobInv, JobFits, GroupSteps
    <2>2. JobInv'
      BY <1>27, GotoType
      DEF GroupPublish, JobInv, JobFits, Steps, GroupSteps, ChatSteps
    <2> QED BY <1>27, <2>1, <2>2 DEF GroupPublish
  <1>28. ASSUME NEW c \in Conns, GroupStore(c) PROVE TypeInv'
    <2>1. DbTypeOK'
      BY <1>28, InsertOfflineType DEF GroupStore, JobInv, JobFits, GroupSteps
    <2>2. JobInv'
      BY <1>28, GotoType
      DEF GroupStore, JobInv, JobFits, Steps, GroupSteps, ChatSteps
    <2> QED BY <1>28, <2>1, <2>2 DEF GroupStore
  <1>29. ASSUME NEW s \in Servers, Serve(s) PROVE TypeInv'
    <2>1. BusTypeOK'
      BY <1>29, RedisServeType DEF Serve
    <2> QED BY <1>29, <2>1 DEF Serve
  <1>30. ASSUME NEW s \in Servers, ObserverFind(s) PROVE TypeInv'
    <2>1. BusTypeOK'
      <3>1. inbox[s] \in Seq(Push) /\ inbox[s] # <<>>
        BY <1>30 DEF ObserverFind, CanNotify, BusTypeOK
      <3>2. Tail(inbox[s]) \in Seq(Push)
        BY <3>1
      <3> QED BY <1>30, <3>2 DEF ObserverFind, BusTypeOK
    <2>2. MapInv'
      BY <1>30 DEF ObserverFind, MapInv, Acquire
    <2>3. ObserverInv'
      <3>1. inbox[s] \in Seq(Push) /\ inbox[s] # <<>>
        BY <1>30 DEF ObserverFind, CanNotify, BusTypeOK
      <3>2. Head(inbox[s]) \in Push
        BY <3>1
      <3>3. PICK u \in Users, m \in Msgs :
              Head(inbox[s]).chan = u /\ Head(inbox[s]).msg = m
        BY <3>2 DEF Push
      <3>4. connMap[s][u] \in Conns \cup {NoConn}
        BY DEF MapInv
      <3>5. observer' = [observer EXCEPT
              ![s] = [at |-> IF connMap[s][u] # NoConn THEN "send" ELSE "store",
                      chan |-> u, msg |-> m, tgt |-> connMap[s][u]]]
        BY <1>30, <3>3 DEF ObserverFind
      <3> QED BY <3>4, <3>5 DEF ObserverInv, Observer, ObserverFits
    <2> QED BY <1>30, <2>1, <2>2, <2>3 DEF ObserverFind
  <1>31. ASSUME NEW s \in Servers, ObserverSend(s) PROVE TypeInv'
    <2>1. SendInv'
      BY <1>31, SendType DEF ObserverSend, ObserverInv, ObserverFits
    <2>2. MapInv'
      BY <1>31 DEF ObserverSend, MapInv, Release
    <2>3. ObserverInv'
      BY <1>31, AsleepType DEF ObserverSend, ObserverInv
    <2> QED BY <1>31, <2>1, <2>2, <2>3 DEF ObserverSend
  <1>32. ASSUME NEW s \in Servers, ObserverStore(s) PROVE TypeInv'
    <2>1. DbTypeOK'
      BY <1>32, InsertOfflineType DEF ObserverStore, ObserverInv, ObserverFits
    <2>2. MapInv'
      BY <1>32 DEF ObserverStore, MapInv, Release
    <2>3. ObserverInv'
      BY <1>32, AsleepType DEF ObserverStore, ObserverInv
    <2> QED BY <1>32, <2>1, <2>2, <2>3 DEF ObserverStore
  <1>33. ASSUME NEW s \in Servers, Quits(s) PROVE TypeInv'
    <2>1. BusTypeOK'
      <3>1. /\ linked' \in [Servers -> BOOLEAN]
            /\ busFaults' \in 0 .. MaxBusFaults
        BY <1>33, BusAssumption DEF Quits, ObserverQuits, BusFail, BusTypeOK
      <3> QED BY <1>33, <3>1, UnlinkType DEF Quits, ObserverQuits
    <2> QED BY <1>33, <2>1 DEF Quits
  <1>34. ASSUME NEW s \in Servers, SigInt(s) PROVE TypeInv'
    <2>1. DbTypeOK'
      BY <1>34, ResetStateType DEF SigInt
    <2>2. ProcInv'
      BY <1>34, UsageAssumption DEF SigInt, ProcInv
    <2>3. MapInv'
      BY <1>34 DEF SigInt, MapInv, mapVars
    <2> QED BY <1>34, <2>1, <2>2, <2>3 DEF SigInt
  <1>35. ASSUME NEW s \in Servers, ProcessExit(s) PROVE TypeInv'
    <2>1. VanishInv'
      BY <1>35, VanishType DEF ProcessExit
    <2>2. ProcInv'
      BY <1>35, UsageAssumption DEF ProcessExit, Vanish, ProcInv
    <2> QED BY <1>35, <2>1, <2>2 DEF ProcessExit, Vanish, VanishInv
  <1>36. ASSUME NEW s \in Servers, Crash(s) PROVE TypeInv'
    <2>1. VanishInv'
      BY <1>36, VanishType DEF Crash
    <2>2. ProcInv'
      BY <1>36, UsageAssumption DEF Crash, Vanish, ProcInv
    <2> QED BY <1>36, <2>1, <2>2 DEF Crash, Vanish, VanishInv
  <1>37. ASSUME NEW s \in Servers, Restart(s) PROVE TypeInv'
    <2>1. BusTypeOK'
      BY <1>37 DEF Restart, BusTypeOK
    <2>2. ProcInv'
      BY <1>37 DEF Restart, ProcInv
    <2> QED BY <1>37, <2>1, <2>2 DEF Restart
  <1>38. CASE UNCHANGED vars
    BY <1>38 DEF vars
  <1> QED
    BY <1>1, <1>2, <1>3, <1>4, <1>5, <1>6, <1>7, <1>8, <1>9, <1>10, <1>11,
       <1>12, <1>13, <1>14, <1>15, <1>16, <1>17, <1>18, <1>19, <1>20, <1>21,
       <1>22, <1>23, <1>24, <1>25, <1>26, <1>27, <1>28, <1>29, <1>30, <1>31,
       <1>32, <1>33, <1>34, <1>35, <1>36, <1>37, <1>38
    DEF Next, Handler, ClientCommand, ObserverLoop, Process

\* The initial state: nobody online, no connection, no handler.
LEMMA InitType == Init => TypeInv
  <1> SUFFICES ASSUME Init PROVE TypeInv
    OBVIOUS
  <1>1. DbTypeOK
    BY NoRowsType, MaxDbFaultsAssumption DEF Init, DbInit, DbTypeOK, UserStates
  <1>2. BusTypeOK
    BY BusAssumption DEF Init, BusInit, BusTypeOK
  <1>3. ProcInv /\ MapInv /\ SendInv
    BY NoRowsType, UsageAssumption DEF Init, ProcInv, MapInv, SendInv
  <1>4. ClientInv
    BY DEF Init, ClientInv, NoClient, Client, Modes
  <1>5. JobInv
    BY IdleType DEF Init, JobInv, JobFits, Idle, ChatSteps, GroupSteps
  <1>6. ObserverInv
    BY AsleepType DEF Init, ObserverInv
  <1> QED BY <1>1, <1>2, <1>3, <1>4, <1>5, <1>6 DEF TypeInv

\* TypeInv holds in every reachable state.
LEMMA TypeInvariant == Spec => []TypeInv
  BY InitType, TypeStep, PTL DEF Spec

\* In every reachable state, whatever the number of servers, connections,
\* users, groups and texts, and whatever fails, every variable of the chat core
\* has its type: in particular a User.state is "online" or "offline", and a
\* handler never uses a user, text or connection it has not got.
THEOREM TypeCorrect == Spec => []TypeOK
  <1>1. TypeInv => TypeOK
    BY DEF TypeInv, TypeOK, ChatTypeOK, ProcInv, MapInv, ClientInv, JobInv,
           ObserverInv, SendInv
  <1> QED BY <1>1, TypeInvariant, PTL
==============================================================================
