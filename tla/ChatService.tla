----------------------------- MODULE ChatService -----------------------------
(***************************************************************************)
(* The session and chat core of the cluster: class ChatService of every    *)
(* server process, with the database and Redis it calls.                   *)
(*                                                                         *)
(* Concurrency.  muduo runs the callbacks of one connection one after the  *)
(* other on the IO loop the connection was assigned to; callbacks of       *)
(* connections on different loops, the Redis observer thread and the other *)
(* processes interleave freely.  A handler is therefore a sequence of      *)
(* atomic steps (job[c].at names the next one), one for each database call,*)
(* each Redis call and each critical section of _connMutex.                *)
(***************************************************************************)
EXTENDS MySqlStore, RedisBus

CONSTANTS
    SerialLogins,   \* clients never log one user in twice at the same time
    SingleLogout,   \* clients send nothing after their first loginout
    MaxCrashes,     \* bound: server processes killed without a handler
    MaxSigints      \* bound: server processes stopped with ctrl+c

ASSUME UsageAssumption ==
    /\ SerialLogins \in BOOLEAN
    /\ SingleLogout \in BOOLEAN
    /\ MaxCrashes \in Nat
    /\ MaxSigints \in Nat

VARIABLES
    proc,       \* proc[s]: the process is "up", "exiting" (in exit()) or "down"
    connMap,    \* connMap[s]: _userConnMap, NoConn where it has no entry
    connMutex,  \* connMutex[s]: the holder of _connMutex, NoConn when free
    client,     \* client[c]: what is at the other end of the connection
    job,        \* job[c]: the handler running for c
    observer,   \* observer[s]: handleRedisSubscribeMsg on the observer thread
    posted,     \* the texts already sent by some chat command
    sends,      \* sends[u][m]: copies of m handed to u's live connection
    crashes,
    sigints

procVars == <<proc, crashes, sigints>>
mapVars == <<connMap, connMutex>>
chatVars == <<posted, sends>>
vars == <<dbVars, busVars, procVars, mapVars, client, job, observer, chatVars>>
-------------------------------------------------------------------------------
LoginSteps == {"login_insert", "login_subscribe", "login_online",
               "login_read", "login_remove", "login_ack"}
LogoutSteps == {"logout_unsubscribe", "logout_offline"}
CloseSteps == {"close_unsubscribe", "close_offline"}
ChatSteps == {"chat_send", "chat_query", "chat_publish", "chat_store"}
GroupSteps == {"group_lock", "group_next", "group_publish", "group_store"}

\* The steps before which the handler holds _connMutex.
LockedSteps == {"chat_send", "group_next", "group_publish", "group_store"}

\* A client is "fresh" until a login succeeds, in the main menu after it, has
\* "left" after loginout; "gone": it closed the socket, the server has not
\* handled that yet; "closing": clientCloseException is past its erase.
Modes == {"down", "fresh", "menu", "left", "gone", "closing"}

Client == [mode : Modes, user : Users \cup {NoUser}]

Steps == {"idle"} \cup LoginSteps \cup LogoutSteps \cup CloseSteps
                  \cup ChatSteps \cup GroupSteps

Job == [at : Steps,
        id : Users \cup {NoUser},       \* the user the step is about
        msg : Msgs \cup {NoMsg},        \* the text of a chat
        tgt : Conns \cup {NoConn},      \* it->second, found under _connMutex
        todo : SUBSET Users,            \* the members groupChat still visits
        batch : Rows]                   \* the offline messages login has read

Observer == [at : {"idle", "send", "store"},
             chan : Users \cup {NoUser},
             msg : Msgs \cup {NoMsg},
             tgt : Conns \cup {NoConn}]

NoClient == [mode |-> "down", user |-> NoUser]

Idle == [at |-> "idle", id |-> NoUser, msg |-> NoMsg, tgt |-> NoConn,
         todo |-> {}, batch |-> NoRows]

Asleep == [at |-> "idle", chan |-> NoUser, msg |-> NoMsg, tgt |-> NoConn]

ChatTypeOK ==
    /\ proc \in [Servers -> {"up", "exiting", "down"}]
    /\ connMap \in [Servers -> [Users -> Conns \cup {NoConn}]]
    /\ connMutex \in [Servers -> Conns \cup {NoConn, ObserverThread}]
    /\ client \in [Conns -> Client]
    /\ job \in [Conns -> Job]
    /\ observer \in [Servers -> Observer]
    /\ posted \subseteq Msgs
    /\ sends \in [Users -> Rows]
    /\ crashes \in 0 .. MaxCrashes
    /\ sigints \in 0 .. MaxSigints

\* Every variable has its type: the states, fields and queues of the code.
TypeOK == DbTypeOK /\ BusTypeOK /\ ChatTypeOK

Init ==
    /\ DbInit
    /\ BusInit
    /\ proc = [s \in Servers |-> "up"]
    /\ connMap = [s \in Servers |-> [u \in Users |-> NoConn]]
    /\ connMutex = [s \in Servers |-> NoConn]
    /\ client = [c \in Conns |-> NoClient]
    /\ job = [c \in Conns |-> Idle]
    /\ observer = [s \in Servers |-> Asleep]
    /\ posted = {}
    /\ sends = [u \in Users |-> NoRows]
    /\ crashes = 0
    /\ sigints = 0
-------------------------------------------------------------------------------
Free(s) == connMutex[s] = NoConn

Open(c) == client[c].mode \in {"fresh", "menu", "left"}

\* The client of c, logged in, types a command (after loginout it is still in
\* its main menu) and no other callback of c is running.
Commands(c) ==
    /\ job[c].at = "idle"
    /\ client[c].mode = "menu" \/ (client[c].mode = "left" /\ ~SingleLogout)

Goto(c, at) == job' = [job EXCEPT ![c].at = at]

Return(c) == job' = [job EXCEPT ![c] = Idle]

\* Mutant: the critical section ends where it began.
FreeNow(s, holder) == Free(s) /\ UNCHANGED connMutex

Acquire(s, holder) ==
    /\ Free(s)
    /\ connMutex' = [connMutex EXCEPT ![s] = holder]

\* Mutant: a lock() whose unlock() a return path leaves out.
KeepLock(s) == UNCHANGED connMutex

Release(s) == connMutex' = [connMutex EXCEPT ![s] = NoConn]

\* Mutant: the state is compared with a text it never is.
NeverOnline(u) == FALSE

IsOnline(u) == userState[u] = "online"

\* conn->send: the bytes of a connection whose peer has closed it are dropped.
Send(u, c, m) ==
    sends' = IF Open(c) THEN [sends EXCEPT ![u][m] = @ + 1] ELSE sends

\* nginx opens a connection to the server process.
Connect(c) ==
    /\ proc[ServerOf[c]] = "up"
    /\ client[c].mode = "down"
    /\ client' = [client EXCEPT ![c].mode = "fresh"]
    /\ UNCHANGED <<dbVars, busVars, procVars, mapVars, job, observer, chatVars>>

\* The client closes its socket or dies, whatever the server is doing for it.
Hangup(c) ==
    /\ Open(c)
    /\ client' = [client EXCEPT ![c].mode = "gone"]
    /\ UNCHANGED <<dbVars, busVars, procVars, mapVars, job, observer, chatVars>>
-------------------------------------------------------------------------------
(* login *)

\* A login of u has read "offline" and not yet written "online".
LoggingIn(u) ==
    \E d \in Conns :
        /\ job[d].id = u
        /\ job[d].at \in {"login_insert", "login_subscribe", "login_online"}

\* Mutant: the state of the user is not looked at.
AlwaysAllowed(u) == TRUE

LoginAllowed(u) == ~IsOnline(u)

\* The query and its check; a refusal (wrong password, user online, or the
\* query failed and returned User()) only answers an errno.
LoginQuery(c, u) ==
    /\ job[c].at = "idle"
    /\ client[c].mode = "fresh"
    /\ SerialLogins => ~LoggingIn(u)
    /\ \/ /\ LoginAllowed(u)
          /\ job' = [job EXCEPT ![c] = [Idle EXCEPT !.at = "login_insert",
                                                    !.id = u]]
          /\ DbOk
       \/ UNCHANGED job /\ (DbOk \/ DbFail)
    /\ UNCHANGED <<userState, offlineMsg, groupUser, busVars, procVars, mapVars,
                   client, observer, chatVars>>

\* unordered_map::insert keeps the entry that is already there.
LoginInsert(c) ==
    LET s == ServerOf[c]
        u == job[c].id
    IN  /\ job[c].at = "login_insert"
        /\ Free(s)
        /\ connMap' = IF connMap[s][u] = NoConn
                      THEN [connMap EXCEPT ![s][u] = c]
                      ELSE connMap
        /\ Goto(c, "login_subscribe")
        /\ UNCHANGED <<dbVars, busVars, procVars, connMutex, client, observer,
                       chatVars>>

LoginSubscribe(c) ==
    /\ job[c].at = "login_subscribe"
    /\ subscribe(ServerOf[c], job[c].id)
    /\ Goto(c, "login_online")
    /\ UNCHANGED <<dbVars, procVars, mapVars, client, observer, chatVars>>

\* Mutant: updateState without setState("online") before it.
LoginOnlineUnset(c) ==
    /\ job[c].at = "login_online"
    /\ updateState(job[c].id, "offline")
    /\ Goto(c, "login_read")
    /\ UNCHANGED <<busVars, procVars, mapVars, client, observer, chatVars>>

LoginOnline(c) ==
    /\ job[c].at = "login_online"
    /\ updateState(job[c].id, "online")
    /\ Goto(c, "login_read")
    /\ UNCHANGED <<busVars, procVars, mapVars, client, observer, chatVars>>

LoginReadOffline(c) ==
    /\ job[c].at = "login_read"
    /\ \/ /\ offlineMsg[job[c].id] # NoRows
          /\ job' = [job EXCEPT ![c].at = "login_remove",
                                ![c].batch = offlineMsg[job[c].id]]
          /\ DbOk
       \/ /\ Goto(c, "login_ack")
          /\ \/ offlineMsg[job[c].id] = NoRows /\ DbOk
             \/ DbFail
    /\ UNCHANGED <<userState, offlineMsg, groupUser, busVars, procVars, mapVars,
                   client, observer, chatVars>>

\* Mutant: the rows that were read are not deleted.
LoginKeepOffline(c) ==
    /\ job[c].at = "login_remove"
    /\ Goto(c, "login_ack")
    /\ UNCHANGED <<dbVars, busVars, procVars, mapVars, client, observer, chatVars>>

LoginRemoveOffline(c) ==
    /\ job[c].at = "login_remove"
    /\ removeOffline(job[c].id)
    /\ Goto(c, "login_ack")
    /\ UNCHANGED <<busVars, procVars, mapVars, client, observer, chatVars>>

\* The answer with errno 0 carries the offline messages that were read.
LoginAck(c) ==
    LET u == job[c].id
    IN  /\ job[c].at = "login_ack"
        /\ sends' = IF Open(c)
                    THEN [sends EXCEPT ![u] =
                            [m \in Msgs |-> sends[u][m] + job[c].batch[m]]]
                    ELSE sends
        /\ client' = [client EXCEPT
                        ![c] = [mode |-> IF Open(c) THEN "menu" ELSE @.mode,
                                user |-> u]]
        /\ Return(c)
        /\ UNCHANGED <<dbVars, busVars, procVars, mapVars, observer, posted>>
-------------------------------------------------------------------------------
(* loginOut *)

\* The entry of the user id in the request goes, whichever connection it holds.
LogoutErase(c) ==
    LET u == client[c].user
    IN  /\ Commands(c)
        /\ Free(ServerOf[c])
        /\ connMap' = [connMap EXCEPT ![ServerOf[c]][u] = NoConn]
        /\ client' = [client EXCEPT ![c].mode = "left"]
        /\ job' = [job EXCEPT ![c] = [Idle EXCEPT !.at = "logout_unsubscribe",
                                                  !.id = u]]
        /\ UNCHANGED <<dbVars, busVars, procVars, connMutex, observer, chatVars>>

\* Mutant: the channel is not unsubscribed.
LogoutKeepChannel(c) ==
    /\ job[c].at = "logout_unsubscribe"
    /\ Goto(c, "logout_offline")
    /\ UNCHANGED <<dbVars, busVars, procVars, mapVars, client, observer, chatVars>>

LogoutUnsubscribe(c) ==
    /\ job[c].at = "logout_unsubscribe"
    /\ unsubscribe(ServerOf[c], job[c].id)
    /\ Goto(c, "logout_offline")
    /\ UNCHANGED <<dbVars, procVars, mapVars, client, observer, chatVars>>

\* Mutant: a state the other handlers do not know.
LogoutMisspelt(c) ==
    /\ job[c].at = "logout_offline"
    /\ updateState(job[c].id, "Offline")
    /\ Return(c)
    /\ UNCHANGED <<busVars, procVars, mapVars, client, observer, chatVars>>

LogoutOffline(c) ==
    /\ job[c].at = "logout_offline"
    /\ updateState(job[c].id, "offline")
    /\ Return(c)
    /\ UNCHANGED <<busVars, procVars, mapVars, client, observer, chatVars>>
-------------------------------------------------------------------------------
(* clientCloseException *)

\* Mutant: it->second is not compared with the connection.
AnyEntry(c) == {u \in Users : connMap[ServerOf[c]][u] # NoConn}

\* Mutant: the comparison never finds the connection.
NoEntry(c) == {}

EntriesOf(c) == {u \in Users : connMap[ServerOf[c]][u] = c}

\* The first entry that holds the connection goes.  Without one the user keeps
\* id -1: UNSUBSCRIBE -1 changes nothing and no state is written.
CloseErase(c) ==
    LET s == ServerOf[c]
    IN  /\ job[c].at = "idle"
        /\ client[c].mode = "gone"
        /\ Free(s)
        /\ \/ \E u \in EntriesOf(c) :
                /\ connMap' = [connMap EXCEPT ![s][u] = NoConn]
                /\ client' = [client EXCEPT ![c].mode = "closing"]
                /\ job' = [job EXCEPT
                             ![c] = [Idle EXCEPT !.at = "close_unsubscribe",
                                                 !.id = u]]
           \/ /\ EntriesOf(c) = {}
              /\ client' = [client EXCEPT ![c] = NoClient]
              /\ UNCHANGED <<connMap, job>>
        /\ UNCHANGED <<dbVars, busVars, procVars, connMutex, observer, chatVars>>

CloseUnsubscribe(c) ==
    /\ job[c].at = "close_unsubscribe"
    /\ unsubscribe(ServerOf[c], job[c].id)
    /\ Goto(c, "close_offline")
    /\ UNCHANGED <<dbVars, procVars, mapVars, client, observer, chatVars>>

\* Mutant: the state is not updated.
CloseKeepState(c) ==
    /\ job[c].at = "close_offline"
    /\ client' = [client EXCEPT ![c] = NoClient]
    /\ Return(c)
    /\ UNCHANGED <<dbVars, busVars, procVars, mapVars, observer, chatVars>>

CloseOffline(c) ==
    /\ job[c].at = "close_offline"
    /\ updateState(job[c].id, "offline")
    /\ client' = [client EXCEPT ![c] = NoClient]
    /\ Return(c)
    /\ UNCHANGED <<busVars, procVars, mapVars, observer, chatVars>>
-------------------------------------------------------------------------------
(* oneChat *)

\* The map is searched under _connMutex, which a hit keeps until the send.
ChatFind(c, m, d) ==
    LET s == ServerOf[c]
    IN  /\ Commands(c)
        /\ m \notin posted
        /\ Free(s)
        /\ posted' = posted \cup {m}
        /\ \/ /\ connMap[s][d] # NoConn
              /\ Acquire(s, c)
              /\ job' = [job EXCEPT
                           ![c] = [Idle EXCEPT !.at = "chat_send", !.id = d,
                                               !.msg = m, !.tgt = connMap[s][d]]]
           \/ /\ connMap[s][d] = NoConn
              /\ job' = [job EXCEPT
                           ![c] = [Idle EXCEPT !.at = "chat_query", !.id = d,
                                               !.msg = m]]
              /\ UNCHANGED connMutex
        /\ UNCHANGED <<dbVars, busVars, procVars, connMap, client, observer,
                       sends>>

ChatSend(c) ==
    /\ job[c].at = "chat_send"
    /\ Send(job[c].id, job[c].tgt, job[c].msg)
    /\ Release(ServerOf[c])
    /\ Return(c)
    /\ UNCHANGED <<dbVars, busVars, procVars, connMap, client, observer, posted>>

\* Where a message for u goes, by the state a query returns: a query that
\* fails returns User(), which is offline.
Route(c, u, online, offline) ==
    /\ \/ /\ IsOnline(u) /\ DbOk
          /\ job' = [job EXCEPT ![c].at = online, ![c].id = u,
                                ![c].todo = @ \ {u}]
       \/ /\ (~IsOnline(u) /\ DbOk) \/ DbFail
          /\ job' = [job EXCEPT ![c].at = offline, ![c].id = u,
                                ![c].todo = @ \ {u}]
    /\ UNCHANGED <<userState, offlineMsg, groupUser>>

ChatQuery(c) ==
    /\ job[c].at = "chat_query"
    /\ Route(c, job[c].id, "chat_publish", "chat_store")
    /\ UNCHANGED <<busVars, procVars, mapVars, client, observer, chatVars>>

ChatPublish(c) ==
    /\ job[c].at = "chat_publish"
    /\ publish(job[c].id, job[c].msg)
    /\ Return(c)
    /\ UNCHANGED <<dbVars, procVars, mapVars, client, observer, chatVars>>

ChatStore(c) ==
    /\ job[c].at = "chat_store"
    /\ insertOffline(job[c].id, job[c].msg)
    /\ Return(c)
    /\ UNCHANGED <<busVars, procVars, mapVars, client, observer, chatVars>>
-------------------------------------------------------------------------------
(* addGroup and groupChat *)

AddGroup(c, g) ==
    /\ Commands(c)
    /\ addGroupRow(client[c].user, g)
    /\ UNCHANGED <<busVars, procVars, mapVars, client, job, observer, chatVars>>

\* The members but the sender; none when the query fails.
GroupQuery(c, m, g) ==
    /\ Commands(c)
    /\ m \notin posted
    /\ posted' = posted \cup {m}
    /\ \E members \in {groupUser[g] \ {client[c].user}, {}} :
         /\ \/ members = groupUser[g] \ {client[c].user} /\ DbOk
            \/ members = {} /\ DbFail
         /\ job' = [job EXCEPT ![c] = [Idle EXCEPT !.at = "group_lock", !.msg = m,
                                                   !.todo = members]]
    /\ UNCHANGED <<userState, offlineMsg, groupUser, busVars, procVars, mapVars,
                   client, observer, sends>>

\* lock_guard: held over every query, publish and insert of the loop.
GroupLock(c) ==
    /\ job[c].at = "group_lock"
    /\ Acquire(ServerOf[c], c)
    /\ Goto(c, "group_next")
    /\ UNCHANGED <<dbVars, busVars, procVars, connMap, client, observer, chatVars>>

GroupDone(c) ==
    /\ job[c].at = "group_next"
    /\ job[c].todo = {}
    /\ Release(ServerOf[c])
    /\ Return(c)
    /\ UNCHANGED <<dbVars, busVars, procVars, connMap, client, observer, chatVars>>

\* Mutant: the member is served by oneChat, which locks the mutex once more.
GroupSendRelock(c, u) ==
    /\ job[c].at = "group_next"
    /\ u \in job[c].todo
    /\ Free(ServerOf[c])
    /\ Send(u, connMap[ServerOf[c]][u], job[c].msg)
    /\ Return(c)
    /\ UNCHANGED <<dbVars, busVars, procVars, mapVars, client, observer, posted>>

\* A member on this server: send, and return, whoever is still to be visited.
GroupSend(c, u) ==
    LET s == ServerOf[c]
    IN  /\ job[c].at = "group_next"
        /\ u \in job[c].todo
        /\ connMap[s][u] # NoConn
        /\ Send(u, connMap[s][u], job[c].msg)
        /\ Release(s)
        /\ Return(c)
        /\ UNCHANGED <<dbVars, busVars, procVars, connMap, client, observer,
                       posted>>

GroupRoute(c, u) ==
    /\ job[c].at = "group_next"
    /\ u \in job[c].todo
    /\ connMap[ServerOf[c]][u] = NoConn
    /\ Route(c, u, "group_publish", "group_store")
    /\ UNCHANGED <<busVars, procVars, mapVars, client, observer, chatVars>>

GroupPublish(c) ==
    /\ job[c].at = "group_publish"
    /\ publish(job[c].id, job[c].msg)
    /\ Goto(c, "group_next")
    /\ UNCHANGED <<dbVars, procVars, mapVars, client, observer, chatVars>>

GroupStore(c) ==
    /\ job[c].at = "group_store"
    /\ insertOffline(job[c].id, job[c].msg)
    /\ Goto(c, "group_next")
    /\ UNCHANGED <<busVars, procVars, mapVars, client, observer, chatVars>>
-------------------------------------------------------------------------------
(* Redis and its observer thread: handleRedisSubscribeMsg *)

Serve(s) ==
    /\ RedisServe(s)
    /\ UNCHANGED <<dbVars, procVars, mapVars, client, job, observer, chatVars>>

\* Mutant: a push for a user who is not here stays where it is.
UserIsHere(s) == inbox[s] # <<>> /\ connMap[s][Head(inbox[s]).chan] # NoConn

CanNotify(s) == inbox[s] # <<>>

\* The next pushed message; the lock is held until it is sent or stored.
ObserverFind(s) ==
    /\ observer[s].at = "idle"
    /\ CanNotify(s)
    /\ Acquire(s, ObserverThread)
    /\ LET push == Head(inbox[s])
           it == connMap[s][push.chan]
       IN  observer' = [observer EXCEPT
                          ![s] = [at |-> IF it # NoConn THEN "send" ELSE "store",
                                  chan |-> push.chan, msg |-> push.msg,
                                  tgt |-> it]]
    /\ inbox' = [inbox EXCEPT ![s] = Tail(@)]
    /\ UNCHANGED <<dbVars, subCmds, subs, linked, busFaults, procVars, connMap,
                   client, job, chatVars>>

ObserverSend(s) ==
    /\ observer[s].at = "send"
    /\ Send(observer[s].chan, observer[s].tgt, observer[s].msg)
    /\ Release(s)
    /\ observer' = [observer EXCEPT ![s] = Asleep]
    /\ UNCHANGED <<dbVars, busVars, procVars, connMap, client, job, posted>>

ObserverStore(s) ==
    /\ observer[s].at = "store"
    /\ insertOffline(observer[s].chan, observer[s].msg)
    /\ Release(s)
    /\ observer' = [observer EXCEPT ![s] = Asleep]
    /\ UNCHANGED <<busVars, procVars, connMap, client, job, chatVars>>

Quits(s) ==
    /\ proc[s] # "down"
    /\ ObserverQuits(s)
    /\ UNCHANGED <<dbVars, procVars, mapVars, client, job, observer, chatVars>>
-------------------------------------------------------------------------------
(* The life of a server process *)

\* resetHandler runs on the main thread while the IO loops and the observer go
\* on; nothing is accepted any more.
SigInt(s) ==
    /\ proc[s] = "up"
    /\ sigints < MaxSigints
    /\ resetState
    /\ proc' = [proc EXCEPT ![s] = "exiting"]
    /\ sigints' = sigints + 1
    /\ UNCHANGED <<busVars, crashes, mapVars, client, job, observer, chatVars>>

\* Memory, connections and threads of the process are gone; MySQL is not told.
Vanish(s) ==
    /\ proc' = [proc EXCEPT ![s] = "down"]
    /\ Unlink(s)
    /\ linked' = [linked EXCEPT ![s] = FALSE]
    /\ connMap' = [connMap EXCEPT ![s] = [u \in Users |-> NoConn]]
    /\ connMutex' = [connMutex EXCEPT ![s] = NoConn]
    /\ client' = [c \in Conns |-> IF ServerOf[c] = s THEN NoClient ELSE client[c]]
    /\ job' = [c \in Conns |-> IF ServerOf[c] = s THEN Idle ELSE job[c]]
    /\ observer' = [observer EXCEPT ![s] = Asleep]
    /\ UNCHANGED <<dbVars, busFaults, chatVars>>

ProcessExit(s) ==
    /\ proc[s] = "exiting"
    /\ Vanish(s)
    /\ UNCHANGED <<crashes, sigints>>

Crash(s) ==
    /\ proc[s] # "down"
    /\ crashes < MaxCrashes
    /\ crashes' = crashes + 1
    /\ Vanish(s)
    /\ UNCHANGED sigints

\* main connects to Redis again and touches no table.
Restart(s) ==
    /\ proc[s] = "down"
    /\ proc' = [proc EXCEPT ![s] = "up"]
    /\ linked' = [linked EXCEPT ![s] = TRUE]
    /\ UNCHANGED <<dbVars, subCmds, subs, inbox, busFaults, crashes, sigints,
                   mapVars, client, job, observer, chatVars>>
-------------------------------------------------------------------------------
\* A handler of c goes on; these steps need nobody but the server, MySQL, Redis.
Handler(c) ==
    \/ LoginInsert(c) \/ LoginSubscribe(c) \/ LoginOnline(c)
    \/ LoginReadOffline(c) \/ LoginRemoveOffline(c) \/ LoginAck(c)
    \/ LogoutUnsubscribe(c) \/ LogoutOffline(c)
    \/ CloseErase(c) \/ CloseUnsubscribe(c) \/ CloseOffline(c)
    \/ ChatSend(c) \/ ChatQuery(c) \/ ChatPublish(c) \/ ChatStore(c)
    \/ GroupLock(c) \/ GroupDone(c)
    \/ \E u \in Users : GroupSend(c, u) \/ GroupRoute(c, u)
    \/ GroupPublish(c) \/ GroupStore(c)

\* What a client does, in its own time or never.
ClientCommand(c) ==
    \/ Connect(c) \/ Hangup(c)
    \/ \E u \in Users : LoginQuery(c, u)
    \/ LogoutErase(c)
    \/ \E m \in Msgs, d \in Users : ChatFind(c, m, d)
    \/ \E m \in Msgs, g \in Groups : GroupQuery(c, m, g)
    \/ \E g \in Groups : AddGroup(c, g)

ObserverLoop(s) == ObserverFind(s) \/ ObserverSend(s) \/ ObserverStore(s)

Process(s) == SigInt(s) \/ ProcessExit(s) \/ Crash(s) \/ Restart(s) \/ Quits(s)

Next ==
    \/ \E c \in Conns : Handler(c) \/ ClientCommand(c)
    \/ \E s \in Servers : Serve(s) \/ ObserverLoop(s) \/ Process(s)

Spec == Init /\ [][Next]_vars

\* The threads of a live process and Redis are never suspended for ever.  Weak
\* fairness is enough for a handler that waits for _connMutex: the holders are
\* chats, and each of the finitely many Msgs is sent once.  The fairness of the
\* commands to Redis is strong because MaxPending, which makes them wait, is a
\* bound of the model: redisAppendCommand never waits for another handler.
Fairness ==
    /\ \A c \in Conns :
         /\ WF_vars(Handler(c))
         /\ SF_vars(LoginSubscribe(c) \/ LogoutUnsubscribe(c) \/ CloseUnsubscribe(c))
    /\ \A s \in Servers : WF_vars(Serve(s)) /\ WF_vars(ObserverLoop(s))
                          /\ WF_vars(ProcessExit(s))

FairSpec == Spec /\ Fairness
-------------------------------------------------------------------------------
(* Properties *)

\* c is the connection that _userConnMap of its server keeps for u.
Registered(c, u) == connMap[ServerOf[c]][u] = c

LoggingOut(u) ==
    \E c \in Conns : job[c].id = u /\ job[c].at \in LogoutSteps \cup CloseSteps

\* _connMutex is held exactly by the handler, or the observer, that is inside
\* its critical section: no return path of oneChat, groupChat or
\* handleRedisSubscribeMsg leaves it locked, no two threads are inside.
MutexOwned ==
    /\ \A c \in Conns :
         /\ connMutex[ServerOf[c]] = c <=> job[c].at \in LockedSteps
         /\ \A s \in Servers : connMutex[s] = c => s = ServerOf[c]
    /\ \A s \in Servers :
         connMutex[s] = ObserverThread <=> observer[s].at # "idle"

\* _userConnMap never holds a connection whose close callback has run: each
\* entry a login inserted is erased by clientCloseException or loginOut.
NoDeadEntry ==
    \A s \in Servers, u \in Users :
      connMap[s][u] # NoConn =>
        /\ ServerOf[connMap[s][u]] = s
        /\ client[connMap[s][u]].mode \notin {"down", "closing"}

\* "The connection may be erased while it is being sent to": between the find
\* and the send of oneChat and handleRedisSubscribeMsg the entry stays in the
\* map, and its close callback does not get past the erase.
SendTargetOpen ==
    /\ \A c \in Conns :
         job[c].at = "chat_send" =>
           /\ connMap[ServerOf[c]][job[c].id] = job[c].tgt
           /\ client[job[c].tgt].mode \notin {"down", "closing"}
    /\ \A s \in Servers :
         observer[s].at = "send" =>
           /\ connMap[s][observer[s].chan] = observer[s].tgt
           /\ client[observer[s].tgt].mode \notin {"down", "closing"}

\* A user id is logged in at most once in the cluster: at most one connection
\* is in the main menu as u or registered for u, over all servers.
OneSessionPerUser ==
    \A u \in Users : \A c, d \in Conns :
      /\ (client[c].mode = "menu" /\ client[c].user = u) \/ Registered(c, u)
      /\ (client[d].mode = "menu" /\ client[d].user = u) \/ Registered(d, u)
      => c = d

\* Whoever was told errno 0 and has not logged out is reachable: registered on
\* the server of its connection, and "online" for the other servers.
SessionRegistered ==
    \A c \in Conns :
      client[c].mode = "menu" =>
        /\ Registered(c, client[c].user)
        /\ userState[client[c].user] = "online"

\* The map and the Redis subscriptions of a server agree once its login and
\* logout handlers are done and Redis has executed their commands.
SubscriptionFollowsSession ==
    \A s \in Servers, u \in Users :
      /\ linked[s]
      /\ subCmds[s] = <<>>
      /\ \A c \in Conns : ServerOf[c] = s => job[c].id # u
      => (u \in subs[s] <=> connMap[s][u] # NoConn)

\* While no process has died, an "online" user has a session, or a handler
\* about to write "offline": the refusal of a second login is never stale.
OnlineHasOwner ==
    crashes = 0 =>
      \A u \in Users :
        userState[u] = "online" =>
          LoggingOut(u) \/ \E c \in Conns : Registered(c, u)

\* A session is unregistered by nobody but itself: its own loginout, its own
\* close callback (never one that runs late for an older connection of the
\* same user), or the end of its process.
OnlyOwnerEndsSession ==
    [][\A s \in Servers, u \in Users :
         connMap[s][u] # NoConn /\ connMap'[s][u] # connMap[s][u] =>
           \/ client[connMap[s][u]].mode = "gone"
           \/ client'[connMap[s][u]].mode = "left"
           \/ proc'[s] = "down"]_vars

\* A user whose process was killed does not stay "online" for ever, so that
\* every later login is refused: once all processes are up again, the states
\* the dead one had written are reset.
NobodyStranded ==
    (\A s \in Servers : proc[s] = "up") =>
      \A u \in Users :
        userState[u] = "online" =>
          LoggingOut(u) \/ \E c \in Conns : Registered(c, u)

\* Every handler that has started ends, or its process dies: nothing waits for
\* ever on _connMutex, on a full Redis connection or on another handler.
HandlersFinish == \A c \in Conns : job[c].at # "idle" ~> job[c].at = "idle"

\* What Redis pushed to a process is handed to a connection or stored.
BusDrains == \A s \in Servers : inbox[s] # <<>> ~> inbox[s] = <<>>

\* When the client of a session disappears, its user becomes "offline" for the
\* other servers.  A crash or a database failure may prevent that, and so may
\* ctrl+c: a login that goes on after the reset writes "online" for nobody.
ClosedGoesOffline ==
    \A c \in Conns, u \in Users :
      client[c].mode = "gone" /\ Registered(c, u)
        ~> userState[u] = "offline" \/ crashes + dbFaults + sigints > 0
==============================================================================
