-------------------------- MODULE ChatSessionProofs --------------------------
(***************************************************************************)
(* One session per user, and the refinement of SessionSpec.                *)
(*                                                                         *)
(* The inductive invariant follows a user from the check of its state to   *)
(* the update that ends its session: the login that has passed the check,  *)
(* the connection in the map, and the handler that has erased it and has   *)
(* not yet written "offline", have a claim to the user (Claims), and no two*)
(* connections have one; StageInv says what the map and User.state are at  *)
(* each stage.  OneSessionPerUser alone is not inductive: nothing in it    *)
(* keeps two logins that have passed the check apart.                      *)
(***************************************************************************)
EXTENDS ChatSessions, ChatSafetyProofs

Asked == {"login_insert"}
Entered == {"login_subscribe", "login_online"}
Announced == {"login_read", "login_remove", "login_ack"}
Leaving == LogoutSteps \cup CloseSteps

\* The handler of c is at a step of the set, for u.
At(c, u, steps) == job[c].id = u /\ job[c].at \in steps

Claims(c, u) == Registered(c, u) \/ At(c, u, Asked) \/ At(c, u, Leaving)

StageOf(c, u) ==
    /\ At(c, u, Asked) => ~Registered(c, u) /\ userState[u] = "offline"
    /\ At(c, u, Entered) => Registered(c, u) /\ userState[u] = "offline"
    /\ At(c, u, Announced) => Registered(c, u)
    /\ At(c, u, Leaving) => ~Registered(c, u) /\ userState[u] = "online"
    /\ Registered(c, u) => userState[u] = "online" \/ At(c, u, Entered)
    /\ client[c].mode = "menu" /\ client[c].user = u => Registered(c, u)

StageInv == \A c \in Conns, u \in Users : StageOf(c, u)

ClaimInv ==
    \A u \in Users : \A c, d \in Conns : Claims(c, u) /\ Claims(d, u) => c = d

LifeInv == (\A s \in Servers : proc[s] # "exiting") /\ OnlineHasOwner

SingleInv == StageInv /\ ClaimInv /\ LifeInv

-----------------------------------------------------------------------------
(* The steps that matter to a session, seen apart from the rest of the state *)

SameStage(i, j) ==
    /\ i.at \in Asked <=> j.at \in Asked
    /\ i.at \in Entered <=> j.at \in Entered
    /\ i.at \in Announced <=> j.at \in Announced
    /\ i.at \in Leaving <=> j.at \in Leaving
    /\ i.at \in Asked \cup Entered \cup Announced \cup Leaving => j.id = i.id

NobodyExits == \A s \in Servers : proc'[s] # "exiting"

OthersStay(c) ==
    \A d \in Conns \ {c} : job'[d] = job[d] /\ client'[d] = client[d]

Starts(s) == proc[s] = "down" /\ proc' = [proc EXCEPT ![s] = "up"]

\* A connection is opened to a process that runs.
OpensLive(c) ==
    client[c].mode = "down" /\ client'[c].mode # "down" => proc[ServerOf[c]] = "up"

\* No session changes.
Calm ==
    /\ UNCHANGED <<connMap, userState, crashes>>
    /\ UNCHANGED proc \/ \E s \in Servers : Starts(s)
    /\ NobodyExits
    /\ \A c \in Conns :
         /\ SameStage(job[c], job'[c])
         /\ client'[c].mode = "menu" => client'[c] = client[c]
         /\ OpensLive(c)

\* The handler of c goes from one stage of u to the next.
Moves(c, u, from, to) ==
    /\ At(c, u, from)
    /\ job'[c].id = u /\ job'[c].at \in to
    /\ UNCHANGED client
    /\ OthersStay(c)

Asks(c, u) ==
    /\ job[c].at = "idle"
    /\ client[c].mode = "fresh"
    /\ userState[u] # "online"
    /\ ~LoggingIn(u)
    /\ job'[c].id = u /\ job'[c].at \in Asked
    /\ UNCHANGED <<connMap, userState, client>>
    /\ OthersStay(c)

Enters(c, u) ==
    /\ Moves(c, u, Asked, Entered)
    /\ connMap' = IF connMap[ServerOf[c]][u] = NoConn
                  THEN [connMap EXCEPT ![ServerOf[c]][u] = c]
                  ELSE connMap
    /\ UNCHANGED userState

Announces(c, u) ==
    /\ Moves(c, u, Entered, Announced)
    /\ userState' = [userState EXCEPT ![u] = "online"]
    /\ UNCHANGED connMap

Answers(c, u) ==
    /\ At(c, u, Announced)
    /\ job'[c].at = "idle"
    /\ client'[c].user = u
    /\ OthersStay(c)
    /\ UNCHANGED <<connMap, userState>>

Leaves(c, u) ==
    /\ job[c].at = "idle"
    /\ Registered(c, u)
    /\ connMap' = [connMap EXCEPT ![ServerOf[c]][u] = NoConn]
    /\ job'[c].id = u /\ job'[c].at \in Leaving
    /\ \/ client[c].mode = "gone" /\ client'[c].mode = "closing"
       \/ client'[c].mode = "left"
    /\ OthersStay(c)
    /\ UNCHANGED userState

Withdraws(c, u) ==
    /\ At(c, u, Leaving)
    /\ job'[c].at = "idle"
    /\ client'[c].mode = "menu" => client'[c] = client[c]
    /\ OthersStay(c)
    /\ userState' = [userState EXCEPT ![u] = "offline"]
    /\ UNCHANGED connMap

SessionStep(c, u) ==
    /\ \/ Asks(c, u) \/ Enters(c, u) \/ Announces(c, u)
       \/ Answers(c, u) \/ Leaves(c, u) \/ Withdraws(c, u)
    /\ UNCHANGED <<crashes, proc>>
    /\ NobodyExits

Dies(s) ==
    /\ connMap' = [connMap EXCEPT ![s] = [u \in Users |-> NoConn]]
    /\ \A c \in Conns :
         IF ServerOf[c] = s
         THEN job'[c].at = "idle" /\ client'[c].mode = "down"
         ELSE job'[c] = job[c] /\ client'[c] = client[c]
    /\ UNCHANGED userState
    /\ proc[s] = "up"
    /\ proc' = [proc EXCEPT ![s] = "down"]
    /\ crashes' = crashes + 1
    /\ NobodyExits

-----------------------------------------------------------------------------

\* A call of the database has not failed.
LEMMA NoDbFail ==
  ASSUME Orderly, DbTypeOK
  PROVE  ~DbFail
  BY DEF Orderly, DbTypeOK, DbFail

\* A step that moves at most the handler of c, and that within its stage.
LEMMA CalmMove ==
  ASSUME NEW c \in Conns, LifeInv,
         UNCHANGED <<connMap, userState, crashes, proc>>,
         SameStage(job[c], job'[c]),
         client'[c].mode = "menu" => client'[c] = client[c],
         OpensLive(c),
         OthersStay(c)
  PROVE  Calm
  BY DEF Calm, OpensLive, SameStage, OthersStay, LifeInv, NobodyExits

\* Every step is calm, moves one session on, or is the death of a process.
LEMMA StepKinds ==
  ASSUME Orderly, SafeInv, StageInv, LifeInv, [Next]_vars
  PROVE  \/ Calm
         \/ \E c \in Conns, u \in Users : SessionStep(c, u)
         \/ \E s \in Servers : Dies(s)
  <1> DEFINE Goal == \/ Calm
                     \/ \E c \in Conns, u \in Users : SessionStep(c, u)
                     \/ \E s \in Servers : Dies(s)
  <1> USE DEF SafeInv, TypeInv, OpensLive
  <1> USE ServerOfAssumption, SentinelAssumption
  <1>0. /\ UNCHANGED proc => NobodyExits
        /\ ~DbFail
    BY NoDbFail DEF LifeInv, NobodyExits
  <1>1. ASSUME NEW c \in Conns, Connect(c)
         PROVE  Goal
    BY <1>1, CalmMove
    DEF Connect, dbVars, ClientInv, SameStage, Asked, Entered, Announced,
        Leaving, LogoutSteps, CloseSteps, OthersStay, Goto, Return, Idle,
        JobInv, Job, mapVars, procVars
  <1>2. ASSUME NEW c \in Conns, Hangup(c)
         PROVE  Goal
    BY <1>2, CalmMove
    DEF Hangup, dbVars, ClientInv, Open, SameStage, Asked, Entered, Announced,
        Leaving, LogoutSteps, CloseSteps, OthersStay, Goto, Return, Idle,
        JobInv, Job, mapVars, procVars
  <1>3. ASSUME NEW c \in Conns, NEW u \in Users, LoginQuery(c, u)
         PROVE  Goal
    <2>1. CASE UNCHANGED job
      BY <1>3, <2>1, CalmMove
      DEF LoginQuery, SameStage, Asked, Entered, Announced, Leaving,
          LogoutSteps, CloseSteps, OthersStay, Goto, Return, Idle, JobInv,
          Job, mapVars, procVars
    <2>2. CASE ~UNCHANGED job
      <3>1. Asks(c, u)
        BY <1>3, <2>2
        DEF LoginQuery, Orderly, LoginAllowed, IsOnline, Asks, SameStage,
            Asked, Entered, Announced, Leaving, LogoutSteps, CloseSteps,
            OthersStay, Goto, Return, Idle, JobInv, Job, mapVars, procVars
      <3> QED BY <1>3, <1>0, <3>1 DEF LoginQuery, SessionStep, procVars
    <2> QED BY <2>1, <2>2
  <1>4. ASSUME NEW c \in Conns, LoginInsert(c)
         PROVE  Goal
    <2>1. job[c].id \in Users
      BY <1>4 DEF LoginInsert, JobInv, JobFits
    <2>2. Enters(c, job[c].id)
      BY <1>4, <1>0, <2>1
      DEF LoginInsert, Enters, dbVars, Moves, At, SameStage, Asked, Entered,
          Announced, Leaving, LogoutSteps, CloseSteps, OthersStay, Goto,
          Return, Idle, JobInv, Job, mapVars, procVars
    <2> QED BY <1>4, <1>0, <2>1, <2>2 DEF LoginInsert, SessionStep, procVars
  <1>5. ASSUME NEW c \in Conns, LoginSubscribe(c)
         PROVE  Goal
    BY <1>5, CalmMove
    DEF LoginSubscribe, dbVars, subscribe, SameStage, Asked, Entered,
        Announced, Leaving, LogoutSteps, CloseSteps, OthersStay, Goto, Return,
        Idle, JobInv, Job, mapVars, procVars
  <1>6. ASSUME NEW c \in Conns, LoginOnline(c)
         PROVE  Goal
    <2>1. job[c].id \in Users
      BY <1>6 DEF LoginOnline, JobInv, JobFits
    <2>2. Announces(c, job[c].id)
      BY <1>6, <1>0, <2>1
      DEF LoginOnline, Announces, Moves, At, updateState, SameStage, Asked,
          Entered, Announced, Leaving, LogoutSteps, CloseSteps, OthersStay,
          Goto, Return, Idle, JobInv, Job, mapVars, procVars
    <2> QED BY <1>6, <1>0, <2>1, <2>2 DEF LoginOnline, SessionStep, procVars
  <1>7. ASSUME NEW c \in Conns, LoginReadOffline(c)
         PROVE  Goal
    BY <1>7, CalmMove
    DEF LoginReadOffline, SameStage, Asked, Entered, Announced, Leaving,
        LogoutSteps, CloseSteps, OthersStay, Goto, Return, Idle, JobInv, Job,
        mapVars, procVars
  <1>8. ASSUME NEW c \in Conns, LoginRemoveOffline(c)
         PROVE  Goal
    BY <1>8, CalmMove
    DEF LoginRemoveOffline, removeOffline, SameStage, Asked, Entered,
        Announced, Leaving, LogoutSteps, CloseSteps, OthersStay, Goto, Return,
        Idle, JobInv, Job, mapVars, procVars
  <1>9. ASSUME NEW c \in Conns, LoginAck(c)
         PROVE  Goal
    <2>1. job[c].id \in Users
      BY <1>9 DEF LoginAck, JobInv, JobFits
    <2>2. Answers(c, job[c].id)
      BY <1>9, <1>0, <2>1
      DEF LoginAck, Answers, dbVars, Moves, At, ClientInv, Client, SameStage,
          Asked, Entered, Announced, Leaving, LogoutSteps, CloseSteps,
          OthersStay, Goto, Return, Idle, JobInv, Job, mapVars, procVars
    <2> QED BY <1>9, <1>0, <2>1, <2>2 DEF LoginAck, SessionStep, procVars
  <1>10. ASSUME NEW c \in Conns, LogoutUnsubscribe(c)
         PROVE  Goal
    BY <1>10, CalmMove
    DEF LogoutUnsubscribe, dbVars, unsubscribe, SameStage, Asked, Entered,
        Announced, Leaving, LogoutSteps, CloseSteps, OthersStay, Goto, Return,
        Idle, JobInv, Job, mapVars, procVars
  <1>11. ASSUME NEW c \in Conns, LogoutOffline(c)
         PROVE  Goal
    <2>1. job[c].id \in Users
      BY <1>11 DEF LogoutOffline, JobInv, JobFits
    <2>2. Withdraws(c, job[c].id)
      BY <1>11, <1>0, <2>1
      DEF LogoutOffline, Withdraws, Moves, At, updateState, SameStage, Asked,
          Entered, Announced, Leaving, LogoutSteps, CloseSteps, OthersStay,
          Goto, Return, Idle, JobInv, Job, mapVars, procVars
    <2> QED BY <1>11, <1>0, <2>1, <2>2 DEF LogoutOffline, SessionStep, procVars
  <1>12. ASSUME NEW c \in Conns, CloseErase(c)
         PROVE  Goal
    <2>1. CASE EntriesOf(c) = {}
      BY <1>12, <2>1, CalmMove
      DEF CloseErase, dbVars, NoClient, ClientInv, Client, SameStage, Asked,
          Entered, Announced, Leaving, LogoutSteps, CloseSteps, OthersStay,
          Goto, Return, Idle, JobInv, Job, mapVars, procVars
    <2>2. CASE EntriesOf(c) # {}
      <3>1. PICK u \in EntriesOf(c) :
              /\ connMap' = [connMap EXCEPT ![ServerOf[c]][u] = NoConn]
              /\ client' = [client EXCEPT ![c].mode = "closing"]
              /\ job' = [job EXCEPT ![c] = [Idle EXCEPT !.at = "close_unsubscribe",
                                                        !.id = u]]
        BY <1>12, <2>2 DEF CloseErase
      <3>2. u \in Users /\ Registered(c, u)
        BY DEF EntriesOf, Registered
      <3>3. /\ job[c].at = "idle" /\ client[c].mode = "gone"
            /\ UNCHANGED userState
        BY <1>12 DEF CloseErase, dbVars
      <3>4. job'[c].id = u /\ job'[c].at = "close_unsubscribe"
        BY <3>1, <3>2 DEF Idle, JobInv
      <3>5. client'[c].mode = "closing" /\ OthersStay(c)
        BY <3>1 DEF OthersStay, ClientInv, Client, JobInv
      <3>6. Leaves(c, u)
        BY <3>1, <3>2, <3>3, <3>4, <3>5 DEF Leaves, Leaving, CloseSteps
      <3> QED BY <1>12, <1>0, <3>2, <3>6 DEF CloseErase, SessionStep, procVars
    <2> QED BY <2>1, <2>2
  <1>13. ASSUME NEW c \in Conns, CloseUnsubscribe(c)
         PROVE  Goal
    BY <1>13, CalmMove
    DEF CloseUnsubscribe, dbVars, unsubscribe, SameStage, Asked, Entered,
        Announced, Leaving, LogoutSteps, CloseSteps, OthersStay, Goto, Return,
        Idle, JobInv, Job, mapVars, procVars
  <1>14. ASSUME NEW c \in Conns, CloseOffline(c)
         PROVE  Goal
    <2>1. job[c].id \in Users
      BY <1>14 DEF CloseOffline, JobInv, JobFits
    <2>2. Withdraws(c, job[c].id)
      BY <1>14, <1>0, <2>1
      DEF CloseOffline, Withdraws, Moves, At, updateState, ClientInv, Client,
          NoClient, SameStage, Asked, Entered, Announced, Leaving,
          LogoutSteps, CloseSteps, OthersStay, Goto, Return, Idle, JobInv,
          Job, mapVars, procVars
    <2> QED BY <1>14, <1>0, <2>1, <2>2 DEF CloseOffline, SessionStep, procVars
  <1>15. ASSUME NEW c \in Conns, ChatSend(c)
         PROVE  Goal
    BY <1>15, CalmMove
    DEF ChatSend, dbVars, SameStage, Asked, Entered, Announced, Leaving,
        LogoutSteps, CloseSteps, OthersStay, Goto, Return, Idle, JobInv, Job,
        mapVars, procVars
  <1>16. ASSUME NEW c \in Conns, ChatQuery(c)
         PROVE  Goal
    BY <1>16, CalmMove
    DEF ChatQuery, Route, SameStage, Asked, Entered, Announced, Leaving,
        LogoutSteps, CloseSteps, OthersStay, Goto, Return, Idle, JobInv, Job,
        mapVars, procVars
  <1>17. ASSUME NEW c \in Conns, ChatPublish(c)
         PROVE  Goal
    BY <1>17, CalmMove
    DEF ChatPublish, dbVars, SameStage, Asked, Entered, Announced, Leaving,
        LogoutSteps, CloseSteps, OthersStay, Goto, Return, Idle, JobInv, Job,
        mapVars, procVars
  <1>18. ASSUME NEW c \in Conns, ChatStore(c)
         PROVE  Goal
    BY <1>18, CalmMove
    DEF ChatStore, insertOffline, SameStage, Asked, Entered, Announced,
        Leaving, LogoutSteps, CloseSteps, OthersStay, Goto, Return, Idle,
        JobInv, Job, mapVars, procVars
  <1>19. ASSUME NEW c \in Conns, GroupLock(c)
         PROVE  Goal
    BY <1>19, CalmMove
    DEF GroupLock, dbVars, SameStage, Asked, Entered, Announced, Leaving,
        LogoutSteps, CloseSteps, OthersStay, Goto, Return, Idle, JobInv, Job,
        mapVars, procVars
  <1>20. ASSUME NEW c \in Conns, GroupDone(c)
         PROVE  Goal
    BY <1>20, CalmMove
    DEF GroupDone, dbVars, SameStage, Asked, Entered, Announced, Leaving,
        LogoutSteps, CloseSteps, OthersStay, Goto, Return, Idle, JobInv, Job,
        mapVars, procVars
  <1>21. ASSUME NEW c \in Conns, NEW u \in Users, GroupSend(c, u)
         PROVE  Goal
    BY <1>21, CalmMove
    DEF GroupSend, dbVars, SameStage, Asked, Entered, Announced, Leaving,
        LogoutSteps, CloseSteps, OthersStay, Goto, Return, Idle, JobInv, Job,
        mapVars, procVars
  <1>22. ASSUME NEW c \in Conns, NEW u \in Users, GroupRoute(c, u)
         PROVE  Goal
    BY <1>22, CalmMove
    DEF GroupRoute, Route, SameStage, Asked, Entered, Announced, Leaving,
        LogoutSteps, CloseSteps, OthersStay, Goto, Return, Idle, JobInv, Job,
        mapVars, procVars
  <1>23. ASSUME NEW c \in Conns, GroupPublish(c)
         PROVE  Goal
    BY <1>23, CalmMove
    DEF GroupPublish, dbVars, SameStage, Asked, Entered, Announced, Leaving,
        LogoutSteps, CloseSteps, OthersStay, Goto, Return, Idle, JobInv, Job,
        mapVars, procVars
  <1>24. ASSUME NEW c \in Conns, GroupStore(c)
         PROVE  Goal
    BY <1>24, CalmMove
    DEF GroupStore, insertOffline, SameStage, Asked, Entered, Announced,
        Leaving, LogoutSteps, CloseSteps, OthersStay, Goto, Return, Idle,
        JobInv, Job, mapVars, procVars
  <1>25. ASSUME NEW c \in Conns, LogoutErase(c)
         PROVE  Goal
    <2> DEFINE u == client[c].user
    <2>1. client[c].mode = "menu" /\ job[c].at = "idle"
      BY <1>25 DEF LogoutErase, Commands, Orderly
    <2>2. u \in Users
      BY <2>1 DEF ClientInv
    <2>3. Registered(c, u)
      BY <2>1, <2>2 DEF StageInv, StageOf
    <2>4. Leaves(c, u)
      BY <1>25, <2>1, <2>2, <2>3
      DEF LogoutErase, Leaves, ClientInv, Client, dbVars, SameStage, Asked,
          Entered, Announced, Leaving, LogoutSteps, CloseSteps, OthersStay,
          Goto, Return, Idle, JobInv, Job, mapVars, procVars
    <2> QED BY <1>25, <1>0, <2>2, <2>4 DEF LogoutErase, SessionStep, procVars
  <1>26. ASSUME NEW c \in Conns, NEW d \in Users, NEW m \in Msgs, ChatFind(c, m, d)
         PROVE  Goal
    <2>1. /\ job[c].at = "idle"
          /\ UNCHANGED <<connMap, userState, client, crashes, proc>>
      BY <1>26 DEF ChatFind, Commands, dbVars, procVars
    <2>2. job'[c].at \in {"chat_send", "chat_query"}
      BY <1>26 DEF ChatFind, Idle, JobInv
    <2>3. OthersStay(c)
      BY <1>26 DEF ChatFind, OthersStay, JobInv
    <2> QED
      BY <2>1, <2>2, <2>3, CalmMove
      DEF SameStage, Asked, Entered, Announced, Leaving, LogoutSteps, CloseSteps
  <1>27. ASSUME NEW c \in Conns, NEW m \in Msgs, NEW g \in Groups, GroupQuery(c, m, g)
         PROVE  Goal
    BY <1>27, CalmMove
    DEF GroupQuery, Commands, SameStage, Asked, Entered, Announced, Leaving,
        LogoutSteps, CloseSteps, OthersStay, Goto, Return, Idle, JobInv, Job,
        mapVars, procVars
  <1>28. ASSUME NEW c \in Conns, NEW g \in Groups, AddGroup(c, g)
         PROVE  Goal
    BY <1>28, CalmMove
    DEF AddGroup, addGroupRow, SameStage, Asked, Entered, Announced, Leaving,
        LogoutSteps, CloseSteps, OthersStay, Goto, Return, Idle, JobInv, Job,
        mapVars, procVars
  <1>29. ASSUME NEW s \in Servers, Serve(s)
         PROVE  Goal
    BY <1>29, <1>0 DEF Serve, dbVars, Calm, SameStage, mapVars, procVars
  <1>30. ASSUME NEW s \in Servers, ObserverFind(s)
         PROVE  Goal
    BY <1>30, <1>0 DEF ObserverFind, dbVars, Calm, SameStage, mapVars, procVars
  <1>31. ASSUME NEW s \in Servers, ObserverSend(s)
         PROVE  Goal
    BY <1>31, <1>0 DEF ObserverSend, dbVars, Calm, SameStage, mapVars, procVars
  <1>32. ASSUME NEW s \in Servers, ObserverStore(s)
         PROVE  Goal
    BY <1>32, <1>0
    DEF ObserverStore, insertOffline, Calm, SameStage, mapVars, procVars
  <1>33. ASSUME NEW s \in Servers, Quits(s)
         PROVE  Goal
    BY <1>33, <1>0 DEF Quits, dbVars, Calm, SameStage, mapVars, procVars
  <1>34. ASSUME NEW s \in Servers, SigInt(s)
         PROVE  Goal
    BY <1>34 DEF SigInt, Orderly, ProcInv
  <1>35. ASSUME NEW s \in Servers, ProcessExit(s)
         PROVE  Goal
    BY <1>35 DEF ProcessExit, LifeInv
  <1>36. ASSUME NEW s \in Servers, Crash(s)
         PROVE  Goal
    <2>1. Dies(s)
      BY <1>36
      DEF Crash, Vanish, Dies, dbVars, Idle, NoClient, ClientInv, JobInv,
              ProcInv, LifeInv, NobodyExits
    <2> QED BY <2>1
  <1>37. ASSUME NEW s \in Servers, Restart(s)
         PROVE  Goal
    BY <1>37
    DEF Restart, Starts, Calm, SameStage, mapVars, dbVars, ProcInv, LifeInv,
        NobodyExits
  <1>38. CASE UNCHANGED vars
    BY <1>38, <1>0 DEF vars, Calm, SameStage, mapVars, dbVars, procVars
  <1> QED
    BY <1>1, <1>2, <1>3, <1>4, <1>5, <1>6, <1>7, <1>8, <1>9, <1>10, <1>11,
       <1>12, <1>13, <1>14, <1>15, <1>16, <1>17, <1>18, <1>19, <1>20, <1>21,
       <1>22, <1>23, <1>24, <1>25, <1>26, <1>27, <1>28, <1>29, <1>30, <1>31,
       <1>32, <1>33, <1>34, <1>35, <1>36, <1>37, <1>38
    DEF Next, Handler, ClientCommand, ObserverLoop, Process

-----------------------------------------------------------------------------
(* The invariant is kept, kind by kind *)

\* What SafeInv and ClaimInv say of the connections, in the terms used here.
LEMMA Holders ==
  ASSUME SafeInv, NEW c \in Conns, NEW u \in Users, Registered(c, u)
  PROVE  /\ job[c].at \notin Asked
         /\ \/ /\ client[c].mode \in {"menu", "gone"}
               /\ client[c].user = u
            \/ /\ client[c].mode \in {"fresh", "gone"}
               /\ At(c, u, Entered \cup Announced)
         /\ \A v \in Users : Registered(c, v) => v = u
  <1>1. \A v \in Users : Registered(c, v) => Owns(c, ServerOf[c], v)
    BY ServerOfAssumption DEF SafeInv, SessionInv, Registered
  <1>2. Inserted = Entered \cup Announced /\ LoginSteps = Asked \cup Inserted
    BY DEF Inserted, LoginSteps, Asked, Entered, Announced
  <1>3. Asked \cap Inserted = {}
    BY DEF Inserted, Asked
  <1> QED BY <1>1, <1>2, <1>3 DEF Owns, At

LEMMA CalmKeeps ==
  ASSUME SingleInv, Calm
  PROVE  SingleInv'
  <1>1. StageInv'
    BY DEF SingleInv, StageInv, StageOf, Calm, SameStage, At, Registered
  <1>2. ClaimInv'
    BY DEF SingleInv, ClaimInv, Claims, Calm, SameStage, At, Registered
  <1>3. LifeInv'
    BY DEF SingleInv, LifeInv, Calm, NobodyExits, SameStage, OnlineHasOwner,
           LoggingOut, Registered, Leaving
  <1> QED BY <1>1, <1>2, <1>3 DEF SingleInv

\* Nobody has a claim to a user whose state is "offline" while no login of it
\* is on its way: this is what the check in login relies on.
LEMMA AskKeeps ==
  ASSUME SafeInv, SingleInv, NEW c \in Conns, NEW u \in Users,
         Asks(c, u), SessionStep(c, u)
  PROVE  SingleInv'
  <1>1. userState[u] = "offline"
    BY DEF Asks, SafeInv, TypeInv, DbTypeOK, UserStates
  <1>2. \A d \in Conns : ~Claims(d, u)
    BY <1>1
    DEF Asks, LoggingIn, SingleInv, StageInv, StageOf, Claims, At, Asked,
        Entered, Leaving
  <1>3. StageInv'
    BY <1>1, <1>2
    DEF Asks, OthersStay, SingleInv, StageInv, StageOf, Claims, At,
        Registered, Asked,
        Entered, Announced, Leaving, LogoutSteps, CloseSteps
  <1>4. ClaimInv'
    BY <1>2
    DEF Asks, OthersStay, SingleInv, ClaimInv, Claims, At, Registered, Asked,
        Entered, Announced, Leaving, LogoutSteps, CloseSteps
  <1>5. LifeInv'
    BY DEF Asks, SessionStep, OthersStay, SingleInv, LifeInv, NobodyExits,
           OnlineHasOwner, LoggingOut, Registered, LogoutSteps, CloseSteps
  <1> QED BY <1>3, <1>4, <1>5 DEF SingleInv

\* insert() finds no entry: the login has the only claim to u.
LEMMA EnterFindsNone ==
  ASSUME SafeInv, SingleInv, NEW c \in Conns, NEW u \in Users, At(c, u, Asked)
  PROVE  /\ connMap[ServerOf[c]][u] = NoConn
         /\ \A d \in Conns \ {c} : ~Claims(d, u)
         /\ \A v \in Users : ~Registered(c, v)
  <1>1. \A d \in Conns \ {c} : ~Claims(d, u)
    BY DEF SingleInv, ClaimInv, Claims
  <1>2. \A v \in Users : ~Registered(c, v)
    BY Holders DEF At
  <1>3. ASSUME NEW d \in Conns, connMap[ServerOf[c]][u] = d PROVE FALSE
    <2>1. Registered(d, u)
      BY <1>3, ServerOfAssumption DEF SafeInv, SessionInv, Owns, Registered
    <2> QED BY <1>1, <1>2, <2>1 DEF Claims
  <1> QED
    BY <1>1, <1>2, <1>3, ServerOfAssumption DEF SafeInv, TypeInv, MapInv

LEMMA EnterKeeps ==
  ASSUME SafeInv, SingleInv, NEW c \in Conns, NEW u \in Users,
         Enters(c, u), SessionStep(c, u)
  PROVE  SingleInv'
  <1>1. At(c, u, Asked)
    BY DEF Enters, Moves
  <1>2. \A d \in Conns, v \in Users :
          Registered(d, v)' <=> Registered(d, v) \/ (d = c /\ v = u)
    BY <1>1, EnterFindsNone, ServerOfAssumption, SentinelAssumption
    DEF Enters, Registered, SafeInv, TypeInv, MapInv
  <1>3. \A d \in Conns \ {c} : ~Claims(d, u)
    BY <1>1, EnterFindsNone
  <1>4. userState[u] = "offline"
    BY <1>1 DEF SingleInv, StageInv, StageOf
  <1>5. \A d \in Conns, v \in Users :
          /\ At(d, v, Asked)' => At(d, v, Asked) /\ d # c
          /\ At(d, v, Entered)' <=> IF d = c THEN v = u ELSE At(d, v, Entered)
          /\ At(d, v, Announced)' => At(d, v, Announced) /\ d # c
          /\ At(d, v, Leaving)' <=> At(d, v, Leaving) /\ d # c
          /\ At(c, v, Leaving) => FALSE
    BY <1>1
    DEF Enters, Moves, OthersStay, At, Asked, Entered, Announced, Leaving,
                LogoutSteps, CloseSteps
  <1>6. UNCHANGED <<client, userState>>
    BY DEF Enters, Moves
  <1>7. StageInv'
    <2> SUFFICES ASSUME NEW d \in Conns, NEW v \in Users
                 PROVE  StageOf(d, v)'
      BY DEF StageInv, StageOf
    <2>1. CASE d = c
      BY <1>1, <1>2, <1>4, <1>5, <1>6, <2>1, EnterFindsNone
      DEF SingleInv, StageInv, StageOf
    <2>2. CASE d # c
      BY <1>2, <1>5, <1>6, <2>2 DEF SingleInv, StageInv, StageOf
    <2> QED BY <2>1, <2>2
  <1>8. ClaimInv'
    BY <1>2, <1>3, <1>5 DEF SingleInv, ClaimInv, Claims
  <1>9. LifeInv'
    BY <1>2, <1>5, <1>6
    DEF SessionStep, SingleInv, LifeInv, NobodyExits, OnlineHasOwner,
        LoggingOut, At, Leaving
  <1> QED BY <1>7, <1>8, <1>9 DEF SingleInv

LEMMA AnnounceKeeps ==
  ASSUME SafeInv, SingleInv, NEW c \in Conns, NEW u \in Users,
         Announces(c, u), SessionStep(c, u)
  PROVE  SingleInv'
  <1>1. At(c, u, Entered) /\ Registered(c, u)
    BY DEF Announces, Moves, SingleInv, StageInv, StageOf
  <1>2. \A d \in Conns \ {c} : ~Claims(d, u)
    BY <1>1 DEF SingleInv, ClaimInv, Claims
  <1>3. \A d \in Conns, v \in Users :
          /\ At(d, v, Asked)' <=> At(d, v, Asked)
          /\ At(d, v, Entered)' <=> At(d, v, Entered) /\ d # c
          /\ At(d, v, Announced)' <=> IF d = c THEN v = u ELSE At(d, v, Announced)
          /\ At(d, v, Leaving)' <=> At(d, v, Leaving)
          /\ Registered(d, v)' <=> Registered(d, v)
          /\ At(c, v, Entered) => v = u
          /\ ~At(c, v, Asked) /\ ~At(c, v, Leaving)
    BY <1>1 DEF Announces, Moves, OthersStay, At, Registered, Asked, Entered,
                Announced, Leaving, LogoutSteps, CloseSteps
  <1>4. /\ userState'[u] = "online"
        /\ \A v \in Users \ {u} : userState'[v] = userState[v]
        /\ UNCHANGED client
    BY DEF Announces, Moves, SafeInv, TypeInv, DbTypeOK
  <1>5. StageInv'
    <2> SUFFICES ASSUME NEW d \in Conns, NEW v \in Users
                 PROVE  StageOf(d, v)'
      BY DEF StageInv
    <2>1. CASE d = c
      BY <1>1, <1>3, <1>4, <2>1 DEF SingleInv, StageInv, StageOf
    <2>2. CASE d # c /\ v = u
      <3>1. ~At(d, v, Entered)
        BY <1>2, <2>2 DEF SingleInv, StageInv, StageOf, Claims
      <3> QED
        BY <1>2, <1>3, <1>4, <2>2, <3>1 DEF SingleInv, StageInv, StageOf, Claims
    <2>3. CASE d # c /\ v # u
      BY <1>3, <1>4, <2>3 DEF SingleInv, StageInv, StageOf
    <2> QED BY <2>1, <2>2, <2>3
  <1>6. ClaimInv'
    BY <1>3 DEF SingleInv, ClaimInv, Claims
  <1>7. LifeInv'
    BY <1>1, <1>3, <1>4
    DEF SessionStep, SingleInv, LifeInv, NobodyExits, OnlineHasOwner,
        LoggingOut, At, Leaving
  <1> QED BY <1>5, <1>6, <1>7 DEF SingleInv

LEMMA AnswerKeeps ==
  ASSUME SafeInv, SingleInv, NEW c \in Conns, NEW u \in Users,
         Answers(c, u), SessionStep(c, u)
  PROVE  SingleInv'
  <1>1. At(c, u, Announced) /\ Registered(c, u)
    BY DEF Answers, SingleInv, StageInv, StageOf
  <1>2. \A d \in Conns, v \in Users :
          /\ At(d, v, Asked)' <=> At(d, v, Asked)
          /\ At(d, v, Entered)' <=> At(d, v, Entered)
          /\ At(d, v, Announced)' <=> At(d, v, Announced) /\ d # c
          /\ At(d, v, Leaving)' <=> At(d, v, Leaving)
          /\ Registered(d, v)' <=> Registered(d, v)
          /\ ~At(c, v, Asked) /\ ~At(c, v, Entered) /\ ~At(c, v, Leaving)
    BY <1>1 DEF Answers, OthersStay, At, Registered, Asked, Entered,
                Announced, Leaving, LogoutSteps, CloseSteps
  <1>3. /\ UNCHANGED userState
        /\ client'[c].user = u
        /\ \A d \in Conns \ {c} : client'[d] = client[d]
    BY DEF Answers, OthersStay
  <1>4. StageInv'
    <2> SUFFICES ASSUME NEW d \in Conns, NEW v \in Users
                 PROVE  StageOf(d, v)'
      BY DEF StageInv
    <2>1. CASE d = c
      BY <1>1, <1>2, <1>3, <2>1 DEF SingleInv, StageInv, StageOf
    <2>2. CASE d # c
      BY <1>2, <1>3, <2>2 DEF SingleInv, StageInv, StageOf
    <2> QED BY <2>1, <2>2
  <1>5. ClaimInv'
    BY <1>2 DEF SingleInv, ClaimInv, Claims
  <1>6. LifeInv'
    BY <1>2, <1>3
    DEF SessionStep, SingleInv, LifeInv, NobodyExits, OnlineHasOwner,
        LoggingOut, At, Leaving
  <1> QED BY <1>4, <1>5, <1>6 DEF SingleInv

LEMMA LeaveKeeps ==
  ASSUME SafeInv, SingleInv, NEW c \in Conns, NEW u \in Users,
         Leaves(c, u), SessionStep(c, u)
  PROVE  SingleInv'
  <1>1. Registered(c, u) /\ job[c].at = "idle"
    BY DEF Leaves
  <1>2. userState[u] = "online"
    BY <1>1 DEF SingleInv, StageInv, StageOf, At, Entered
  <1>3. \A d \in Conns \ {c} : ~Claims(d, u)
    BY <1>1 DEF SingleInv, ClaimInv, Claims
  <1>4. \A v \in Users : Registered(c, v) => v = u
    BY <1>1, Holders
  <1>5. \A d \in Conns, v \in Users :
          Registered(d, v)' <=> Registered(d, v) /\ d # c
    <2> SUFFICES ASSUME NEW d \in Conns, NEW v \in Users
                 PROVE  Registered(d, v)' <=> Registered(d, v) /\ d # c
      OBVIOUS
    <2>1. connMap'[ServerOf[d]][v] = IF ServerOf[d] = ServerOf[c] /\ v = u
                                     THEN NoConn
                                     ELSE connMap[ServerOf[d]][v]
      BY ServerOfAssumption DEF Leaves, SafeInv, TypeInv, MapInv
    <2> QED
      BY <1>1, <1>4, <2>1, SentinelAssumption DEF Registered
  <1>6. \A d \in Conns, v \in Users :
          /\ At(d, v, Asked)' <=> At(d, v, Asked)
          /\ At(d, v, Entered)' <=> At(d, v, Entered)
          /\ At(d, v, Announced)' <=> At(d, v, Announced)
          /\ At(d, v, Leaving)' <=> IF d = c THEN v = u ELSE At(d, v, Leaving)
          /\ ~At(c, v, Asked) /\ ~At(c, v, Entered) /\ ~At(c, v, Announced)
          /\ ~At(c, v, Leaving)
    BY <1>1 DEF Leaves, OthersStay, At, Asked, Entered, Announced, Leaving,
                LogoutSteps, CloseSteps
  <1>7. /\ UNCHANGED userState
        /\ client'[c].mode # "menu"
        /\ \A d \in Conns \ {c} : client'[d] = client[d]
    BY DEF Leaves, OthersStay
  <1>8. StageInv'
    <2> SUFFICES ASSUME NEW d \in Conns, NEW v \in Users
                 PROVE  StageOf(d, v)'
      BY DEF StageInv
    <2>1. CASE d = c
      BY <1>2, <1>5, <1>6, <1>7, <2>1 DEF StageOf
    <2>2. CASE d # c
      BY <1>5, <1>6, <1>7, <2>2 DEF SingleInv, StageInv, StageOf
    <2> QED BY <2>1, <2>2
  <1>9. ClaimInv'
    BY <1>1, <1>3, <1>5, <1>6 DEF SingleInv, ClaimInv, Claims
  <1>10. LifeInv'
    <2>1. \A v \in Users : LoggingOut(v) => LoggingOut(v)'
      BY <1>6 DEF LoggingOut, At, Leaving
    <2>2. LoggingOut(u)'
      BY <1>6 DEF LoggingOut, At, Leaving
    <2>3. ASSUME NEW v \in Users \ {u}, NEW d \in Conns, Registered(d, v)
          PROVE  Registered(d, v)'
      BY <1>4, <1>5, <2>3
    <2> QED
      BY <1>7, <2>1, <2>2, <2>3
      DEF SessionStep, SingleInv, LifeInv, NobodyExits, OnlineHasOwner
  <1> QED BY <1>8, <1>9, <1>10 DEF SingleInv

LEMMA WithdrawKeeps ==
  ASSUME SafeInv, SingleInv, NEW c \in Conns, NEW u \in Users,
         Withdraws(c, u), SessionStep(c, u)
  PROVE  SingleInv'
  <1>1. At(c, u, Leaving) /\ ~Registered(c, u)
    BY DEF Withdraws, SingleInv, StageInv, StageOf
  <1>2. \A d \in Conns \ {c} : ~Claims(d, u)
    BY <1>1 DEF SingleInv, ClaimInv, Claims
  <1>3. \A d \in Conns, v \in Users :
          /\ At(d, v, Asked)' <=> At(d, v, Asked)
          /\ At(d, v, Entered)' <=> At(d, v, Entered)
          /\ At(d, v, Announced)' <=> At(d, v, Announced)
          /\ At(d, v, Leaving)' <=> At(d, v, Leaving) /\ d # c
          /\ Registered(d, v)' <=> Registered(d, v)
          /\ At(c, v, Leaving) => v = u
          /\ ~At(c, v, Asked) /\ ~At(c, v, Entered) /\ ~At(c, v, Announced)
    BY <1>1 DEF Withdraws, OthersStay, At, Registered, Asked, Entered,
                Announced, Leaving, LogoutSteps, CloseSteps
  <1>4. /\ userState'[u] = "offline"
        /\ \A v \in Users \ {u} : userState'[v] = userState[v]
        /\ client'[c].mode = "menu" => client'[c] = client[c]
        /\ \A d \in Conns \ {c} : client'[d] = client[d]
    BY DEF Withdraws, OthersStay, SafeInv, TypeInv, DbTypeOK
  <1>5. StageInv'
    <2> SUFFICES ASSUME NEW d \in Conns, NEW v \in Users
                 PROVE  StageOf(d, v)'
      BY DEF StageInv
    <2>1. CASE v = u
      <3>1. ~Registered(d, u) /\ ~At(d, u, Leaving)'
        BY <1>1, <1>2, <1>3 DEF Claims
      <3> QED
        BY <1>3, <1>4, <2>1, <3>1 DEF SingleInv, StageInv, StageOf
    <2>2. CASE v # u
      BY <1>3, <1>4, <2>2 DEF SingleInv, StageInv, StageOf
    <2> QED BY <2>1, <2>2
  <1>6. ClaimInv'
    BY <1>3 DEF SingleInv, ClaimInv, Claims
  <1>7. LifeInv'
    <2>1. \A v \in Users \ {u} : LoggingOut(v) => LoggingOut(v)'
      BY <1>3 DEF LoggingOut, At, Leaving
    <2> QED
      BY <1>3, <1>4, <2>1
      DEF SessionStep, SingleInv, LifeInv, NobodyExits, OnlineHasOwner
  <1> QED BY <1>5, <1>6, <1>7 DEF SingleInv

\* A process takes the claims of its connections with it.
LEMMA DieKeeps ==
  ASSUME SafeInv, SingleInv, NEW s \in Servers, Dies(s)
  PROVE  SingleInv'
  <1>1. \A d \in Conns, v \in Users :
          /\ At(d, v, Asked)' <=> At(d, v, Asked) /\ ServerOf[d] # s
          /\ At(d, v, Entered)' <=> At(d, v, Entered) /\ ServerOf[d] # s
          /\ At(d, v, Announced)' <=> At(d, v, Announced) /\ ServerOf[d] # s
          /\ At(d, v, Leaving)' <=> At(d, v, Leaving) /\ ServerOf[d] # s
    BY DEF Dies, At, Asked, Entered, Announced, Leaving, LogoutSteps, CloseSteps
  <1>2. \A d \in Conns, v \in Users :
          Registered(d, v)' <=> Registered(d, v) /\ ServerOf[d] # s
    BY ServerOfAssumption, SentinelAssumption
    DEF Dies, Registered, SafeInv, TypeInv, MapInv
  <1>3. /\ UNCHANGED userState
        /\ \A d \in Conns : client'[d].mode = "menu" =>
                              ServerOf[d] # s /\ client'[d] = client[d]
    BY DEF Dies
  <1>4. StageInv'
    BY <1>1, <1>2, <1>3 DEF SingleInv, StageInv, StageOf
  <1>5. ClaimInv'
    BY <1>1, <1>2 DEF SingleInv, ClaimInv, Claims
  <1>6. LifeInv'
    BY DEF Dies, LifeInv, NobodyExits, OnlineHasOwner, SafeInv, TypeInv, ProcInv
  <1> QED BY <1>4, <1>5, <1>6 DEF SingleInv

LEMMA InitSingle == Init => SingleInv
  <1> SUFFICES ASSUME Init PROVE SingleInv
    OBVIOUS
  <1>1. \A c \in Conns : job[c].at = "idle" /\ client[c].mode = "down"
    BY DEF Init, Idle, NoClient
  <1>2. \A c \in Conns, u \in Users : ~Registered(c, u)
    BY ServerOfAssumption, SentinelAssumption DEF Init, Registered
  <1>3. StageInv
    BY <1>1, <1>2 DEF StageInv, StageOf, At, Asked, Entered, Announced, Leaving,
                      LogoutSteps, CloseSteps
  <1>4. ClaimInv
    BY <1>1, <1>2
    DEF ClaimInv, Claims, At, Asked, Leaving, LogoutSteps, CloseSteps
  <1>5. LifeInv
    BY DEF LifeInv, OnlineHasOwner, Init, DbInit
  <1> QED BY <1>3, <1>4, <1>5 DEF SingleInv

LEMMA SingleStep == Orderly /\ SafeInv /\ SingleInv /\ [Next]_vars => SingleInv'
  BY StepKinds, CalmKeeps, AskKeeps, EnterKeeps, AnnounceKeeps, AnswerKeeps,
     LeaveKeeps, WithdrawKeeps, DieKeeps
  DEF SingleInv, SessionStep

LEMMA SingleInvariant == ASSUME Orderly PROVE Spec => []SingleInv
  <1>1. SafeInv /\ SingleInv /\ [Next]_vars => SingleInv'
    BY SingleStep
  <1> QED BY <1>1, InitSingle, SafeInvariant, PTL DEF Spec

-----------------------------------------------------------------------------

\* OneSessionPerUser, for any number of servers, connections and users, with
\* crashes and failures of Redis: no two connections of the cluster are logged
\* in as one user, if its clients and operators are orderly (Orderly).
THEOREM OneSessionCorrect == ASSUME Orderly PROVE Spec => []OneSessionPerUser
  <1>1. SingleInv => OneSessionPerUser
    BY DEF SingleInv, StageInv, StageOf, ClaimInv, Claims, OneSessionPerUser
  <1> QED BY <1>1, SingleInvariant, PTL

\* SessionRegistered, for every instance: whoever is in the main menu is in the
\* map of its server and "online", under the same conditions.
THEOREM SessionRegisteredCorrect == ASSUME Orderly PROVE Spec => []SessionRegistered
  <1>1. SafeInv /\ SingleInv => SessionRegistered
    <2> SUFFICES ASSUME SafeInv, SingleInv, NEW c \in Conns, client[c].mode = "menu"
                 PROVE  /\ Registered(c, client[c].user)
                        /\ userState[client[c].user] = "online"
      BY DEF SessionRegistered
    <2>1. client[c].user \in Users
      BY DEF SafeInv, TypeInv, ClientInv
    <2>2. Registered(c, client[c].user)
      BY <2>1 DEF SingleInv, StageInv, StageOf
    <2>3. ~At(c, client[c].user, Entered)
      BY DEF SafeInv, SessionInv, ModeFits, At, Entered, LoginSteps
    <2> QED BY <2>1, <2>2, <2>3 DEF SingleInv, StageInv, StageOf
  <1> QED BY <1>1, SafeInvariant, SingleInvariant, PTL

\* OnlineHasOwner, for every instance: before the first crash nobody is "online"
\* without a session or a handler about to write "offline".
THEOREM OnlineHasOwnerCorrect == ASSUME Orderly PROVE Spec => []OnlineHasOwner
  <1>1. SingleInv => OnlineHasOwner
    BY DEF SingleInv, LifeInv
  <1> QED BY <1>1, SingleInvariant, PTL

-----------------------------------------------------------------------------
(* The refinement *)

LEMMA OwnerIs ==
  ASSUME SingleInv, NEW u \in Users
  PROVE  /\ \A c \in Conns : Registered(c, u) => Owner(u) = c
         /\ (\A c \in Conns : ~Registered(c, u)) => Owner(u) = NoConn
         /\ Owner(u) \in Conns \cup {NoConn}
  BY DEF Owner, SingleInv, ClaimInv, Claims

LEMMA NextOwnerIs ==
  ASSUME SingleInv', NEW u \in Users
  PROVE  /\ \A c \in Conns : Registered(c, u)' => Owner(u)' = c
         /\ (\A c \in Conns : ~Registered(c, u)') => Owner(u)' = NoConn
  BY DEF Owner, SingleInv, ClaimInv, Claims

\* A user whose connection stays has the same owner after the step.
LEMMA OwnerStays ==
  ASSUME SingleInv, SingleInv', NEW u \in Users,
         \A c \in Conns : Registered(c, u)' <=> Registered(c, u)
  PROVE  Owner(u)' = Owner(u)
  BY OwnerIs, NextOwnerIs

\* The owners after a step that leaves the map alone.
LEMMA OwnersStay ==
  ASSUME UNCHANGED connMap
  PROVE  UNCHANGED [u \in Users |-> Owner(u)]
  BY DEF Owner, Registered

\* A process that does not run has no connections.
DownInv == \A c \in Conns : proc[ServerOf[c]] # "up" => client[c].mode = "down"

LEMMA DownStep ==
  ASSUME Orderly, SafeInv, SingleInv, DownInv, [Next]_vars
  PROVE  DownInv'
  <1> USE ServerOfAssumption
  <1>0. proc \in [Servers -> {"up", "exiting", "down"}]
    BY DEF SafeInv, TypeInv, ProcInv
  <1>1. CASE Calm
    <2>1. \A s \in Servers : proc'[s] # "up" => proc[s] # "up"
      BY <1>0, <1>1 DEF Calm, Starts
    <2> QED BY <1>1, <2>1 DEF Calm, OpensLive, DownInv
  <1>2. ASSUME NEW c \in Conns, NEW u \in Users, SessionStep(c, u)
        PROVE  DownInv'
    <2>1. UNCHANGED proc /\ OthersStay(c)
      BY <1>2
      DEF SessionStep, Asks, Enters, Announces, Answers, Leaves, Withdraws, Moves
    <2>2. client[c].mode = "down" => client'[c].mode = "down"
      <3>1. CASE Asks(c, u) \/ Enters(c, u) \/ Announces(c, u)
        BY <3>1 DEF Asks, Enters, Announces, Moves
      <3>2. CASE Answers(c, u) \/ Withdraws(c, u)
        <4>1. job[c].at # "idle"
          BY <3>2
          DEF Answers, Withdraws, At, Announced, Leaving, LogoutSteps, CloseSteps
        <4> QED BY <4>1 DEF SafeInv, SessionInv, ModeFits
      <3>3. CASE Leaves(c, u)
        <4>1. Registered(c, u) /\ job[c].at = "idle"
          BY <3>3 DEF Leaves
        <4> QED BY <4>1, Holders
      <3> QED BY <1>2, <3>1, <3>2, <3>3 DEF SessionStep
    <2> QED BY <2>1, <2>2 DEF DownInv, OthersStay
  <1>3. ASSUME NEW s \in Servers, Dies(s) PROVE DownInv'
    BY <1>0, <1>3 DEF Dies, DownInv
  <1> QED BY <1>1, <1>2, <1>3, StepKinds DEF SingleInv

LEMMA DownInvariant == ASSUME Orderly PROVE Spec => []DownInv
  <1>1. Init => DownInv
    BY ServerOfAssumption DEF Init, DownInv
  <1>2. SafeInv /\ SingleInv /\ DownInv /\ [Next]_vars => DownInv'
    BY DownStep
  <1> QED BY <1>1, <1>2, SafeInvariant, SingleInvariant, PTL DEF Spec

LEMMA StepRefines ==
  ASSUME Orderly, SafeInv, SingleInv, DownInv, [Next]_vars
  PROVE  [Abstract!SessionNext]_(Abstract!sessionVars)
  <1> DEFINE owner == [u \in Users |-> Owner(u)]
             up == [s \in Servers |-> proc[s] = "up"]
  <1>0. proc \in [Servers -> {"up", "exiting", "down"}]
    BY DEF SafeInv, TypeInv, ProcInv
  <1>1. SingleInv'
    BY SingleStep
  <1>2. CASE Calm
    <2>1. CASE UNCHANGED proc
      BY <1>2, <2>1, OwnersStay DEF Calm, Abstract!sessionVars
    <2>2. ASSUME NEW s \in Servers, Starts(s) PROVE Abstract!Start(s)
      <3>1. up' = [up EXCEPT ![s] = TRUE] /\ ~up[s]
        BY <1>0, <2>2 DEF Starts
      <3> QED BY <1>2, <3>1, OwnersStay DEF Calm, Abstract!Start
    <2> QED BY <1>2, <2>1, <2>2 DEF Calm, Abstract!SessionNext
  <1>3. ASSUME NEW c \in Conns, NEW u \in Users, Asks(c, u), UNCHANGED proc
        PROVE  UNCHANGED Abstract!sessionVars
    BY <1>3, OwnersStay DEF Asks, Abstract!sessionVars
  <1>4. ASSUME NEW c \in Conns, NEW u \in Users, Answers(c, u), UNCHANGED proc
        PROVE  UNCHANGED Abstract!sessionVars
    BY <1>4, OwnersStay DEF Answers, Abstract!sessionVars
  <1>5. ASSUME NEW c \in Conns, NEW u \in Users, Announces(c, u), UNCHANGED proc
        PROVE  Abstract!Announce(u)
    <2>1. Registered(c, u) /\ userState[u] = "offline"
      BY <1>5 DEF Announces, Moves, SingleInv, StageInv, StageOf
    <2>2. Owner(u) # NoConn
      BY <2>1, OwnerIs, SentinelAssumption
    <2> QED BY <1>5, <2>1, <2>2, OwnersStay DEF Announces, Abstract!Announce
  <1>6. ASSUME NEW c \in Conns, NEW u \in Users, Withdraws(c, u), UNCHANGED proc
        PROVE  Abstract!Withdraw(u)
    <2>1. At(c, u, Leaving) /\ userState[u] = "online"
      BY <1>6 DEF Withdraws, SingleInv, StageInv, StageOf
    <2>2. \A d \in Conns : ~Registered(d, u)
      BY <2>1 DEF SingleInv, StageInv, StageOf, ClaimInv, Claims
    <2>3. Owner(u) = NoConn
      BY <2>2, OwnerIs
    <2> QED BY <1>6, <2>1, <2>3, OwnersStay DEF Withdraws, Abstract!Withdraw
  <1>7. ASSUME NEW c \in Conns, NEW u \in Users, Enters(c, u), UNCHANGED proc
        PROVE  Abstract!Enter(u, c)
    <2>1. /\ connMap[ServerOf[c]][u] = NoConn
          /\ \A d \in Conns : ~Registered(d, u)
          /\ \A v \in Users : ~Registered(c, v)
          /\ userState[u] = "offline"
      BY <1>7, EnterFindsNone
      DEF Enters, Moves, Claims, SingleInv, StageInv, StageOf
    <2>2. Owner(u) = NoConn /\ \A v \in Users : Owner(v) # c
      BY <2>1, OwnerIs, SentinelAssumption
    <2>3. \A d \in Conns, v \in Users :
            Registered(d, v)' <=> Registered(d, v) \/ (d = c /\ v = u)
      BY <1>7, <2>1, ServerOfAssumption, SentinelAssumption
      DEF Enters, Registered, SafeInv, TypeInv, MapInv
    <2>4. Owner(u)' = c
      BY <1>1, <2>3, NextOwnerIs
    <2>5. \A v \in Users \ {u} : Owner(v)' = Owner(v)
      BY <1>1, <2>3, OwnerStays
    <2>6. owner' = [owner EXCEPT ![u] = c]
      BY <2>4, <2>5
    <2>7. up[ServerOf[c]]
      <3>1. client[c].mode # "down"
        BY <1>7
        DEF Enters, Moves, At, Asked, SafeInv, SessionInv, ModeFits
      <3> QED BY <3>1, ServerOfAssumption DEF DownInv
    <2> QED BY <1>7, <2>1, <2>2, <2>6, <2>7 DEF Enters, Abstract!Enter
  <1>8. ASSUME NEW c \in Conns, NEW u \in Users, Leaves(c, u), UNCHANGED proc
        PROVE  Abstract!Leave(u)
    <2>1. Registered(c, u) /\ userState[u] = "online"
      BY <1>8 DEF Leaves, SingleInv, StageInv, StageOf, At, Entered
    <2>2. Owner(u) # NoConn
      BY <2>1, OwnerIs, SentinelAssumption
    <2>3. \A d \in Conns : Registered(d, u) => d = c
      BY <2>1 DEF SingleInv, ClaimInv, Claims
    <2>4. \A d \in Conns, v \in Users :
            Registered(d, v)' <=> Registered(d, v) /\ v # u
      <3> SUFFICES ASSUME NEW d \in Conns, NEW v \in Users
                   PROVE  Registered(d, v)' <=> Registered(d, v) /\ v # u
        OBVIOUS
      <3>1. connMap'[ServerOf[d]][v] = IF ServerOf[d] = ServerOf[c] /\ v = u
                                       THEN NoConn
                                       ELSE connMap[ServerOf[d]][v]
        BY <1>8, ServerOfAssumption DEF Leaves, SafeInv, TypeInv, MapInv
      <3> QED
        BY <2>3, <3>1, SentinelAssumption DEF Registered
    <2>5. Owner(u)' = NoConn
      BY <1>1, <2>4, NextOwnerIs
    <2>6. \A v \in Users \ {u} : Owner(v)' = Owner(v)
      BY <1>1, <2>4, OwnerStays
    <2>7. owner' = [owner EXCEPT ![u] = NoConn]
      BY <2>5, <2>6
    <2> QED BY <1>8, <2>1, <2>2, <2>7 DEF Leaves, Abstract!Leave
  <1>9. ASSUME NEW s \in Servers, Dies(s)
        PROVE  Abstract!Lose(s)
    <2> DEFINE here == {c \in Conns : ServerOf[c] = s}
    <2>1. \A d \in Conns, v \in Users :
            Registered(d, v)' <=> Registered(d, v) /\ ServerOf[d] # s
      BY <1>9, ServerOfAssumption, SentinelAssumption
      DEF Dies, Registered, SafeInv, TypeInv, MapInv
    <2>2. ASSUME NEW v \in Users, Owner(v) \in here PROVE Owner(v)' = NoConn
      <3>1. PICK d \in here : Registered(d, v)
        BY <2>2, OwnerIs, SentinelAssumption
      <3>2. \A e \in Conns : Registered(e, v) => e = d
        BY <3>1 DEF SingleInv, ClaimInv, Claims
      <3> QED BY <1>1, <2>1, <3>1, <3>2, NextOwnerIs
    <2>3. ASSUME NEW v \in Users, Owner(v) \notin here PROVE Owner(v)' = Owner(v)
      <3>1. \A d \in Conns : Registered(d, v) => Owner(v) = d
        BY OwnerIs DEF SingleInv, ClaimInv, Claims
      <3>2. \A d \in Conns : Registered(d, v) => ServerOf[d] # s
        BY <2>3, <3>1
      <3> QED BY <1>1, <2>1, <3>2, OwnerStays
    <2>4. owner' = [u \in Users |-> IF owner[u] \in here THEN NoConn ELSE owner[u]]
      BY <2>2, <2>3
    <2>5. up[s] /\ up' = [up EXCEPT ![s] = FALSE]
      BY <1>0, <1>9 DEF Dies
    <2> QED BY <1>9, <2>4, <2>5 DEF Dies, Abstract!Lose
  <1> QED
    BY <1>2, <1>3, <1>4, <1>5, <1>6, <1>7, <1>8, <1>9, StepKinds
    DEF SingleInv, SessionStep, Abstract!SessionNext

\* SessionsRefine: seen through the map and User.state, the handlers of all the
\* servers do nothing but what SessionSpec allows, for every instance; a crash
\* ends the sessions of its own server and no others.
THEOREM SessionsRefineCorrect == ASSUME Orderly PROVE Spec => SessionsRefine
  <1>1. Init => Abstract!SessionInit
    <2> SUFFICES ASSUME Init PROVE Abstract!SessionInit
      OBVIOUS
    <2>1. \A c \in Conns, u \in Users : ~Registered(c, u)
      BY ServerOfAssumption, SentinelAssumption DEF Init, Registered
    <2> QED BY <2>1 DEF Init, DbInit, Owner, Abstract!SessionInit
  <1>2. SafeInv /\ SingleInv /\ DownInv /\ [Next]_vars
          => [Abstract!SessionNext]_(Abstract!sessionVars)
    BY StepRefines
  <1> QED
    BY <1>1, <1>2, SafeInvariant, SingleInvariant, DownInvariant, PTL
    DEF Spec, SessionsRefine, Abstract!Spec

\* OnlyOwnerEndsSession, for every instance: an entry of the map changes only by
\* its own loginout, its own close callback, or the end of its process.
THEOREM OnlyOwnerEnds == ASSUME Orderly PROVE Spec => OnlyOwnerEndsSession
  <1> DEFINE Ends == \A s \in Servers, u \in Users :
                       connMap[s][u] # NoConn /\ connMap'[s][u] # connMap[s][u] =>
                         \/ client[connMap[s][u]].mode = "gone"
                         \/ client'[connMap[s][u]].mode = "left"
                         \/ proc'[s] = "down"
  <1>1. ASSUME SafeInv, SingleInv, [Next]_vars PROVE Ends
    <2> USE <1>1 DEF SafeInv, TypeInv, MapInv
    <2> USE ServerOfAssumption
    <2>1. CASE UNCHANGED connMap
      BY <2>1
    <2>2. ASSUME NEW c \in Conns, NEW u \in Users, Enters(c, u) PROVE Ends
      BY <2>2, EnterFindsNone DEF Enters, Moves
    <2>3. ASSUME NEW c \in Conns, NEW u \in Users, Leaves(c, u) PROVE Ends
      BY <2>3 DEF Leaves, Registered
    <2>4. ASSUME NEW s \in Servers, Dies(s) PROVE Ends
      <3>1. proc'[s] = "down"
        BY <2>4 DEF Dies, ProcInv
      <3> QED BY <2>4, <3>1 DEF Dies
    <2> QED
      BY <2>1, <2>2, <2>3, <2>4, StepKinds
      DEF SingleInv, Calm, SessionStep, Asks, Announces, Answers, Withdraws
  <1>2. SafeInv /\ SingleInv /\ [Next]_vars => [Ends]_vars
    BY <1>1
  <1> QED
    BY <1>2, SafeInvariant, SingleInvariant, PTL DEF Spec, OnlyOwnerEndsSession
=============================================================================
