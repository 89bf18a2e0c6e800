---------------------------- MODULE ChatBusProofs ----------------------------
(***************************************************************************)
(* The Redis subscriptions of a server and the entries of its map.         *)
(*                                                                         *)
(* SubscriptionFollowsSession compares the two when nothing is pending, so *)
(* it says nothing about the states in between and is not inductive.  The  *)
(* inductive invariant looks ahead: WillHear is what the subscription of a *)
(* user will be once Redis has executed every command written so far, and  *)
(* QueueInv says that it agrees with the map at every moment, but while a  *)
(* handler is between its change of the map and its SUBSCRIBE or           *)
(* UNSUBSCRIBE.  LinkInv says that a process that is down, or has lost its *)
(* connection, has nothing left at Redis when it starts again.             *)
(*                                                                         *)
(* The second part follows the texts: a text that is on its way was sent   *)
(* (PostedInv), and only a login past its reading of the offline messages  *)
(* holds some (BatchInv); what a step does to them is RowsStep, BatchMoves.*)
(***************************************************************************)
EXTENDS ChatSessionProofs, SequenceTheorems

\* The steps that are about to write a command for the user they are about.
WriteSteps == {"login_subscribe", "logout_unsubscribe", "close_unsubscribe"}

Writing(s, u) == \E c \in Conns : ServerOf[c] = s /\ At(c, u, WriteSteps)

\* The i-th command of the queue q is the last one about u.
LastAbout(q, u, i) ==
    /\ q[i].chan = u
    /\ \A j \in 1 .. Len(q) : j > i => q[j].chan # u

\* u is subscribed once the commands of q have been executed, the channels of
\* now being subscribed before.
After(q, u, now) ==
    \/ \E i \in 1 .. Len(q) : LastAbout(q, u, i) /\ q[i].op = "SUBSCRIBE"
    \/ u \in now /\ \A i \in 1 .. Len(q) : q[i].chan # u

\* u will be subscribed once Redis has executed what s has written.
WillHear(s, u) == After(subCmds[s], u, subs[s])

\* The map says what Redis will do, when no handler is about to write for u.
QueueInv ==
    \A s \in Servers, u \in Users :
      linked[s] /\ ~Writing(s, u) =>
        (WillHear(s, u) <=> connMap[s][u] # NoConn)

\* A process that is down, or whose observer has quit, has nothing at Redis.
LinkInv ==
    /\ \A s \in Servers :
         ~linked[s] => subCmds[s] = <<>> /\ subs[s] = {} /\ inbox[s] = <<>>
    /\ \A s \in Servers : proc[s] = "down" => ~linked[s]
    /\ \A c \in Conns : proc[ServerOf[c]] = "down" => client[c].mode = "down"

BusInv == QueueInv /\ LinkInv

-----------------------------------------------------------------------------
(* Queues of commands *)

\* A command that is written decides for its user, and for no other.
LEMMA AfterWrite ==
  ASSUME NEW q \in Seq(Cmd), NEW cmd \in Cmd, NEW u \in Users, NEW now
  PROVE  After(Append(q, cmd), u, now)
           <=> IF cmd.chan = u THEN cmd.op = "SUBSCRIBE" ELSE After(q, u, now)
  <1> DEFINE r == Append(q, cmd)
  <1>1. /\ Len(r) = Len(q) + 1 /\ Len(q) \in Nat
        /\ r[Len(q) + 1] = cmd
        /\ \A i \in 1 .. Len(q) : r[i] = q[i]
    BY AppendProperties
  <1> HIDE DEF r
  <1>2. CASE cmd.chan = u
    <2>1. LastAbout(r, u, Len(q) + 1)
      BY <1>1, <1>2 DEF LastAbout
    <2>2. \A i \in 1 .. Len(r) : LastAbout(r, u, i) => i = Len(q) + 1
      BY <1>1, <1>2 DEF LastAbout
    <2> QED BY <1>1, <1>2, <2>1, <2>2 DEF After, r
  <1>3. CASE cmd.chan # u
    <2>1. \A i \in 1 .. Len(r) :
            LastAbout(r, u, i) <=> i \in 1 .. Len(q) /\ LastAbout(q, u, i)
      BY <1>1, <1>3 DEF LastAbout
    <2>2. (\A i \in 1 .. Len(r) : r[i].chan # u)
            <=> (\A i \in 1 .. Len(q) : q[i].chan # u)
      BY <1>1, <1>3
    <2>3. After(r, u, now) <=> After(q, u, now)
      BY <1>1, <2>1, <2>2 DEF After
    <2> QED BY <1>3, <2>3 DEF r
  <1> QED BY <1>2, <1>3

\* Executing the oldest command does not change where the queue leads.
LEMMA AfterServe ==
  ASSUME NEW q \in Seq(Cmd), q # <<>>, NEW u \in Users,
         NEW now, NEW next,
         u \in next <=> IF Head(q).chan = u THEN Head(q).op = "SUBSCRIBE"
                        ELSE u \in now
  PROVE  After(Tail(q), u, next) <=> After(q, u, now)
  <1> DEFINE r == Tail(q)
  <1>1. /\ Len(q) \in Nat \ {0} /\ Len(r) = Len(q) - 1
        /\ Head(q) = q[1]
        /\ \A i \in 1 .. Len(r) : r[i] = q[i + 1]
    BY HeadTailProperties, EmptySeq
  <1> HIDE DEF r
  <1>2. \A i \in 1 .. Len(r) : LastAbout(r, u, i) <=> LastAbout(q, u, i + 1)
    <2> SUFFICES ASSUME NEW i \in 1 .. Len(r)
                 PROVE  LastAbout(r, u, i) <=> LastAbout(q, u, i + 1)
      OBVIOUS
    <2>1. (\A j \in 1 .. Len(r) : j > i => r[j].chan # u)
            <=> (\A j \in 1 .. Len(q) : j > i + 1 => q[j].chan # u)
      <3>1. ASSUME \A j \in 1 .. Len(r) : j > i => r[j].chan # u,
                   NEW j \in 1 .. Len(q), j > i + 1
            PROVE  q[j].chan # u
        <4>1. j - 1 \in 1 .. Len(r) /\ j - 1 > i /\ (j - 1) + 1 = j
          BY <1>1, <3>1
        <4> QED BY <1>1, <3>1, <4>1
      <3>2. ASSUME \A j \in 1 .. Len(q) : j > i + 1 => q[j].chan # u,
                   NEW j \in 1 .. Len(r), j > i
            PROVE  r[j].chan # u
        BY <1>1, <3>2
      <3> QED BY <3>1, <3>2
    <2> QED BY <1>1, <2>1 DEF LastAbout
  <1>3. LastAbout(q, u, 1) <=>
          Head(q).chan = u /\ \A i \in 1 .. Len(r) : r[i].chan # u
    <2>1. (\A j \in 1 .. Len(q) : j > 1 => q[j].chan # u)
            <=> (\A i \in 1 .. Len(r) : r[i].chan # u)
      <3>1. ASSUME \A i \in 1 .. Len(r) : r[i].chan # u,
                   NEW j \in 1 .. Len(q), j > 1
            PROVE  q[j].chan # u
        <4>1. j - 1 \in 1 .. Len(r) /\ (j - 1) + 1 = j
          BY <1>1, <3>1
        <4> QED BY <1>1, <3>1, <4>1
      <3>2. ASSUME \A j \in 1 .. Len(q) : j > 1 => q[j].chan # u,
                   NEW i \in 1 .. Len(r)
            PROVE  r[i].chan # u
        BY <1>1, <3>2
      <3> QED BY <3>1, <3>2
    <2> QED BY <1>1, <2>1 DEF LastAbout
  <1>4. (\A i \in 1 .. Len(q) : q[i].chan # u) <=>
          Head(q).chan # u /\ \A i \in 1 .. Len(r) : r[i].chan # u
    <2>1. ASSUME NEW j \in 1 .. Len(q), j # 1
          PROVE  j - 1 \in 1 .. Len(r) /\ (j - 1) + 1 = j
      BY <1>1, <2>1
    <2>2. ASSUME \A i \in 1 .. Len(r) : r[i].chan # u, Head(q).chan # u,
                 NEW j \in 1 .. Len(q)
          PROVE  q[j].chan # u
      BY <1>1, <2>1, <2>2
    <2>3. \A i \in 1 .. Len(r) : i + 1 \in 1 .. Len(q)
      BY <1>1
    <2>4. 1 \in 1 .. Len(q)
      BY <1>1
    <2> QED BY <1>1, <2>2, <2>3, <2>4
  <1>5. (\E i \in 1 .. Len(q) : LastAbout(q, u, i) /\ q[i].op = "SUBSCRIBE") <=>
          \/ LastAbout(q, u, 1) /\ Head(q).op = "SUBSCRIBE"
          \/ \E i \in 1 .. Len(r) : LastAbout(r, u, i) /\ r[i].op = "SUBSCRIBE"
    <2>1. ASSUME NEW j \in 1 .. Len(q), j # 1
          PROVE  j - 1 \in 1 .. Len(r) /\ (j - 1) + 1 = j
      BY <1>1, <2>1
    <2>2. ASSUME NEW j \in 1 .. Len(q), j # 1, LastAbout(q, u, j),
                 q[j].op = "SUBSCRIBE"
          PROVE  \E i \in 1 .. Len(r) : LastAbout(r, u, i) /\ r[i].op = "SUBSCRIBE"
      <3>1. LastAbout(r, u, j - 1) /\ r[j - 1].op = "SUBSCRIBE"
        BY <1>1, <1>2, <2>1, <2>2
      <3> QED BY <2>1, <2>2, <3>1
    <2>3. \A i \in 1 .. Len(r) : i + 1 \in 1 .. Len(q)
      BY <1>1
    <2>4. 1 \in 1 .. Len(q)
      BY <1>1
    <2> QED BY <1>1, <1>2, <2>2, <2>3, <2>4
  <1>6. After(r, u, next) <=> After(q, u, now)
    BY <1>3, <1>4, <1>5 DEF After
  <1> QED BY <1>6 DEF r

-----------------------------------------------------------------------------
(* The steps, as the channels of a user see them *)

\* No entry, no command and no subscription changes, and no handler gets past a
\* write without making it.
Quiet ==
    /\ UNCHANGED <<connMap, subCmds, subs, linked>>
    /\ \A c \in Conns, u \in Users : At(c, u, WriteSteps) => At(c, u, WriteSteps)'

\* The handler of c writes the command it was about to write.
WritesCmd(c, u, op) ==
    /\ op \in {"SUBSCRIBE", "UNSUBSCRIBE"}
    /\ At(c, u, IF op = "SUBSCRIBE" THEN {"login_subscribe"}
                ELSE {"logout_unsubscribe", "close_unsubscribe"})
    /\ WriteCmd(ServerOf[c], op, u)
    /\ UNCHANGED connMap
    /\ \A d \in Conns \ {c} : job'[d] = job[d]

\* The handler of c changes the entry of u and will write a command for it.
Rewrites(c, u) ==
    /\ UNCHANGED <<subCmds, subs, linked>>
    /\ job[c].at \notin WriteSteps
    /\ At(c, u, WriteSteps)'
    /\ \A d \in Conns \ {c} : job'[d] = job[d]
    /\ \A s \in Servers, v \in Users :
         s # ServerOf[c] \/ v # u => connMap'[s][v] = connMap[s][v]

\* Redis executes a command.
Executes(s) == RedisServe(s) /\ UNCHANGED <<connMap, job>>

\* The observer of s has no connection any more; the others are as they were.
Unlinks(s) ==
    /\ ~linked'[s]
    /\ \A t \in Servers \ {s} :
         /\ subCmds'[t] = subCmds[t] /\ subs'[t] = subs[t]
         /\ linked'[t] = linked[t] /\ connMap'[t] = connMap[t]
    /\ \A c \in Conns : ServerOf[c] # s => job'[c] = job[c]

\* A process begins with an empty map and a connection that has no commands.
Begins(s) ==
    /\ UNCHANGED <<connMap, job>>
    /\ UNCHANGED <<subCmds, subs>>
    /\ \A t \in Servers \ {s} : linked'[t] = linked[t]
    /\ subCmds[s] = <<>> /\ subs[s] = {}
    /\ \A u \in Users : connMap[s][u] = NoConn

BusStep ==
    \/ Quiet
    \/ \E c \in Conns, u \in Users, op \in {"SUBSCRIBE", "UNSUBSCRIBE"} :
         WritesCmd(c, u, op)
    \/ \E c \in Conns, u \in Users : Rewrites(c, u)
    \/ \E s \in Servers : Executes(s) \/ Unlinks(s) \/ Begins(s)

\* One handler moves, and not from a write.
LEMMA QuietMove ==
  ASSUME NEW c \in Conns, UNCHANGED <<connMap, subCmds, subs, linked>>,
         job[c].at \notin WriteSteps,
         \A d \in Conns \ {c} : job'[d] = job[d]
  PROVE  Quiet
  BY DEF Quiet, At

\* Every step of the cluster is one of these.
LEMMA BusStepKinds ==
  ASSUME SafeInv, LinkInv, [Next]_vars
  PROVE  BusStep
  <1> USE DEF SafeInv, TypeInv
  <1> USE ServerOfAssumption, SentinelAssumption
  <1>1. ASSUME NEW c \in Conns, Connect(c)
         PROVE  BusStep
    BY <1>1 DEF Connect, busVars, mapVars, BusStep, Quiet, At
  <1>2. ASSUME NEW c \in Conns, Hangup(c)
         PROVE  BusStep
    BY <1>2 DEF Hangup, busVars, mapVars, BusStep, Quiet, At
  <1>3. ASSUME NEW c \in Conns, NEW g \in Groups, AddGroup(c, g)
         PROVE  BusStep
    BY <1>3 DEF AddGroup, busVars, mapVars, BusStep, Quiet, At
  <1>4. ASSUME NEW c \in Conns, NEW u \in Users, LoginQuery(c, u)
         PROVE  BusStep
    BY <1>4, QuietMove DEF LoginQuery, BusStep, JobInv, Job, WriteSteps, Goto, Return, Idle, busVars, mapVars
  <1>5. ASSUME NEW c \in Conns, LoginOnline(c)
         PROVE  BusStep
    BY <1>5, QuietMove DEF LoginOnline, BusStep, JobInv, Job, WriteSteps, Goto, Return, Idle, busVars, mapVars
  <1>6. ASSUME NEW c \in Conns, LoginReadOffline(c)
         PROVE  BusStep
    BY <1>6, QuietMove DEF LoginReadOffline, BusStep, JobInv, Job, WriteSteps, Goto, Return, Idle, busVars, mapVars
  <1>7. ASSUME NEW c \in Conns, LoginRemoveOffline(c)
         PROVE  BusStep
    BY <1>7, QuietMove DEF LoginRemoveOffline, BusStep, JobInv, Job, WriteSteps, Goto, Return, Idle, busVars, mapVars
  <1>8. ASSUME NEW c \in Conns, LoginAck(c)
         PROVE  BusStep
    BY <1>8, QuietMove DEF LoginAck, BusStep, JobInv, Job, WriteSteps, Goto, Return, Idle, busVars, mapVars
  <1>9. ASSUME NEW c \in Conns, LogoutOffline(c)
         PROVE  BusStep
    BY <1>9, QuietMove DEF LogoutOffline, BusStep, JobInv, Job, WriteSteps, Goto, Return, Idle, busVars, mapVars
  <1>10. ASSUME NEW c \in Conns, CloseOffline(c)
         PROVE  BusStep
    BY <1>10, QuietMove DEF CloseOffline, BusStep, JobInv, Job, WriteSteps, Goto, Return, Idle, busVars, mapVars
  <1>11. ASSUME NEW c \in Conns, ChatSend(c)
         PROVE  BusStep
    BY <1>11, QuietMove DEF ChatSend, BusStep, JobInv, Job, WriteSteps, Goto, Return, Idle, busVars, mapVars
  <1>12. ASSUME NEW c \in Conns, ChatStore(c)
         PROVE  BusStep
    BY <1>12, QuietMove DEF ChatStore, BusStep, JobInv, Job, WriteSteps, Goto, Return, Idle, busVars, mapVars
  <1>13. ASSUME NEW c \in Conns, GroupLock(c)
         PROVE  BusStep
    BY <1>13, QuietMove DEF GroupLock, BusStep, JobInv, Job, WriteSteps, Goto, Return, Idle, busVars, mapVars
  <1>14. ASSUME NEW c \in Conns, GroupDone(c)
         PROVE  BusStep
    BY <1>14, QuietMove DEF GroupDone, BusStep, JobInv, Job, WriteSteps, Goto, Return, Idle, busVars, mapVars
  <1>15. ASSUME NEW c \in Conns, GroupStore(c)
         PROVE  BusStep
    BY <1>15, QuietMove DEF GroupStore, BusStep, JobInv, Job, WriteSteps, Goto, Return, Idle, busVars, mapVars
  <1>16. ASSUME NEW c \in Conns, ChatQuery(c)
         PROVE  BusStep
    BY <1>16, QuietMove DEF ChatQuery, BusStep, JobInv, Job, WriteSteps, Goto, Return, Idle, busVars, mapVars, Route
  <1>17. ASSUME NEW c \in Conns, ChatPublish(c)
         PROVE  BusStep
    BY <1>17, QuietMove DEF ChatPublish, BusStep, JobInv, Job, WriteSteps, Goto, Return, Idle, busVars, mapVars, publish
  <1>18. ASSUME NEW c \in Conns, GroupPublish(c)
         PROVE  BusStep
    BY <1>18, QuietMove DEF GroupPublish, BusStep, JobInv, Job, WriteSteps, Goto, Return, Idle, busVars, mapVars, publish
  <1>19. ASSUME NEW c \in Conns, NEW u \in Users, GroupSend(c, u)
         PROVE  BusStep
    BY <1>19, QuietMove DEF GroupSend, BusStep, JobInv, Job, WriteSteps, Goto, Return, Idle, busVars, mapVars
  <1>20. ASSUME NEW c \in Conns, NEW u \in Users, GroupRoute(c, u)
         PROVE  BusStep
    BY <1>20, QuietMove DEF GroupRoute, BusStep, JobInv, Job, WriteSteps, Goto, Return, Idle, busVars, mapVars, Route
  <1>21. ASSUME NEW c \in Conns, NEW m \in Msgs, NEW d \in Users, ChatFind(c, m, d)
         PROVE  BusStep
    BY <1>21, QuietMove DEF ChatFind, BusStep, JobInv, Job, WriteSteps, Goto, Return, Idle, busVars, mapVars, Commands
  <1>22. ASSUME NEW c \in Conns, NEW m \in Msgs, NEW g \in Groups, GroupQuery(c, m, g)
         PROVE  BusStep
    BY <1>22, QuietMove DEF GroupQuery, BusStep, JobInv, Job, WriteSteps, Goto, Return, Idle, busVars, mapVars, Commands
  <1>23. ASSUME NEW c \in Conns, LoginSubscribe(c)
         PROVE  BusStep
    <2>1. job[c].id \in Users
      BY <1>23 DEF LoginSubscribe, JobInv, JobFits
    <2>2. WritesCmd(c, job[c].id, "SUBSCRIBE")
      BY <1>23, GotoMoves DEF LoginSubscribe, WritesCmd, At, mapVars, subscribe
    <2> QED BY <2>1, <2>2 DEF BusStep
  <1>24. ASSUME NEW c \in Conns, LogoutUnsubscribe(c)
         PROVE  BusStep
    <2>1. job[c].id \in Users
      BY <1>24 DEF LogoutUnsubscribe, JobInv, JobFits
    <2>2. WritesCmd(c, job[c].id, "UNSUBSCRIBE")
      BY <1>24, GotoMoves DEF LogoutUnsubscribe, WritesCmd, At, mapVars, unsubscribe
    <2> QED BY <2>1, <2>2 DEF BusStep
  <1>25. ASSUME NEW c \in Conns, CloseUnsubscribe(c)
         PROVE  BusStep
    <2>1. job[c].id \in Users
      BY <1>25 DEF CloseUnsubscribe, JobInv, JobFits
    <2>2. WritesCmd(c, job[c].id, "UNSUBSCRIBE")
      BY <1>25, GotoMoves DEF CloseUnsubscribe, WritesCmd, At, mapVars, unsubscribe
    <2> QED BY <2>1, <2>2 DEF BusStep
  <1>26. ASSUME NEW c \in Conns, LoginInsert(c)
         PROVE  BusStep
    <2>1. job[c].id \in Users
      BY <1>26 DEF LoginInsert, JobInv, JobFits
    <2>2. job'[c].at = "login_subscribe" /\ job'[c].id = job[c].id
      BY <1>26, GotoMoves DEF LoginInsert
    <2>3. Rewrites(c, job[c].id)
      BY <1>26, <2>1, <2>2, GotoMoves
      DEF LoginInsert, Rewrites, busVars, At, WriteSteps, MapInv
    <2> QED BY <2>1, <2>3 DEF BusStep
  <1>27. ASSUME NEW c \in Conns, LogoutErase(c)
         PROVE  BusStep
    <2>1. client[c].user \in Users
      BY <1>27 DEF LogoutErase, Commands, ClientInv
    <2>2. job'[c].at = "logout_unsubscribe" /\ job'[c].id = client[c].user
      BY <1>27 DEF LogoutErase, Idle, JobInv
    <2>3. Rewrites(c, client[c].user)
      BY <1>27, <2>1, <2>2
      DEF LogoutErase, Commands, Rewrites, busVars, At, WriteSteps, MapInv, JobInv
    <2> QED BY <2>1, <2>3 DEF BusStep
  <1>28. ASSUME NEW c \in Conns, CloseErase(c)
         PROVE  BusStep
    <2>1. CASE EntriesOf(c) = {}
      BY <1>28, <2>1 DEF CloseErase, busVars, BusStep, Quiet, At
    <2>2. CASE EntriesOf(c) # {}
      <3>1. PICK u \in EntriesOf(c) :
              /\ connMap' = [connMap EXCEPT ![ServerOf[c]][u] = NoConn]
              /\ job' = [job EXCEPT ![c] = [Idle EXCEPT !.at = "close_unsubscribe",
                                                        !.id = u]]
        BY <1>28, <2>2 DEF CloseErase
      <3>2. u \in Users
        BY DEF EntriesOf
      <3>3. job'[c].at = "close_unsubscribe" /\ job'[c].id = u
        BY <3>1, <3>2 DEF Idle, JobInv
      <3>4. Rewrites(c, u)
        BY <1>28, <3>1, <3>2, <3>3
        DEF CloseErase, Rewrites, busVars, At, WriteSteps, MapInv, JobInv
      <3> QED BY <3>2, <3>4 DEF BusStep
    <2> QED BY <2>1, <2>2
  <1>29. ASSUME NEW s \in Servers, Serve(s)
         PROVE  BusStep
    BY <1>29 DEF Serve, BusStep, Executes, mapVars
  <1>30. ASSUME NEW s \in Servers, ObserverFind(s)
         PROVE  BusStep
    BY <1>30 DEF ObserverFind, BusStep, busVars, mapVars, Quiet, At, Acquire, Release
  <1>31. ASSUME NEW s \in Servers, ObserverSend(s)
         PROVE  BusStep
    BY <1>31 DEF ObserverSend, BusStep, busVars, mapVars, Quiet, At, Acquire, Release
  <1>32. ASSUME NEW s \in Servers, ObserverStore(s)
         PROVE  BusStep
    BY <1>32 DEF ObserverStore, BusStep, busVars, mapVars, Quiet, At, Acquire, Release
  <1>33. ASSUME NEW s \in Servers, Quits(s)
         PROVE  BusStep
    BY <1>33 DEF Quits, BusStep, ObserverQuits, Unlink, Unlinks, mapVars, BusTypeOK
  <1>34. ASSUME NEW s \in Servers, SigInt(s)
         PROVE  BusStep
    BY <1>34 DEF SigInt, BusStep, busVars, mapVars, Quiet, At
  <1>35. ASSUME NEW s \in Servers, Vanish(s)
         PROVE  BusStep
    BY <1>35 DEF Vanish, Unlink, BusStep, Unlinks, BusTypeOK, MapInv
  <1>36. ASSUME NEW s \in Servers, Restart(s)
         PROVE  BusStep
    <2>1. \A c \in Conns : ServerOf[c] = s => client[c].mode = "down"
      BY <1>36 DEF Restart, LinkInv
    <2>2. \A u \in Users : connMap[s][u] = NoConn
      BY <2>1 DEF SessionInv, Owns, MapInv
    <2> QED
      BY <1>36, <2>2 DEF Restart, LinkInv, BusStep, Begins, mapVars, BusTypeOK
  <1>37. CASE UNCHANGED vars
    BY <1>37 DEF vars, busVars, mapVars, BusStep, Quiet, At
  <1> QED
    BY <1>1, <1>2, <1>3, <1>4, <1>5, <1>6, <1>7, <1>8, <1>9, <1>10, <1>11, <1>12, <1>13, <1>14, <1>15, <1>16, <1>17, <1>18, <1>19, <1>20, <1>21, <1>22, <1>23, <1>24, <1>25, <1>26, <1>27, <1>28, <1>29, <1>30, <1>31, <1>32, <1>33, <1>34, <1>35, <1>36, <1>37
    DEF Next, Handler, ClientCommand, ObserverLoop, Process, ProcessExit, Crash

-----------------------------------------------------------------------------

\* What Redis will do for u at s is not affected by commands about others.
LEMMA WriteLeads ==
  ASSUME BusTypeOK, NEW s \in Servers, NEW v \in Users,
         NEW op \in {"SUBSCRIBE", "UNSUBSCRIBE"}, linked[s], WriteCmd(s, op, v),
         NEW u \in Users
  PROVE  WillHear(s, u)' <=> IF v = u THEN op = "SUBSCRIBE" ELSE WillHear(s, u)
  <1> DEFINE cmd == [op |-> op, chan |-> v]
  <1>1. cmd \in Cmd /\ cmd.op = op /\ cmd.chan = v
    BY DEF Cmd
  <1>2. /\ subCmds[s] \in Seq(Cmd)
        /\ subCmds'[s] = Append(subCmds[s], cmd)
        /\ subs'[s] = subs[s]
    BY DEF BusTypeOK, WriteCmd
  <1> HIDE DEF cmd
  <1> QED BY <1>1, <1>2, AfterWrite DEF WillHear

LEMMA WriteOthers ==
  ASSUME BusTypeOK, NEW s \in Servers, NEW op, NEW v, WriteCmd(s, op, v),
         NEW t \in Servers \ {s}
  PROVE  subCmds'[t] = subCmds[t] /\ subs'[t] = subs[t]
  BY DEF BusTypeOK, WriteCmd

LEMMA ServeLeads ==
  ASSUME BusTypeOK, NEW s \in Servers, RedisServe(s), NEW t \in Servers,
         NEW u \in Users
  PROVE  WillHear(t, u)' <=> WillHear(t, u)
  <1>1. CASE t # s
    BY <1>1 DEF BusTypeOK, RedisServe, WillHear
  <1>2. CASE t = s
    <2>1. /\ subCmds[s] \in Seq(Cmd) /\ subCmds[s] # <<>>
          /\ subCmds'[s] = Tail(subCmds[s])
      BY DEF BusTypeOK, RedisServe
    <2>2. Head(subCmds[s]) \in Cmd
      BY <2>1, HeadTailProperties
    <2>3. u \in subs'[s] <=> IF Head(subCmds[s]).chan = u
                             THEN Head(subCmds[s]).op = "SUBSCRIBE"
                             ELSE u \in subs[s]
      BY <2>2 DEF BusTypeOK, RedisServe, Cmd
    <2>4. After(Tail(subCmds[s]), u, subs'[s]) <=> After(subCmds[s], u, subs[s])
      BY <2>1, <2>3, AfterServe
    <2> QED BY <1>2, <2>1, <2>4 DEF WillHear
  <1> QED BY <1>1, <1>2

\* A handler about to subscribe a user has it in the map, one about to
\* unsubscribe it has erased it, and nobody else has it (StageInv, ClaimInv).
LEMMA WriterKnows ==
  ASSUME SafeInv, SingleInv, NEW c \in Conns, NEW u \in Users
  PROVE  /\ At(c, u, {"login_subscribe"}) => connMap[ServerOf[c]][u] # NoConn
         /\ At(c, u, {"logout_unsubscribe", "close_unsubscribe"})
              => connMap[ServerOf[c]][u] = NoConn
  <1>1. ASSUME At(c, u, {"login_subscribe"})
        PROVE  connMap[ServerOf[c]][u] # NoConn
    BY <1>1, SentinelAssumption
    DEF At, SingleInv, StageInv, StageOf, Entered, Registered
  <1>2. ASSUME At(c, u, {"logout_unsubscribe", "close_unsubscribe"})
        PROVE  connMap[ServerOf[c]][u] = NoConn
    <2>1. At(c, u, Leaving)
      BY <1>2 DEF At, Leaving, LogoutSteps, CloseSteps
    <2>2. \A d \in Conns : ~Registered(d, u)
      BY <2>1 DEF SingleInv, StageInv, StageOf, ClaimInv, Claims
    <2>3. ASSUME NEW d \in Conns, connMap[ServerOf[c]][u] = d
          PROVE  FALSE
      BY <2>2, <2>3, ServerOfAssumption
      DEF SafeInv, SessionInv, Owns, Registered
    <2> QED BY <2>3, ServerOfAssumption DEF SafeInv, TypeInv, MapInv
  <1> QED BY <1>1, <1>2

LEMMA QueueStep ==
  ASSUME SafeInv, SingleInv, BusInv, BusStep
  PROVE  QueueInv'
  <1> USE DEF BusInv
  <1> USE ServerOfAssumption
  <1> SUFFICES ASSUME NEW s \in Servers, NEW u \in Users,
                      linked'[s], ~Writing(s, u)'
               PROVE  WillHear(s, u)' <=> connMap'[s][u] # NoConn
    BY DEF QueueInv
  <1>0. BusTypeOK
    BY DEF SafeInv, TypeInv
  <1>1. ASSUME linked[s], ~Writing(s, u),
               subCmds'[s] = subCmds[s], subs'[s] = subs[s],
               connMap'[s][u] = connMap[s][u]
        PROVE  WillHear(s, u)' <=> connMap'[s][u] # NoConn
    BY <1>1 DEF QueueInv, WillHear
  <1>2. CASE Quiet
    BY <1>1, <1>2 DEF Quiet, Writing
  <1>3. ASSUME NEW c \in Conns, NEW v \in Users,
               NEW op \in {"SUBSCRIBE", "UNSUBSCRIBE"}, WritesCmd(c, v, op)
        PROVE  WillHear(s, u)' <=> connMap'[s][u] # NoConn
    <2>1. linked[s]
      BY <1>3 DEF WritesCmd, WriteCmd
    <2>2. ASSUME ~(ServerOf[c] = s /\ v = u)
          PROVE  ~Writing(s, u)
      <3>1. ASSUME NEW d \in Conns, ServerOf[d] = s, At(d, u, WriteSteps)
            PROVE  FALSE
        <4>1. d # c
          BY <1>3, <2>2, <3>1 DEF WritesCmd, At
        <4>2. At(d, u, WriteSteps)'
          BY <1>3, <3>1, <4>1 DEF WritesCmd, At
        <4> QED BY <3>1, <4>2 DEF Writing
      <3> QED BY <3>1 DEF Writing
    <2>3. CASE ServerOf[c] # s
      BY <1>0, <1>1, <1>3, <2>1, <2>2, <2>3, WriteOthers DEF WritesCmd
    <2>4. CASE ServerOf[c] = s /\ v # u
      <3>1. WillHear(s, u)' <=> WillHear(s, u)
        BY <1>0, <1>3, <2>1, <2>4, WriteLeads DEF WritesCmd
      <3> QED BY <1>3, <2>1, <2>2, <2>4, <3>1 DEF WritesCmd, QueueInv
    <2>5. CASE ServerOf[c] = s /\ v = u
      <3>1. WillHear(s, u)' <=> op = "SUBSCRIBE"
        BY <1>0, <1>3, <2>1, <2>5, WriteLeads DEF WritesCmd
      <3>2. connMap[s][u] # NoConn <=> op = "SUBSCRIBE"
        BY <1>3, <2>5, WriterKnows DEF WritesCmd
      <3> QED BY <1>3, <3>1, <3>2 DEF WritesCmd
    <2> QED BY <2>3, <2>4, <2>5
  <1>4. ASSUME NEW c \in Conns, NEW v \in Users, Rewrites(c, v)
        PROVE  WillHear(s, u)' <=> connMap'[s][u] # NoConn
    <2>1. ~(ServerOf[c] = s /\ v = u)
      BY <1>4 DEF Rewrites, Writing
    <2>2. ~Writing(s, u)
      <3>1. ASSUME NEW d \in Conns, ServerOf[d] = s, At(d, u, WriteSteps)
            PROVE  FALSE
        <4>1. d # c
          BY <1>4, <3>1 DEF Rewrites, At
        <4>2. At(d, u, WriteSteps)'
          BY <1>4, <3>1, <4>1 DEF Rewrites, At
        <4> QED BY <3>1, <4>2 DEF Writing
      <3> QED BY <3>1 DEF Writing
    <2> QED BY <1>1, <1>4, <2>1, <2>2 DEF Rewrites
  <1>5. ASSUME NEW t \in Servers, Executes(t)
        PROVE  WillHear(s, u)' <=> connMap'[s][u] # NoConn
    <2>1. WillHear(s, u)' <=> WillHear(s, u)
      BY <1>0, <1>5, ServeLeads DEF Executes
    <2>2. linked[s] /\ ~Writing(s, u)
      BY <1>5 DEF Executes, RedisServe, Writing, At
    <2> QED BY <1>5, <2>1, <2>2 DEF Executes, QueueInv
  <1>6. ASSUME NEW t \in Servers, Unlinks(t)
        PROVE  WillHear(s, u)' <=> connMap'[s][u] # NoConn
    <2>1. s # t
      BY <1>6 DEF Unlinks
    <2>2. ~Writing(s, u)
      BY <1>6, <2>1 DEF Unlinks, Writing, At
    <2> QED BY <1>1, <1>6, <2>1, <2>2 DEF Unlinks
  <1>7. ASSUME NEW t \in Servers, Begins(t)
        PROVE  WillHear(s, u)' <=> connMap'[s][u] # NoConn
    <2>1. ~Writing(s, u)
      BY <1>7 DEF Begins, Writing, At
    <2>2. CASE s # t
      BY <1>1, <1>7, <2>1, <2>2 DEF Begins
    <2>3. CASE s = t
      <3>1. ~WillHear(s, u)'
        BY <1>7, <2>3 DEF Begins, WillHear, After
      <3> QED BY <1>7, <2>3, <3>1 DEF Begins
    <2> QED BY <2>2, <2>3
  <1> QED BY <1>2, <1>3, <1>4, <1>5, <1>6, <1>7 DEF BusStep

\* Nothing is written for, or pushed to, a connection that is gone.
LEMMA LinkMove ==
  ASSUME SafeInv, LinkInv, UNCHANGED <<linked, proc>>,
         \/ UNCHANGED <<subCmds, subs, inbox>>
         \/ \E s \in Servers, u \in Users, op \in {"SUBSCRIBE", "UNSUBSCRIBE"} :
              WriteCmd(s, op, u)
         \/ \E u \in Users, m \in Msgs : publish(u, m)
         \/ \E s \in Servers : RedisServe(s),
         \A c \in Conns : proc[ServerOf[c]] = "down" /\ client[c].mode = "down"
                            => client'[c].mode = "down"
  PROVE  LinkInv'
  <1> USE DEF LinkInv, SafeInv, TypeInv, BusTypeOK
  <1>1. CASE UNCHANGED <<subCmds, subs, inbox>>
    BY <1>1
  <1>2. ASSUME NEW s \in Servers, NEW u \in Users, NEW op, WriteCmd(s, op, u)
        PROVE  LinkInv'
    BY <1>2 DEF WriteCmd
  <1>3. ASSUME NEW u \in Users, NEW m \in Msgs, publish(u, m)
        PROVE  LinkInv'
    BY <1>3 DEF publish
  <1>4. ASSUME NEW s \in Servers, RedisServe(s)
        PROVE  LinkInv'
    BY <1>4 DEF RedisServe
  <1> QED BY <1>1, <1>2, <1>3, <1>4

LEMMA LinkStep ==
  ASSUME SafeInv, LinkInv, [Next]_vars
  PROVE  LinkInv'
  <1> USE DEF SafeInv, TypeInv
  <1> USE ServerOfAssumption, SentinelAssumption
  <1>1. ASSUME NEW c \in Conns, Connect(c)
         PROVE  LinkInv'
    BY <1>1, LinkMove DEF Connect, busVars, procVars, ClientInv, Client
  <1>2. ASSUME NEW c \in Conns, Hangup(c)
         PROVE  LinkInv'
    BY <1>2, LinkMove DEF Hangup, busVars, procVars, ClientInv, Client, Open
  <1>3. ASSUME NEW c \in Conns, NEW g \in Groups, AddGroup(c, g)
         PROVE  LinkInv'
    BY <1>3, LinkMove DEF AddGroup, busVars, procVars
  <1>4. ASSUME NEW c \in Conns, NEW u \in Users, LoginQuery(c, u)
         PROVE  LinkInv'
    BY <1>4, LinkMove DEF LoginQuery, busVars, procVars
  <1>5. ASSUME NEW c \in Conns, LoginInsert(c)
         PROVE  LinkInv'
    BY <1>5, LinkMove DEF LoginInsert, busVars, procVars
  <1>6. ASSUME NEW c \in Conns, LoginOnline(c)
         PROVE  LinkInv'
    BY <1>6, LinkMove DEF LoginOnline, busVars, procVars
  <1>7. ASSUME NEW c \in Conns, LoginReadOffline(c)
         PROVE  LinkInv'
    BY <1>7, LinkMove DEF LoginReadOffline, busVars, procVars
  <1>8. ASSUME NEW c \in Conns, LoginRemoveOffline(c)
         PROVE  LinkInv'
    BY <1>8, LinkMove DEF LoginRemoveOffline, busVars, procVars
  <1>9. ASSUME NEW c \in Conns, LogoutOffline(c)
         PROVE  LinkInv'
    BY <1>9, LinkMove DEF LogoutOffline, busVars, procVars
  <1>10. ASSUME NEW c \in Conns, ChatSend(c)
         PROVE  LinkInv'
    BY <1>10, LinkMove DEF ChatSend, busVars, procVars
  <1>11. ASSUME NEW c \in Conns, ChatQuery(c)
         PROVE  LinkInv'
    BY <1>11, LinkMove DEF ChatQuery, busVars, procVars
  <1>12. ASSUME NEW c \in Conns, ChatStore(c)
         PROVE  LinkInv'
    BY <1>12, LinkMove DEF ChatStore, busVars, procVars
  <1>13. ASSUME NEW c \in Conns, GroupLock(c)
         PROVE  LinkInv'
    BY <1>13, LinkMove DEF GroupLock, busVars, procVars
  <1>14. ASSUME NEW c \in Conns, GroupDone(c)
         PROVE  LinkInv'
    BY <1>14, LinkMove DEF GroupDone, busVars, procVars
  <1>15. ASSUME NEW c \in Conns, GroupStore(c)
         PROVE  LinkInv'
    BY <1>15, LinkMove DEF GroupStore, busVars, procVars
  <1>16. ASSUME NEW c \in Conns, LoginAck(c)
         PROVE  LinkInv'
    BY <1>16, LinkMove DEF LoginAck, busVars, procVars, Open, ClientInv, Client
  <1>17. ASSUME NEW c \in Conns, LogoutErase(c)
         PROVE  LinkInv'
    BY <1>17, LinkMove DEF LogoutErase, busVars, procVars, Commands, ClientInv, Client
  <1>18. ASSUME NEW c \in Conns, CloseErase(c)
         PROVE  LinkInv'
    BY <1>18, LinkMove DEF CloseErase, busVars, procVars, ClientInv, Client, NoClient
  <1>19. ASSUME NEW c \in Conns, CloseOffline(c)
         PROVE  LinkInv'
    BY <1>19, LinkMove DEF CloseOffline, busVars, procVars, ClientInv, Client, NoClient
  <1>20. ASSUME NEW c \in Conns, LoginSubscribe(c)
         PROVE  LinkInv'
    <2>1. job[c].id \in Users
      BY <1>20 DEF LoginSubscribe, JobInv, JobFits
    <2> QED BY <1>20, <2>1, LinkMove DEF LoginSubscribe, subscribe, WriteCmd, procVars
  <1>21. ASSUME NEW c \in Conns, LogoutUnsubscribe(c)
         PROVE  LinkInv'
    <2>1. job[c].id \in Users
      BY <1>21 DEF LogoutUnsubscribe, JobInv, JobFits
    <2> QED BY <1>21, <2>1, LinkMove DEF LogoutUnsubscribe, unsubscribe, WriteCmd, procVars
  <1>22. ASSUME NEW c \in Conns, CloseUnsubscribe(c)
         PROVE  LinkInv'
    <2>1. job[c].id \in Users
      BY <1>22 DEF CloseUnsubscribe, JobInv, JobFits
    <2> QED BY <1>22, <2>1, LinkMove DEF CloseUnsubscribe, unsubscribe, WriteCmd, procVars
  <1>23. ASSUME NEW c \in Conns, ChatPublish(c)
         PROVE  LinkInv'
    <2>1. job[c].id \in Users /\ job[c].msg \in Msgs
      BY <1>23 DEF ChatPublish, JobInv, JobFits, ChatSteps, GroupSteps
    <2> QED BY <1>23, <2>1, LinkMove DEF ChatPublish, publish, procVars
  <1>24. ASSUME NEW c \in Conns, GroupPublish(c)
         PROVE  LinkInv'
    <2>1. job[c].id \in Users /\ job[c].msg \in Msgs
      BY <1>24 DEF GroupPublish, JobInv, JobFits, ChatSteps, GroupSteps
    <2> QED BY <1>24, <2>1, LinkMove DEF GroupPublish, publish, procVars
  <1>25. ASSUME NEW c \in Conns, NEW u \in Users, GroupSend(c, u)
         PROVE  LinkInv'
    BY <1>25, LinkMove DEF GroupSend, busVars, procVars
  <1>26. ASSUME NEW c \in Conns, NEW u \in Users, GroupRoute(c, u)
         PROVE  LinkInv'
    BY <1>26, LinkMove DEF GroupRoute, busVars, procVars
  <1>27. ASSUME NEW c \in Conns, NEW m \in Msgs, NEW d \in Users, ChatFind(c, m, d)
         PROVE  LinkInv'
    BY <1>27, LinkMove DEF ChatFind, busVars, procVars
  <1>28. ASSUME NEW c \in Conns, NEW m \in Msgs, NEW g \in Groups, GroupQuery(c, m, g)
         PROVE  LinkInv'
    BY <1>28, LinkMove DEF GroupQuery, busVars, procVars
  <1>29. ASSUME NEW s \in Servers, Serve(s)
         PROVE  LinkInv'
    BY <1>29, LinkMove DEF Serve, busVars, procVars, RedisServe
  <1>30. ASSUME NEW s \in Servers, ObserverFind(s)
         PROVE  LinkInv'
    BY <1>30, LinkMove DEF ObserverFind, busVars, procVars, LinkInv, CanNotify, BusTypeOK
  <1>31. ASSUME NEW s \in Servers, ObserverSend(s)
         PROVE  LinkInv'
    BY <1>31, LinkMove DEF ObserverSend, busVars, procVars
  <1>32. ASSUME NEW s \in Servers, ObserverStore(s)
         PROVE  LinkInv'
    BY <1>32, LinkMove DEF ObserverStore, busVars, procVars
  <1>33. ASSUME NEW s \in Servers, Quits(s)
         PROVE  LinkInv'
    BY <1>33, LinkMove DEF Quits, busVars, procVars, LinkInv, ObserverQuits, Unlink, BusTypeOK
  <1>34. ASSUME NEW s \in Servers, SigInt(s)
         PROVE  LinkInv'
    BY <1>34, LinkMove DEF SigInt, busVars, procVars, LinkInv, ProcInv, BusTypeOK
  <1>35. ASSUME NEW s \in Servers, Vanish(s)
         PROVE  LinkInv'
    BY <1>35, LinkMove DEF Vanish, busVars, procVars, Unlink, LinkInv, ProcInv, BusTypeOK, NoClient
  <1>36. ASSUME NEW s \in Servers, Restart(s)
         PROVE  LinkInv'
    BY <1>36, LinkMove DEF Restart, busVars, procVars, LinkInv, ProcInv, BusTypeOK
  <1>37. CASE UNCHANGED vars
    BY <1>37, LinkMove DEF vars, busVars, procVars
  <1> QED
    BY <1>1, <1>2, <1>3, <1>4, <1>5, <1>6, <1>7, <1>8, <1>9, <1>10, <1>11, <1>12, <1>13, <1>14, <1>15, <1>16, <1>17, <1>18, <1>19, <1>20, <1>21, <1>22, <1>23, <1>24, <1>25, <1>26, <1>27, <1>28, <1>29, <1>30, <1>31, <1>32, <1>33, <1>34, <1>35, <1>36, <1>37
    DEF Next, Handler, ClientCommand, ObserverLoop, Process, ProcessExit, Crash

LEMMA InitBus == Init => BusInv
  <1> SUFFICES ASSUME Init PROVE BusInv
    OBVIOUS
  <1>1. QueueInv
    BY DEF Init, BusInit, QueueInv, WillHear, After
  <1>2. LinkInv
    BY ServerOfAssumption DEF Init, BusInit, LinkInv
  <1> QED BY <1>1, <1>2 DEF BusInv

LEMMA BusInvariant == ASSUME Orderly PROVE Spec => []BusInv
  <1>1. SafeInv /\ SingleInv /\ BusInv /\ [Next]_vars => BusInv'
    BY BusStepKinds, QueueStep, LinkStep DEF BusInv
  <1> QED BY <1>1, InitBus, SafeInvariant, SingleInvariant, PTL DEF Spec

\* SubscriptionFollowsSession, for every instance, with crashes, restarts and
\* observers that lose their connection: once Redis has executed what a server
\* wrote, it pushes to that server for a user exactly if its map has the user.
THEOREM SubscriptionCorrect == ASSUME Orderly PROVE Spec => []SubscriptionFollowsSession
  <1>1. BusInv => SubscriptionFollowsSession
    <2> SUFFICES ASSUME BusInv, NEW s \in Servers, NEW u \in Users, linked[s],
                        subCmds[s] = <<>>,
                        \A c \in Conns : ServerOf[c] = s => job[c].id # u
                 PROVE  u \in subs[s] <=> connMap[s][u] # NoConn
      BY DEF SubscriptionFollowsSession
    <2>1. ~Writing(s, u)
      BY DEF Writing, At
    <2>2. WillHear(s, u) <=> u \in subs[s]
      BY DEF WillHear, After
    <2> QED BY <2>1, <2>2 DEF BusInv, QueueInv
  <1> QED BY <1>1, BusInvariant, PTL

-----------------------------------------------------------------------------
(* Texts: in a handler, on the bus, in the offline messages a login has read *)

\* Only a text that some command has sent is on its way.
PostedInv ==
    /\ \A c \in Conns : job[c].msg \in posted \cup {NoMsg}
    /\ \A s \in Servers : observer[s].msg \in posted \cup {NoMsg}
    /\ \A s \in Servers : \A i \in 1 .. Len(inbox[s]) : inbox[s][i].msg \in posted

\* The steps before which a login holds offline messages it has read.
Reading == {"login_remove", "login_ack"}

\* Nobody else holds any, and a client that is not logged in has no user yet.
BatchInv ==
    /\ \A c \in Conns : job[c].at \notin Reading => job[c].batch = NoRows
    /\ \A c \in Conns :
         client[c].mode \in {"down", "fresh"} \/ job[c].at \in LoginSteps
           => client[c].user = NoUser

LEMMA PostedMove ==
  ASSUME PostedInv, NEW c \in Conns, posted \subseteq posted',
         job'[c].msg \in posted' \cup {NoMsg},
         \A d \in Conns \ {c} : job'[d] = job[d],
         UNCHANGED <<observer, inbox>>
  PROVE  PostedInv'
  BY DEF PostedInv

\* A text that is published was in the handler that publishes it.
LEMMA PostedPublish ==
  ASSUME PostedInv, BusTypeOK, NEW c \in Conns, NEW u \in Users, NEW m \in Msgs,
         m \in posted, publish(u, m), UNCHANGED <<posted, observer>>,
         \A d \in Conns : job'[d].msg \in {job[d].msg, NoMsg}
  PROVE  PostedInv'
  <1>1. ASSUME NEW s \in Servers, NEW i \in 1 .. Len(inbox'[s])
        PROVE  inbox'[s][i].msg \in posted
    <2> DEFINE push == [chan |-> u, msg |-> m]
    <2>1. inbox'[s] \in {inbox[s], Append(inbox[s], push)}
      BY DEF publish
    <2>2. inbox[s] \in Seq(Push) /\ push \in Push /\ push.msg = m
      BY DEF BusTypeOK, Push
    <2> HIDE DEF push
    <2>3. CASE inbox'[s] = inbox[s]
      BY <1>1, <2>3 DEF PostedInv
    <2>4. CASE inbox'[s] = Append(inbox[s], push)
      <3>1. i \in 1 .. Len(inbox[s]) \/ i = Len(inbox[s]) + 1
        BY <1>1, <2>2, <2>4, AppendProperties, LenProperties
      <3> QED BY <2>2, <2>4, <3>1, AppendProperties DEF PostedInv
    <2> QED BY <2>1, <2>3, <2>4
  <1> QED BY <1>1 DEF PostedInv

LEMMA PostedStep ==
  ASSUME TypeInv, PostedInv, [Next]_vars
  PROVE  PostedInv'
  <1> USE DEF TypeInv
  <1>1. ASSUME NEW c \in Conns, Connect(c)
        PROVE  PostedInv'
    BY <1>1 DEF Connect, busVars, chatVars, PostedInv
  <1>2. ASSUME NEW c \in Conns, Hangup(c)
        PROVE  PostedInv'
    BY <1>2 DEF Hangup, busVars, chatVars, PostedInv
  <1>3. ASSUME NEW c \in Conns, NEW g \in Groups, AddGroup(c, g)
        PROVE  PostedInv'
    BY <1>3 DEF AddGroup, addGroupRow, busVars, chatVars, PostedInv
  <1>4. ASSUME NEW c \in Conns, NEW u \in Users, LoginQuery(c, u)
        PROVE  PostedInv'
    <2>1. CASE UNCHANGED job
      BY <1>4, <2>1 DEF LoginQuery, busVars, chatVars, PostedInv
    <2>2. CASE ~UNCHANGED job
      <3>1. job' = [job EXCEPT ![c] = [Idle EXCEPT !.at = "login_insert", !.id = u]]
        BY <1>4, <2>2 DEF LoginQuery
      <3>2. job'[c].msg = NoMsg /\ \A d \in Conns \ {c} : job'[d] = job[d]
        BY <3>1 DEF Idle, JobInv
      <3> QED BY <1>4, <3>2, PostedMove DEF LoginQuery, busVars, chatVars
    <2> QED BY <2>1, <2>2
  <1>5. ASSUME NEW c \in Conns, LoginInsert(c)
        PROVE  PostedInv'
    BY <1>5, PostedMove
    DEF LoginInsert, busVars, chatVars, PostedInv, JobInv, Job, Goto,
        Return, Idle
  <1>6. ASSUME NEW c \in Conns, LoginSubscribe(c)
        PROVE  PostedInv'
    BY <1>6, PostedMove
    DEF LoginSubscribe, subscribe, WriteCmd, busVars, chatVars, PostedInv,
        JobInv, Job, Goto, Return, Idle
  <1>7. ASSUME NEW c \in Conns, LoginOnline(c)
        PROVE  PostedInv'
    BY <1>7, PostedMove
    DEF LoginOnline, updateState, busVars, chatVars, PostedInv, JobInv, Job,
        Goto, Return, Idle
  <1>8. ASSUME NEW c \in Conns, LoginReadOffline(c)
        PROVE  PostedInv'
    BY <1>8, PostedMove
    DEF LoginReadOffline, busVars, chatVars, PostedInv, JobInv, Job, Goto,
        Return, Idle
  <1>9. ASSUME NEW c \in Conns, LoginRemoveOffline(c)
        PROVE  PostedInv'
    BY <1>9, PostedMove
    DEF LoginRemoveOffline, removeOffline, busVars, chatVars, PostedInv,
        JobInv, Job, Goto, Return, Idle
  <1>10. ASSUME NEW c \in Conns, LoginAck(c)
        PROVE  PostedInv'
    BY <1>10, PostedMove
    DEF LoginAck, busVars, chatVars, PostedInv, JobInv, Job, Goto, Return,
        Idle
  <1>11. ASSUME NEW c \in Conns, LogoutErase(c)
        PROVE  PostedInv'
    BY <1>11, PostedMove
    DEF LogoutErase, Commands, busVars, chatVars, PostedInv, JobInv, Job,
        Goto, Return, Idle
  <1>12. ASSUME NEW c \in Conns, LogoutUnsubscribe(c)
        PROVE  PostedInv'
    BY <1>12, PostedMove
    DEF LogoutUnsubscribe, unsubscribe, WriteCmd, busVars, chatVars,
        PostedInv, JobInv, Job, Goto, Return, Idle
  <1>13. ASSUME NEW c \in Conns, LogoutOffline(c)
        PROVE  PostedInv'
    BY <1>13, PostedMove
    DEF LogoutOffline, updateState, busVars, chatVars, PostedInv, JobInv,
        Job, Goto, Return, Idle
  <1>14. ASSUME NEW c \in Conns, CloseErase(c)
        PROVE  PostedInv'
    <2>1. CASE EntriesOf(c) = {}
      BY <1>14, <2>1 DEF CloseErase, busVars, chatVars, PostedInv
    <2>2. CASE EntriesOf(c) # {}
      <3>1. PICK u \in EntriesOf(c) :
              job' = [job EXCEPT ![c] = [Idle EXCEPT !.at = "close_unsubscribe",
                                                     !.id = u]]
        BY <1>14, <2>2 DEF CloseErase
      <3> QED
        BY <1>14, <3>1, PostedMove DEF CloseErase, busVars, chatVars, Idle, JobInv
    <2> QED BY <2>1, <2>2
  <1>15. ASSUME NEW c \in Conns, CloseUnsubscribe(c)
        PROVE  PostedInv'
    BY <1>15, PostedMove
    DEF CloseUnsubscribe, unsubscribe, WriteCmd, busVars, chatVars,
        PostedInv, JobInv, Job, Goto, Return, Idle
  <1>16. ASSUME NEW c \in Conns, CloseOffline(c)
        PROVE  PostedInv'
    BY <1>16, PostedMove
    DEF CloseOffline, updateState, NoClient, busVars, chatVars, PostedInv,
        JobInv, Job, Goto, Return, Idle
  <1>17. ASSUME NEW c \in Conns, NEW m \in Msgs, NEW d \in Users, ChatFind(c, m, d)
        PROVE  PostedInv'
    <2>1. job'[c].msg = m /\ \A e \in Conns \ {c} : job'[e] = job[e]
      BY <1>17 DEF ChatFind, Idle, JobInv
    <2>2. posted' = posted \cup {m}
      BY <1>17 DEF ChatFind
    <2> QED BY <1>17, <2>1, <2>2, PostedMove DEF ChatFind, busVars
  <1>18. ASSUME NEW c \in Conns, ChatSend(c)
        PROVE  PostedInv'
    BY <1>18, PostedMove
    DEF ChatSend, busVars, chatVars, PostedInv, JobInv, Job, Goto, Return,
        Idle
  <1>19. ASSUME NEW c \in Conns, ChatQuery(c)
        PROVE  PostedInv'
    BY <1>19, PostedMove
    DEF ChatQuery, Route, busVars, chatVars, PostedInv, JobInv, Job, Goto,
        Return, Idle
  <1>20. ASSUME NEW c \in Conns, ChatPublish(c)
        PROVE  PostedInv'
    <2>1. job[c].id \in Users /\ job[c].msg \in Msgs /\ job[c].msg # NoMsg
      BY <1>20, SentinelAssumption DEF ChatPublish, JobInv, JobFits, ChatSteps, GroupSteps
    <2>2. \A d \in Conns : job'[d].msg \in {job[d].msg, NoMsg}
      BY <1>20 DEF ChatPublish, Return, Goto, Idle, JobInv, Job
    <2>3. job[c].msg \in posted
      BY <2>1 DEF PostedInv
    <2> QED BY <1>20, <2>1, <2>2, <2>3, PostedPublish DEF ChatPublish, chatVars
  <1>21. ASSUME NEW c \in Conns, ChatStore(c)
        PROVE  PostedInv'
    BY <1>21, PostedMove
    DEF ChatStore, insertOffline, busVars, chatVars, PostedInv, JobInv, Job,
        Goto, Return, Idle
  <1>22. ASSUME NEW c \in Conns, NEW m \in Msgs, NEW g \in Groups, GroupQuery(c, m, g)
        PROVE  PostedInv'
    BY <1>22, PostedMove
    DEF GroupQuery, Commands, busVars, chatVars, PostedInv, JobInv, Job,
        Goto, Return, Idle
  <1>23. ASSUME NEW c \in Conns, GroupLock(c)
        PROVE  PostedInv'
    BY <1>23, PostedMove
    DEF GroupLock, busVars, chatVars, PostedInv, JobInv, Job, Goto, Return,
        Idle
  <1>24. ASSUME NEW c \in Conns, GroupDone(c)
        PROVE  PostedInv'
    BY <1>24, PostedMove
    DEF GroupDone, busVars, chatVars, PostedInv, JobInv, Job, Goto, Return,
        Idle
  <1>25. ASSUME NEW c \in Conns, GroupPublish(c)
        PROVE  PostedInv'
    <2>1. job[c].id \in Users /\ job[c].msg \in Msgs /\ job[c].msg # NoMsg
      BY <1>25, SentinelAssumption DEF GroupPublish, JobInv, JobFits, ChatSteps, GroupSteps
    <2>2. \A d \in Conns : job'[d].msg \in {job[d].msg, NoMsg}
      BY <1>25 DEF GroupPublish, Return, Goto, Idle, JobInv, Job
    <2>3. job[c].msg \in posted
      BY <2>1 DEF PostedInv
    <2> QED BY <1>25, <2>1, <2>2, <2>3, PostedPublish DEF GroupPublish, chatVars
  <1>26. ASSUME NEW c \in Conns, GroupStore(c)
        PROVE  PostedInv'
    BY <1>26, PostedMove
    DEF GroupStore, insertOffline, busVars, chatVars, PostedInv, JobInv,
        Job, Goto, Return, Idle
  <1>27. ASSUME NEW c \in Conns, NEW u \in Users, GroupSend(c, u)
        PROVE  PostedInv'
    BY <1>27, PostedMove
    DEF GroupSend, busVars, chatVars, PostedInv, JobInv, Job, Goto, Return,
        Idle
  <1>28. ASSUME NEW c \in Conns, NEW u \in Users, GroupRoute(c, u)
        PROVE  PostedInv'
    BY <1>28, PostedMove
    DEF GroupRoute, Route, busVars, chatVars, PostedInv, JobInv, Job, Goto,
        Return, Idle
  <1>29. ASSUME NEW s \in Servers, Serve(s)
        PROVE  PostedInv'
    BY <1>29 DEF Serve, RedisServe, busVars, chatVars, PostedInv
  <1>30. ASSUME NEW s \in Servers, ObserverFind(s)
        PROVE  PostedInv'
    <2>1. inbox[s] \in Seq(Push) /\ inbox[s] # <<>> /\ inbox'[s] = Tail(inbox[s])
      BY <1>30 DEF ObserverFind, CanNotify, BusTypeOK
    <2>2. Len(inbox[s]) \in Nat \ {0} /\ Head(inbox[s]) = inbox[s][1]
      BY <2>1, EmptySeq, LenProperties
    <2>3. \A i \in 1 .. Len(inbox'[s]) : inbox'[s][i].msg \in posted
      BY <2>1, <2>2, HeadTailProperties DEF PostedInv
    <2>4. Head(inbox[s]).msg \in posted
      BY <2>2 DEF PostedInv
    <2>5. observer'[s].msg = Head(inbox[s]).msg
      BY <1>30 DEF ObserverFind, ObserverInv
    <2> QED
      BY <1>30, <2>3, <2>4, <2>5
      DEF ObserverFind, PostedInv, ObserverInv, BusTypeOK, chatVars
  <1>31. ASSUME NEW s \in Servers, ObserverSend(s)
        PROVE  PostedInv'
    BY <1>31 DEF ObserverSend, busVars, Asleep, PostedInv, ObserverInv, chatVars
  <1>32. ASSUME NEW s \in Servers, ObserverStore(s)
        PROVE  PostedInv'
    BY <1>32
    DEF ObserverStore, insertOffline, busVars, Asleep, PostedInv,
        ObserverInv, chatVars
  <1>33. ASSUME NEW s \in Servers, Quits(s)
        PROVE  PostedInv'
    BY <1>33 DEF Quits, ObserverQuits, Unlink, PostedInv, BusTypeOK, chatVars
  <1>34. ASSUME NEW s \in Servers, SigInt(s)
        PROVE  PostedInv'
    BY <1>34 DEF SigInt, resetState, busVars, chatVars, PostedInv
  <1>35. ASSUME NEW s \in Servers, Vanish(s)
        PROVE  PostedInv'
    BY <1>35
    DEF Vanish, Unlink, NoClient, PostedInv, BusTypeOK, chatVars, Idle,
        Asleep, ObserverInv, JobInv
  <1>36. ASSUME NEW s \in Servers, Restart(s)
        PROVE  PostedInv'
    BY <1>36 DEF Restart, busVars, chatVars, PostedInv
  <1>37. CASE UNCHANGED vars
    BY <1>37 DEF vars, busVars, chatVars, PostedInv
  <1> QED
    BY <1>1, <1>2, <1>3, <1>4, <1>5, <1>6, <1>7, <1>8, <1>9, <1>10, <1>11,
       <1>12, <1>13, <1>14, <1>15, <1>16, <1>17, <1>18, <1>19, <1>20, <1>21,
       <1>22, <1>23, <1>24, <1>25, <1>26, <1>27, <1>28, <1>29, <1>30, <1>31,
       <1>32, <1>33, <1>34, <1>35, <1>36, <1>37
    DEF Next, Handler, ClientCommand, ObserverLoop, Process, ProcessExit, Crash

\* A text that was sent stays so.
LEMMA PostedGrows ==
  ASSUME [Next]_vars
  PROVE  posted \subseteq posted'
  <1>1. ASSUME NEW c \in Conns, Connect(c)
        PROVE  posted \subseteq posted'
    BY <1>1 DEF Connect, chatVars
  <1>2. ASSUME NEW c \in Conns, Hangup(c)
        PROVE  posted \subseteq posted'
    BY <1>2 DEF Hangup, chatVars
  <1>3. ASSUME NEW c \in Conns, NEW g \in Groups, AddGroup(c, g)
        PROVE  posted \subseteq posted'
    BY <1>3 DEF AddGroup, addGroupRow, chatVars
  <1>4. ASSUME NEW c \in Conns, NEW u \in Users, LoginQuery(c, u)
        PROVE  posted \subseteq posted'
    BY <1>4 DEF LoginQuery, chatVars
  <1>5. ASSUME NEW c \in Conns, LoginInsert(c)
        PROVE  posted \subseteq posted'
    BY <1>5 DEF LoginInsert, chatVars
  <1>6. ASSUME NEW c \in Conns, LoginSubscribe(c)
        PROVE  posted \subseteq posted'
    BY <1>6 DEF LoginSubscribe, subscribe, WriteCmd, chatVars
  <1>7. ASSUME NEW c \in Conns, LoginOnline(c)
        PROVE  posted \subseteq posted'
    BY <1>7 DEF LoginOnline, updateState, chatVars
  <1>8. ASSUME NEW c \in Conns, LoginReadOffline(c)
        PROVE  posted \subseteq posted'
    BY <1>8 DEF LoginReadOffline, chatVars
  <1>9. ASSUME NEW c \in Conns, LoginRemoveOffline(c)
        PROVE  posted \subseteq posted'
    BY <1>9 DEF LoginRemoveOffline, removeOffline, chatVars
  <1>10. ASSUME NEW c \in Conns, LoginAck(c)
        PROVE  posted \subseteq posted'
    BY <1>10 DEF LoginAck, chatVars
  <1>11. ASSUME NEW c \in Conns, LogoutErase(c)
        PROVE  posted \subseteq posted'
    BY <1>11 DEF LogoutErase, Commands, chatVars
  <1>12. ASSUME NEW c \in Conns, LogoutUnsubscribe(c)
        PROVE  posted \subseteq posted'
    BY <1>12 DEF LogoutUnsubscribe, unsubscribe, WriteCmd, chatVars
  <1>13. ASSUME NEW c \in Conns, LogoutOffline(c)
        PROVE  posted \subseteq posted'
    BY <1>13 DEF LogoutOffline, updateState, chatVars
  <1>14. ASSUME NEW c \in Conns, CloseErase(c)
        PROVE  posted \subseteq posted'
    BY <1>14 DEF CloseErase, NoClient, chatVars
  <1>15. ASSUME NEW c \in Conns, CloseUnsubscribe(c)
        PROVE  posted \subseteq posted'
    BY <1>15 DEF CloseUnsubscribe, unsubscribe, WriteCmd, chatVars
  <1>16. ASSUME NEW c \in Conns, CloseOffline(c)
        PROVE  posted \subseteq posted'
    BY <1>16 DEF CloseOffline, updateState, NoClient, chatVars
  <1>17. ASSUME NEW c \in Conns, NEW m \in Msgs, NEW d \in Users, ChatFind(c, m, d)
        PROVE  posted \subseteq posted'
    BY <1>17 DEF ChatFind, Commands, chatVars
  <1>18. ASSUME NEW c \in Conns, ChatSend(c)
        PROVE  posted \subseteq posted'
    BY <1>18 DEF ChatSend, chatVars
  <1>19. ASSUME NEW c \in Conns, ChatQuery(c)
        PROVE  posted \subseteq posted'
    BY <1>19 DEF ChatQuery, Route, chatVars
  <1>20. ASSUME NEW c \in Conns, ChatPublish(c)
        PROVE  posted \subseteq posted'
    BY <1>20 DEF ChatPublish, publish, chatVars
  <1>21. ASSUME NEW c \in Conns, ChatStore(c)
        PROVE  posted \subseteq posted'
    BY <1>21 DEF ChatStore, insertOffline, chatVars
  <1>22. ASSUME NEW c \in Conns, NEW m \in Msgs, NEW g \in Groups, GroupQuery(c, m, g)
        PROVE  posted \subseteq posted'
    BY <1>22 DEF GroupQuery, Commands, chatVars
  <1>23. ASSUME NEW c \in Conns, GroupLock(c)
        PROVE  posted \subseteq posted'
    BY <1>23 DEF GroupLock, chatVars
  <1>24. ASSUME NEW c \in Conns, GroupDone(c)
        PROVE  posted \subseteq posted'
    BY <1>24 DEF GroupDone, chatVars
  <1>25. ASSUME NEW c \in Conns, GroupPublish(c)
        PROVE  posted \subseteq posted'
    BY <1>25 DEF GroupPublish, publish, chatVars
  <1>26. ASSUME NEW c \in Conns, GroupStore(c)
        PROVE  posted \subseteq posted'
    BY <1>26 DEF GroupStore, insertOffline, chatVars
  <1>27. ASSUME NEW c \in Conns, NEW u \in Users, GroupSend(c, u)
        PROVE  posted \subseteq posted'
    BY <1>27 DEF GroupSend, chatVars
  <1>28. ASSUME NEW c \in Conns, NEW u \in Users, GroupRoute(c, u)
        PROVE  posted \subseteq posted'
    BY <1>28 DEF GroupRoute, Route, chatVars
  <1>29. ASSUME NEW s \in Servers, Serve(s)
        PROVE  posted \subseteq posted'
    BY <1>29 DEF Serve, RedisServe, chatVars
  <1>30. ASSUME NEW s \in Servers, ObserverFind(s)
        PROVE  posted \subseteq posted'
    BY <1>30 DEF ObserverFind, CanNotify, chatVars
  <1>31. ASSUME NEW s \in Servers, ObserverSend(s)
        PROVE  posted \subseteq posted'
    BY <1>31 DEF ObserverSend, chatVars
  <1>32. ASSUME NEW s \in Servers, ObserverStore(s)
        PROVE  posted \subseteq posted'
    BY <1>32 DEF ObserverStore, insertOffline, chatVars
  <1>33. ASSUME NEW s \in Servers, Quits(s)
        PROVE  posted \subseteq posted'
    BY <1>33 DEF Quits, ObserverQuits, Unlink, chatVars
  <1>34. ASSUME NEW s \in Servers, SigInt(s)
        PROVE  posted \subseteq posted'
    BY <1>34 DEF SigInt, resetState, chatVars
  <1>35. ASSUME NEW s \in Servers, Vanish(s)
        PROVE  posted \subseteq posted'
    BY <1>35 DEF Vanish, Unlink, NoClient, chatVars
  <1>36. ASSUME NEW s \in Servers, Restart(s)
        PROVE  posted \subseteq posted'
    BY <1>36 DEF Restart, chatVars
  <1>37. CASE UNCHANGED vars
    BY <1>37 DEF vars, chatVars
  <1> QED
    BY <1>1, <1>2, <1>3, <1>4, <1>5, <1>6, <1>7, <1>8, <1>9, <1>10, <1>11,
       <1>12, <1>13, <1>14, <1>15, <1>16, <1>17, <1>18, <1>19, <1>20, <1>21,
       <1>22, <1>23, <1>24, <1>25, <1>26, <1>27, <1>28, <1>29, <1>30, <1>31,
       <1>32, <1>33, <1>34, <1>35, <1>36, <1>37
    DEF Next, Handler, ClientCommand, ObserverLoop, Process, ProcessExit, Crash

\* What a step does to the batch and the user of a connection: it keeps them,
\* but for the answer that hands them over and for the end of the connection;
\* a batch begins as the rows of that moment.
BatchMoves(c) ==
    /\ job[c].at \in Reading =>
         \/ /\ job'[c].at \in Reading
            /\ job'[c].id = job[c].id
            /\ job'[c].batch = job[c].batch
         \/ LoginAck(c)
         \/ proc' # proc
    /\ job'[c].at = "login_remove" /\ job[c].at # "login_remove" =>
         job'[c].batch = offlineMsg[job'[c].id] /\ UNCHANGED offlineMsg
    /\ client[c].user \in Users =>
         client'[c].user = client[c].user \/ client'[c].mode = "down"

BatchFits(j, k) ==
    /\ j.at \notin Reading => j.batch = NoRows
    /\ k.mode \in {"down", "fresh"} \/ j.at \in LoginSteps => k.user = NoUser

BatchStep == BatchInv' /\ \A c \in Conns : BatchMoves(c)

LEMMA BatchMove ==
  ASSUME BatchInv, NEW c \in Conns, BatchFits(job'[c], client'[c]),
         BatchMoves(c), \A d \in Conns \ {c} : job'[d] = job[d] /\ client'[d] = client[d]
  PROVE  BatchStep
  BY DEF BatchInv, BatchFits, BatchMoves, BatchStep

\* A handler that is no login ends, or goes on without one.
LEMMA BatchCalm ==
  ASSUME BatchInv, NEW c \in Conns, UNCHANGED client,
         job[c].at \notin LoginSteps, job'[c].at \notin LoginSteps,
         job'[c].batch \in {job[c].batch, NoRows},
         \A d \in Conns \ {c} : job'[d] = job[d]
  PROVE  BatchStep
  BY BatchMove DEF BatchFits, BatchMoves, BatchInv, Reading, LoginSteps

LEMMA BatchStepKinds ==
  ASSUME SafeInv, BatchInv, [Next]_vars
  PROVE  BatchStep
  <1> USE SentinelAssumption DEF SafeInv, TypeInv
  <1>1. ASSUME NEW c \in Conns, Connect(c)
        PROVE  BatchStep
    BY <1>1, BatchMove
    DEF Connect, BatchFits, BatchMoves, Reading, LoginSteps, BatchInv,
        JobInv, Job, ClientInv, Client, Goto, Return, Idle, dbVars,
        SessionInv, ModeFits
  <1>2. ASSUME NEW c \in Conns, Hangup(c)
        PROVE  BatchStep
    BY <1>2, BatchMove
    DEF Hangup, BatchFits, BatchMoves, Reading, LoginSteps, BatchInv,
        JobInv, Job, ClientInv, Client, Goto, Return, Idle, dbVars,
        SessionInv, ModeFits, Open
  <1>3. ASSUME NEW c \in Conns, NEW g \in Groups, AddGroup(c, g)
        PROVE  BatchStep
    BY <1>3 DEF AddGroup, addGroupRow, BatchStep, BatchInv, BatchMoves, dbVars
  <1>4. ASSUME NEW c \in Conns, NEW u \in Users, LoginQuery(c, u)
        PROVE  BatchStep
    <2>1. CASE UNCHANGED job
      BY <1>4, <2>1 DEF LoginQuery, BatchStep, BatchInv, BatchMoves, dbVars
    <2>2. CASE ~UNCHANGED job
      <3>1. job' = [job EXCEPT ![c] = [Idle EXCEPT !.at = "login_insert", !.id = u]]
        BY <1>4, <2>2 DEF LoginQuery
      <3>2. /\ job'[c].at = "login_insert" /\ job'[c].batch = NoRows
            /\ \A d \in Conns \ {c} : job'[d] = job[d]
        BY <3>1 DEF Idle, JobInv
      <3>3. job[c].at = "idle" /\ client[c].mode = "fresh" /\ UNCHANGED client
        BY <1>4 DEF LoginQuery
      <3> QED
        BY <3>2, <3>3, BatchMove
        DEF BatchFits, BatchMoves, Reading, LoginSteps, BatchInv
    <2> QED BY <2>1, <2>2
  <1>5. ASSUME NEW c \in Conns, LoginInsert(c)
        PROVE  BatchStep
    BY <1>5, BatchMove
    DEF LoginInsert, BatchFits, BatchMoves, Reading, LoginSteps, BatchInv,
        JobInv, Job, ClientInv, Client, Goto, Return, Idle, dbVars,
        SessionInv, ModeFits
  <1>6. ASSUME NEW c \in Conns, LoginSubscribe(c)
        PROVE  BatchStep
    BY <1>6, BatchMove
    DEF LoginSubscribe, subscribe, WriteCmd, BatchFits, BatchMoves, Reading,
        LoginSteps, BatchInv, JobInv, Job, ClientInv, Client, Goto, Return,
        Idle, dbVars, SessionInv, ModeFits
  <1>7. ASSUME NEW c \in Conns, LoginOnline(c)
        PROVE  BatchStep
    BY <1>7, BatchMove
    DEF LoginOnline, updateState, BatchFits, BatchMoves, Reading,
        LoginSteps, BatchInv, JobInv, Job, ClientInv, Client, Goto, Return,
        Idle, dbVars, SessionInv, ModeFits
  <1>8. ASSUME NEW c \in Conns, LoginReadOffline(c)
        PROVE  BatchStep
    BY <1>8, BatchMove
    DEF LoginReadOffline, BatchFits, BatchMoves, Reading, LoginSteps,
        BatchInv, JobInv, Job, ClientInv, Client, Goto, Return, Idle,
        dbVars, SessionInv, ModeFits
  <1>9. ASSUME NEW c \in Conns, LoginRemoveOffline(c)
        PROVE  BatchStep
    BY <1>9, BatchMove
    DEF LoginRemoveOffline, removeOffline, BatchFits, BatchMoves, Reading,
        LoginSteps, BatchInv, JobInv, Job, ClientInv, Client, Goto, Return,
        Idle, dbVars, SessionInv, ModeFits
  <1>10. ASSUME NEW c \in Conns, LoginAck(c)
        PROVE  BatchStep
    BY <1>10, BatchMove
    DEF LoginAck, BatchFits, BatchMoves, Reading, LoginSteps, BatchInv,
        JobInv, Job, ClientInv, Client, Goto, Return, Idle, dbVars,
        SessionInv, ModeFits, Open
  <1>11. ASSUME NEW c \in Conns, LogoutErase(c)
        PROVE  BatchStep
    BY <1>11, BatchMove
    DEF LogoutErase, Commands, BatchFits, BatchMoves, Reading, LoginSteps,
        BatchInv, JobInv, Job, ClientInv, Client, Goto, Return, Idle,
        dbVars, SessionInv, ModeFits
  <1>12. ASSUME NEW c \in Conns, LogoutUnsubscribe(c)
        PROVE  BatchStep
    BY <1>12, BatchCalm
    DEF LogoutUnsubscribe, unsubscribe, WriteCmd, LoginSteps, BatchInv,
        Reading, JobInv, Job, Goto, Return, Idle
  <1>13. ASSUME NEW c \in Conns, LogoutOffline(c)
        PROVE  BatchStep
    BY <1>13, BatchCalm
    DEF LogoutOffline, updateState, LoginSteps, BatchInv, Reading, JobInv,
        Job, Goto, Return, Idle
  <1>14. ASSUME NEW c \in Conns, CloseErase(c)
        PROVE  BatchStep
    <2>1. CASE EntriesOf(c) = {}
      BY <1>14, <2>1, BatchMove
      DEF CloseErase, BatchFits, BatchMoves, Reading, LoginSteps, BatchInv, JobInv,
          Job, ClientInv, Client, NoClient, dbVars
    <2>2. CASE EntriesOf(c) # {}
      <3>1. PICK u \in EntriesOf(c) :
              /\ job' = [job EXCEPT ![c] = [Idle EXCEPT !.at = "close_unsubscribe",
                                                        !.id = u]]
              /\ client' = [client EXCEPT ![c].mode = "closing"]
        BY <1>14, <2>2 DEF CloseErase
      <3>2. /\ job'[c].at = "close_unsubscribe" /\ job'[c].batch = NoRows
            /\ client'[c].user = client[c].user /\ client'[c].mode = "closing"
            /\ \A d \in Conns \ {c} : job'[d] = job[d] /\ client'[d] = client[d]
        BY <3>1 DEF Idle, JobInv, ClientInv, Client
      <3> QED
        BY <1>14, <3>2, BatchMove
        DEF CloseErase, BatchFits, BatchMoves, Reading, LoginSteps
    <2> QED BY <2>1, <2>2
  <1>15. ASSUME NEW c \in Conns, CloseUnsubscribe(c)
        PROVE  BatchStep
    BY <1>15, BatchCalm
    DEF CloseUnsubscribe, unsubscribe, WriteCmd, LoginSteps, BatchInv,
        Reading, JobInv, Job, Goto, Return, Idle
  <1>16. ASSUME NEW c \in Conns, CloseOffline(c)
        PROVE  BatchStep
    BY <1>16, BatchMove
    DEF CloseOffline, updateState, NoClient, BatchFits, BatchMoves, Reading,
        LoginSteps, BatchInv, JobInv, Job, ClientInv, Client, Goto, Return,
        Idle, dbVars, SessionInv, ModeFits
  <1>17. ASSUME NEW c \in Conns, NEW m \in Msgs, NEW d \in Users, ChatFind(c, m, d)
        PROVE  BatchStep
    <2>1. /\ job'[c].at \in {"chat_send", "chat_query"} /\ job'[c].batch = NoRows
          /\ \A e \in Conns \ {c} : job'[e] = job[e]
      BY <1>17 DEF ChatFind, Idle, JobInv
    <2>2. job[c].at = "idle" /\ UNCHANGED client
      BY <1>17 DEF ChatFind, Commands
    <2> QED BY <2>1, <2>2, BatchCalm DEF LoginSteps
  <1>18. ASSUME NEW c \in Conns, ChatSend(c)
        PROVE  BatchStep
    BY <1>18, BatchCalm
    DEF ChatSend, LoginSteps, BatchInv, Reading, JobInv, Job, Goto, Return,
        Idle
  <1>19. ASSUME NEW c \in Conns, ChatQuery(c)
        PROVE  BatchStep
    BY <1>19, BatchCalm
    DEF ChatQuery, Route, LoginSteps, BatchInv, Reading, JobInv, Job, Goto,
        Return, Idle
  <1>20. ASSUME NEW c \in Conns, ChatPublish(c)
        PROVE  BatchStep
    BY <1>20, BatchCalm
    DEF ChatPublish, publish, LoginSteps, BatchInv, Reading, JobInv, Job,
        Goto, Return, Idle
  <1>21. ASSUME NEW c \in Conns, ChatStore(c)
        PROVE  BatchStep
    BY <1>21, BatchCalm
    DEF ChatStore, insertOffline, LoginSteps, BatchInv, Reading, JobInv,
        Job, Goto, Return, Idle
  <1>22. ASSUME NEW c \in Conns, NEW m \in Msgs, NEW g \in Groups, GroupQuery(c, m, g)
        PROVE  BatchStep
    BY <1>22, BatchCalm
    DEF GroupQuery, Commands, LoginSteps, BatchInv, Reading, JobInv, Job,
        Goto, Return, Idle
  <1>23. ASSUME NEW c \in Conns, GroupLock(c)
        PROVE  BatchStep
    BY <1>23, BatchCalm
    DEF GroupLock, LoginSteps, BatchInv, Reading, JobInv, Job, Goto, Return,
        Idle
  <1>24. ASSUME NEW c \in Conns, GroupDone(c)
        PROVE  BatchStep
    BY <1>24, BatchCalm
    DEF GroupDone, LoginSteps, BatchInv, Reading, JobInv, Job, Goto, Return,
        Idle
  <1>25. ASSUME NEW c \in Conns, GroupPublish(c)
        PROVE  BatchStep
    BY <1>25, BatchCalm
    DEF GroupPublish, publish, LoginSteps, BatchInv, Reading, JobInv, Job,
        Goto, Return, Idle
  <1>26. ASSUME NEW c \in Conns, GroupStore(c)
        PROVE  BatchStep
    BY <1>26, BatchCalm
    DEF GroupStore, insertOffline, LoginSteps, BatchInv, Reading, JobInv,
        Job, Goto, Return, Idle
  <1>27. ASSUME NEW c \in Conns, NEW u \in Users, GroupSend(c, u)
        PROVE  BatchStep
    BY <1>27, BatchCalm
    DEF GroupSend, LoginSteps, BatchInv, Reading, JobInv, Job, Goto, Return,
        Idle
  <1>28. ASSUME NEW c \in Conns, NEW u \in Users, GroupRoute(c, u)
        PROVE  BatchStep
    BY <1>28, BatchCalm
    DEF GroupRoute, Route, LoginSteps, BatchInv, Reading, JobInv, Job, Goto,
        Return, Idle
  <1>29. ASSUME NEW s \in Servers, Serve(s)
        PROVE  BatchStep
    BY <1>29 DEF Serve, RedisServe, BatchStep, BatchInv, BatchMoves, dbVars
  <1>30. ASSUME NEW s \in Servers, ObserverFind(s)
        PROVE  BatchStep
    BY <1>30
    DEF ObserverFind, CanNotify, BatchStep, BatchInv, BatchMoves, dbVars
  <1>31. ASSUME NEW s \in Servers, ObserverSend(s)
        PROVE  BatchStep
    BY <1>31 DEF ObserverSend, BatchStep, BatchInv, BatchMoves, dbVars
  <1>32. ASSUME NEW s \in Servers, ObserverStore(s)
        PROVE  BatchStep
    BY <1>32
    DEF ObserverStore, insertOffline, BatchStep, BatchInv, BatchMoves,
        dbVars
  <1>33. ASSUME NEW s \in Servers, Quits(s)
        PROVE  BatchStep
    BY <1>33
    DEF Quits, ObserverQuits, Unlink, BatchStep, BatchInv, BatchMoves,
        dbVars
  <1>34. ASSUME NEW s \in Servers, SigInt(s)
        PROVE  BatchStep
    BY <1>34 DEF SigInt, resetState, BatchStep, BatchInv, BatchMoves, dbVars
  <1>35. ASSUME NEW s \in Servers, ProcessExit(s) \/ Crash(s)
        PROVE  BatchStep
    <2>1. Vanish(s) /\ proc[s] # "down"
      BY <1>35 DEF ProcessExit, Crash
    <2>2. proc' # proc
      BY <2>1 DEF Vanish, ProcInv
    <2> QED BY <2>1, <2>2
        DEF Vanish, Unlink, NoClient, BatchStep, BatchInv, BatchMoves, Idle,
            Reading, dbVars, JobInv, ClientInv, LoginSteps
  <1>36. ASSUME NEW s \in Servers, Restart(s)
        PROVE  BatchStep
    BY <1>36 DEF Restart, BatchStep, BatchInv, BatchMoves, dbVars
  <1>37. CASE UNCHANGED vars
    BY <1>37 DEF vars, BatchStep, BatchInv, BatchMoves, dbVars
  <1> QED
    BY <1>1, <1>2, <1>3, <1>4, <1>5, <1>6, <1>7, <1>8, <1>9, <1>10, <1>11,
       <1>12, <1>13, <1>14, <1>15, <1>16, <1>17, <1>18, <1>19, <1>20, <1>21,
       <1>22, <1>23, <1>24, <1>25, <1>26, <1>27, <1>28, <1>29, <1>30, <1>31,
       <1>32, <1>33, <1>34, <1>35, <1>36, <1>37
    DEF Next, Handler, ClientCommand, ObserverLoop, Process

\* The offline messages change in three ways: the rows of a user are deleted, by
\* a login that has read them, or a text that was sent is inserted.
RowsStep ==
    \/ UNCHANGED offlineMsg
    \/ \E c \in Conns : /\ job[c].at = "login_remove"
                         /\ offlineMsg' = [offlineMsg EXCEPT ![job[c].id] = NoRows]
    \/ \E u \in Users, m \in posted :
         offlineMsg' = [offlineMsg EXCEPT ![u][m] = offlineMsg[u][m] + 1]

LEMMA RowsStepKinds ==
  ASSUME TypeInv, PostedInv, [Next]_vars
  PROVE  RowsStep
  <1> USE SentinelAssumption DEF TypeInv
  <1>1. ASSUME NEW c \in Conns, Connect(c)
        PROVE  RowsStep
    BY <1>1 DEF Connect, RowsStep, dbVars
  <1>2. ASSUME NEW c \in Conns, Hangup(c)
        PROVE  RowsStep
    BY <1>2 DEF Hangup, RowsStep, dbVars
  <1>3. ASSUME NEW c \in Conns, NEW g \in Groups, AddGroup(c, g)
        PROVE  RowsStep
    BY <1>3 DEF AddGroup, addGroupRow, RowsStep, dbVars
  <1>4. ASSUME NEW c \in Conns, NEW u \in Users, LoginQuery(c, u)
        PROVE  RowsStep
    BY <1>4 DEF LoginQuery, RowsStep, dbVars
  <1>5. ASSUME NEW c \in Conns, LoginInsert(c)
        PROVE  RowsStep
    BY <1>5 DEF LoginInsert, RowsStep, dbVars
  <1>6. ASSUME NEW c \in Conns, LoginSubscribe(c)
        PROVE  RowsStep
    BY <1>6 DEF LoginSubscribe, subscribe, WriteCmd, RowsStep, dbVars
  <1>7. ASSUME NEW c \in Conns, LoginOnline(c)
        PROVE  RowsStep
    BY <1>7 DEF LoginOnline, updateState, RowsStep, dbVars
  <1>8. ASSUME NEW c \in Conns, LoginReadOffline(c)
        PROVE  RowsStep
    BY <1>8 DEF LoginReadOffline, RowsStep, dbVars
  <1>9. ASSUME NEW c \in Conns, LoginRemoveOffline(c)
        PROVE  RowsStep
    BY <1>9 DEF LoginRemoveOffline, removeOffline, RowsStep, dbVars
  <1>10. ASSUME NEW c \in Conns, LoginAck(c)
        PROVE  RowsStep
    BY <1>10 DEF LoginAck, RowsStep, dbVars
  <1>11. ASSUME NEW c \in Conns, LogoutErase(c)
        PROVE  RowsStep
    BY <1>11 DEF LogoutErase, Commands, RowsStep, dbVars
  <1>12. ASSUME NEW c \in Conns, LogoutUnsubscribe(c)
        PROVE  RowsStep
    BY <1>12 DEF LogoutUnsubscribe, unsubscribe, WriteCmd, RowsStep, dbVars
  <1>13. ASSUME NEW c \in Conns, LogoutOffline(c)
        PROVE  RowsStep
    BY <1>13 DEF LogoutOffline, updateState, RowsStep, dbVars
  <1>14. ASSUME NEW c \in Conns, CloseErase(c)
        PROVE  RowsStep
    BY <1>14 DEF CloseErase, NoClient, RowsStep, dbVars
  <1>15. ASSUME NEW c \in Conns, CloseUnsubscribe(c)
        PROVE  RowsStep
    BY <1>15 DEF CloseUnsubscribe, unsubscribe, WriteCmd, RowsStep, dbVars
  <1>16. ASSUME NEW c \in Conns, CloseOffline(c)
        PROVE  RowsStep
    BY <1>16 DEF CloseOffline, updateState, NoClient, RowsStep, dbVars
  <1>17. ASSUME NEW c \in Conns, NEW m \in Msgs, NEW d \in Users, ChatFind(c, m, d)
        PROVE  RowsStep
    BY <1>17 DEF ChatFind, Commands, RowsStep, dbVars
  <1>18. ASSUME NEW c \in Conns, ChatSend(c)
        PROVE  RowsStep
    BY <1>18 DEF ChatSend, RowsStep, dbVars
  <1>19. ASSUME NEW c \in Conns, ChatQuery(c)
        PROVE  RowsStep
    BY <1>19 DEF ChatQuery, Route, RowsStep, dbVars
  <1>20. ASSUME NEW c \in Conns, ChatPublish(c)
        PROVE  RowsStep
    BY <1>20 DEF ChatPublish, publish, RowsStep, dbVars
  <1>21. ASSUME NEW c \in Conns, ChatStore(c)
        PROVE  RowsStep
    <2>1. job[c].id \in Users /\ job[c].msg \in posted
      BY <1>21 DEF ChatStore, JobInv, JobFits, ChatSteps, GroupSteps, PostedInv
    <2> QED BY <1>21, <2>1 DEF ChatStore, insertOffline, RowsStep
  <1>22. ASSUME NEW c \in Conns, NEW m \in Msgs, NEW g \in Groups, GroupQuery(c, m, g)
        PROVE  RowsStep
    BY <1>22 DEF GroupQuery, Commands, RowsStep, dbVars
  <1>23. ASSUME NEW c \in Conns, GroupLock(c)
        PROVE  RowsStep
    BY <1>23 DEF GroupLock, RowsStep, dbVars
  <1>24. ASSUME NEW c \in Conns, GroupDone(c)
        PROVE  RowsStep
    BY <1>24 DEF GroupDone, RowsStep, dbVars
  <1>25. ASSUME NEW c \in Conns, GroupPublish(c)
        PROVE  RowsStep
    BY <1>25 DEF GroupPublish, publish, RowsStep, dbVars
  <1>26. ASSUME NEW c \in Conns, GroupStore(c)
        PROVE  RowsStep
    <2>1. job[c].id \in Users /\ job[c].msg \in posted
      BY <1>26 DEF GroupStore, JobInv, JobFits, ChatSteps, GroupSteps, PostedInv
    <2> QED BY <1>26, <2>1 DEF GroupStore, insertOffline, RowsStep
  <1>27. ASSUME NEW c \in Conns, NEW u \in Users, GroupSend(c, u)
        PROVE  RowsStep
    BY <1>27 DEF GroupSend, RowsStep, dbVars
  <1>28. ASSUME NEW c \in Conns, NEW u \in Users, GroupRoute(c, u)
        PROVE  RowsStep
    BY <1>28 DEF GroupRoute, Route, RowsStep, dbVars
  <1>29. ASSUME NEW s \in Servers, Serve(s)
        PROVE  RowsStep
    BY <1>29 DEF Serve, RedisServe, RowsStep, dbVars
  <1>30. ASSUME NEW s \in Servers, ObserverFind(s)
        PROVE  RowsStep
    BY <1>30 DEF ObserverFind, CanNotify, RowsStep, dbVars
  <1>31. ASSUME NEW s \in Servers, ObserverSend(s)
        PROVE  RowsStep
    BY <1>31 DEF ObserverSend, RowsStep, dbVars
  <1>32. ASSUME NEW s \in Servers, ObserverStore(s)
        PROVE  RowsStep
    <2>1. observer[s].chan \in Users /\ observer[s].msg \in posted
      BY <1>32 DEF ObserverStore, ObserverInv, ObserverFits, PostedInv
    <2> QED BY <1>32, <2>1 DEF ObserverStore, insertOffline, RowsStep
  <1>33. ASSUME NEW s \in Servers, Quits(s)
        PROVE  RowsStep
    BY <1>33 DEF Quits, ObserverQuits, Unlink, RowsStep, dbVars
  <1>34. ASSUME NEW s \in Servers, SigInt(s)
        PROVE  RowsStep
    BY <1>34 DEF SigInt, resetState, RowsStep, dbVars
  <1>35. ASSUME NEW s \in Servers, Vanish(s)
        PROVE  RowsStep
    BY <1>35 DEF Vanish, Unlink, NoClient, RowsStep, dbVars
  <1>36. ASSUME NEW s \in Servers, Restart(s)
        PROVE  RowsStep
    BY <1>36 DEF Restart, RowsStep, dbVars
  <1>37. CASE UNCHANGED vars
    BY <1>37 DEF vars, RowsStep, dbVars
  <1> QED
    BY <1>1, <1>2, <1>3, <1>4, <1>5, <1>6, <1>7, <1>8, <1>9, <1>10, <1>11,
       <1>12, <1>13, <1>14, <1>15, <1>16, <1>17, <1>18, <1>19, <1>20, <1>21,
       <1>22, <1>23, <1>24, <1>25, <1>26, <1>27, <1>28, <1>29, <1>30, <1>31,
       <1>32, <1>33, <1>34, <1>35, <1>36, <1>37
    DEF Next, Handler, ClientCommand, ObserverLoop, Process, ProcessExit, Crash

LEMMA InitTexts == Init => PostedInv /\ BatchInv
  <1> SUFFICES ASSUME Init PROVE PostedInv /\ BatchInv
    OBVIOUS
  <1>1. PostedInv
    BY DEF Init, BusInit, PostedInv, Idle, Asleep
  <1>2. BatchInv
    BY DEF Init, BatchInv, Idle, NoClient, LoginSteps
  <1> QED BY <1>1, <1>2

LEMMA TextsInvariant == Spec => [](PostedInv /\ BatchInv)
  <1>1. SafeInv /\ PostedInv /\ BatchInv /\ [Next]_vars => (PostedInv /\ BatchInv)'
    BY PostedStep, BatchStepKinds DEF SafeInv, BatchStep
  <1> QED BY <1>1, InitTexts, SafeInvariant, PTL DEF Spec
==============================================================================
