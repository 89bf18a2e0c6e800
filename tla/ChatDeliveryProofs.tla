-------------------------- MODULE ChatDeliveryProofs --------------------------
(***************************************************************************)
(* What becomes of a one-to-one text whose recipient's session stays as it *)
(* is while the text travels.                                              *)
(*                                                                         *)
(* The inductive invariant says where such a text is at every moment: in   *)
(* one handler, in one inbox, with one observer, sent once, stored once, or*)
(* with the login that has read it (Placed), and never in two of them.  The*)
(* decisions of oneChat hold as long as the recipient is Settled: then     *)
(* User.state and the map do not change (SettledKeeps), an entry of the map*)
(* is an open connection (SettledOpen), and exactly one server is          *)
(* subscribed to an online user (OnlineHeard, from BusInv and SingleInv).  *)
(***************************************************************************)
EXTENDS ChatDelivery, ChatBusProofs

\* What the code needs to deliver every text whose recipient stays as it is:
\* Orderly, no failure of Redis, no killed process.  In a group chat the return
\* after the first member of the sender's own server loses texts, so the theorems
\* are about one-to-one chats.
Calmly ==
    /\ Orderly
    /\ MaxBusFaults = 0
    /\ MaxCrashes = 0
    /\ Groups = {}

-----------------------------------------------------------------------------
(* Where the text m for the user u is *)

\* A handler of oneChat is at the step `at`, with the text.
Carries(j, u, m) == j.at \in ChatSteps /\ j.id = u /\ j.msg = m

\* A login has read a row with the text.
Reads(j, u, m) == j.at \in Reading /\ j.id = u /\ j.batch[m] > 0

\* The observer thread has popped it.
Pops(o, u, m) == o.at # "idle" /\ o.chan = u /\ o.msg = m

PushOf(u, m) == [chan |-> u, msg |-> m]

\* The queue q holds no push p; it holds one, and only one.
NoneIn(q, p) == \A i \in 1 .. Len(q) : q[i] # p

OneIn(q, p) ==
    \E i \in 1 .. Len(q) : /\ q[i] = p
                           /\ \A k \in 1 .. Len(q) : q[k] = p => k = i

NoHandler(u, m) == \A c \in Conns : ~Carries(job[c], u, m)
NoPush(u, m) == \A s \in Servers : NoneIn(inbox[s], PushOf(u, m))
NoObserver(u, m) == \A s \in Servers : ~Pops(observer[s], u, m)
NoBatch(u, m) == \A c \in Conns : ~Reads(job[c], u, m)
Counts(u, m, sent, rows) == sends[u][m] = sent /\ offlineMsg[u][m] = rows

Away(u, m) == NoHandler(u, m) /\ NoPush(u, m) /\ NoObserver(u, m)

Fresh(u, m) == Away(u, m) /\ NoBatch(u, m) /\ Counts(u, m, 0, 0)

\* In one handler, which goes by the present state of u.
WithHandler(u, m) ==
    /\ NoPush(u, m) /\ NoObserver(u, m)
    /\ \E c \in Conns :
         /\ Carries(job[c], u, m)
         /\ \A d \in Conns \ {c} : ~Carries(job[d], u, m)
         /\ job[c].at = "chat_publish" => userState[u] = "online"
         /\ job[c].at = "chat_store" => userState[u] = "offline"

\* Pushed once, to the server that has u.
InRedis(u, m) ==
    /\ NoHandler(u, m) /\ NoObserver(u, m)
    /\ \E s \in Servers :
         /\ connMap[s][u] # NoConn
         /\ OneIn(inbox[s], PushOf(u, m))
         /\ \A t \in Servers \ {s} : NoneIn(inbox[t], PushOf(u, m))

\* With the observer of a server that has found u.
WithObserver(u, m) ==
    /\ NoHandler(u, m) /\ NoPush(u, m)
    /\ \E s \in Servers :
         /\ Pops(observer[s], u, m)
         /\ observer[s].at = "send"
         /\ \A t \in Servers \ {s} : ~Pops(observer[t], u, m)

Flying(u, m) ==
    /\ NoBatch(u, m) /\ Counts(u, m, 0, 0)
    /\ WithHandler(u, m) \/ InRedis(u, m) \/ WithObserver(u, m)

Sent(u, m) == Away(u, m) /\ NoBatch(u, m) /\ Counts(u, m, 1, 0)

\* The steps of a login that has not read the offline messages yet.
Waiting == {"login_subscribe", "login_online", "login_read"}

\* Stored once: whoever is registered for u has still to read it.
Stored(u, m) ==
    /\ Away(u, m) /\ NoBatch(u, m) /\ Counts(u, m, 0, 1)
    /\ \A c \in Conns : Registered(c, u) => At(c, u, Waiting)

\* Read once, by the login of u: the row is deleted before the answer.
Taken(u, m) ==
    /\ Away(u, m)
    /\ \E c \in Conns :
         /\ Reads(job[c], u, m) /\ job[c].batch[m] = 1
         /\ \/ job[c].at = "login_remove" /\ Counts(u, m, 0, 1)
            \/ job[c].at = "login_ack" /\ Counts(u, m, 0, 0)

\* Where a text is that was accepted for u and has not been disturbed.
Placed(u, m) == Flying(u, m) \/ Sent(u, m) \/ Stored(u, m) \/ Taken(u, m)

PlaceInv ==
    /\ \A u \in Users, m \in Msgs :
         IF u \notin intended[m] THEN Fresh(u, m)
         ELSE <<u, m>> \in disturbed \/ Placed(u, m)
    /\ \A m \in Msgs : intended[m] \subseteq Users
    /\ \A m \in Msgs : m \notin posted => intended[m] = {}

\* A text that is travelling while the session of u changes is disturbed.
WatchInv ==
    \A u \in Users, m \in Msgs :
      InFlight(u, m) /\ ~Settled(u) => <<u, m>> \in disturbed

\* No group chats, and Redis is there.
WorldInv ==
    /\ \A c \in Conns : job[c].at \notin GroupSteps /\ job[c].todo = {}
    /\ \A s \in Servers : linked[s]

DeliveryInv == PlaceInv /\ WatchInv /\ WorldInv

-----------------------------------------------------------------------------
(* The queue of pushes of one server *)

SameQueue(q, r, p) == (NoneIn(q, p) => NoneIn(r, p)) /\ (OneIn(q, p) => OneIn(r, p))

LEMMA AppendOther ==
  ASSUME NEW q \in Seq(Push), NEW e \in Push, NEW p, e # p
  PROVE  SameQueue(q, Append(q, e), p)
  <1> DEFINE r == Append(q, e)
  <1>1. /\ Len(q) \in Nat /\ Len(r) = Len(q) + 1
        /\ \A i \in 1 .. Len(q) : r[i] = q[i]
        /\ r[Len(q) + 1] = e
    BY AppendProperties, LenProperties
  <1> HIDE DEF r
  <1>2. \A i \in 1 .. Len(r) : i \in 1 .. Len(q) \/ i = Len(q) + 1
    BY <1>1
  <1>3. 1 .. Len(q) \subseteq 1 .. Len(r)
    BY <1>1
  <1>4. NoneIn(q, p) => NoneIn(r, p)
    BY <1>1, <1>2 DEF NoneIn
  <1>5. OneIn(q, p) => OneIn(r, p)
    BY <1>1, <1>2, <1>3 DEF OneIn
  <1> QED BY <1>4, <1>5 DEF SameQueue, r

LEMMA AppendIt ==
  ASSUME NEW q \in Seq(Push), NEW p \in Push, NoneIn(q, p)
  PROVE  OneIn(Append(q, p), p)
  <1> DEFINE r == Append(q, p)
  <1>1. /\ Len(q) \in Nat /\ Len(r) = Len(q) + 1
        /\ \A i \in 1 .. Len(q) : r[i] = q[i]
        /\ r[Len(q) + 1] = p
    BY AppendProperties, LenProperties
  <1> HIDE DEF r
  <1>2. \A i \in 1 .. Len(r) : i \in 1 .. Len(q) \/ i = Len(q) + 1
    BY <1>1
  <1>3. Len(q) + 1 \in 1 .. Len(r)
    BY <1>1
  <1>4. OneIn(r, p)
    BY <1>1, <1>2, <1>3 DEF OneIn, NoneIn
  <1> QED BY <1>4 DEF r

LEMMA TailOther ==
  ASSUME NEW q \in Seq(Push), q # <<>>, NEW p, Head(q) # p
  PROVE  SameQueue(q, Tail(q), p)
  <1> DEFINE r == Tail(q)
  <1>1. /\ Len(q) \in Nat \ {0} /\ Len(r) = Len(q) - 1 /\ q[1] # p
        /\ \A i \in 1 .. Len(r) : r[i] = q[i + 1]
    BY HeadTailProperties, LenProperties, EmptySeq
  <1> HIDE DEF r
  <1>2. \A i \in 1 .. Len(r) : i + 1 \in 1 .. Len(q)
    BY <1>1
  <1>3. NoneIn(q, p) => NoneIn(r, p)
    BY <1>1, <1>2 DEF NoneIn
  <1>4. ASSUME OneIn(q, p) PROVE OneIn(r, p)
    <2>1. PICK i \in 1 .. Len(q) :
            q[i] = p /\ \A k \in 1 .. Len(q) : q[k] = p => k = i
      BY <1>4 DEF OneIn
    <2>2. i - 1 \in 1 .. Len(r) /\ r[i - 1] = p
      BY <1>1, <2>1
    <2>3. \A k \in 1 .. Len(r) : r[k] = p => k = i - 1
      BY <1>1, <1>2, <2>1
    <2> QED BY <2>2, <2>3 DEF OneIn
  <1> QED BY <1>3, <1>4 DEF SameQueue, r

LEMMA TailIt ==
  ASSUME NEW q \in Seq(Push), q # <<>>, NEW p, Head(q) = p, OneIn(q, p)
  PROVE  NoneIn(Tail(q), p)
  <1> DEFINE r == Tail(q)
  <1>1. /\ Len(q) \in Nat \ {0} /\ Len(r) = Len(q) - 1 /\ q[1] = p
        /\ \A i \in 1 .. Len(r) : r[i] = q[i + 1]
    BY HeadTailProperties, LenProperties, EmptySeq
  <1> HIDE DEF r
  <1>2. PICK i \in 1 .. Len(q) : \A k \in 1 .. Len(q) : q[k] = p => k = i
    BY DEF OneIn
  <1>3. i = 1
    BY <1>1, <1>2
  <1>4. NoneIn(r, p)
    <2> SUFFICES ASSUME NEW k \in 1 .. Len(r), r[k] = p PROVE FALSE
      BY DEF NoneIn
    <2>1. k + 1 \in 1 .. Len(q) /\ q[k + 1] = p
      BY <1>1
    <2> QED BY <1>2, <1>3, <2>1
  <1> QED BY <1>4 DEF r

LEMMA HeadIsThere ==
  ASSUME NEW q \in Seq(Push), q # <<>>, NEW p, Head(q) = p
  PROVE  ~NoneIn(q, p)
  <1>1. Len(q) \in Nat \ {0} /\ q[1] = p
    BY EmptySeq
  <1> QED BY <1>1 DEF NoneIn

-----------------------------------------------------------------------------
(* A settled user *)

\* No process dies.
LEMMA NobodyDies ==
  ASSUME Calmly, SafeInv, [Next]_vars, NEW s \in Servers
  PROVE  ~Dies(s)
  <1>1. TypeInv'
    BY TypeStep DEF SafeInv
  <1>2. crashes = 0 /\ crashes' = 0
    BY <1>1 DEF Calmly, SafeInv, TypeInv, ProcInv
  <1> QED BY <1>2 DEF Dies

\* While no session of u changes, its state and its entries stay.
LEMMA SettledKeeps ==
  ASSUME Calmly, SafeInv, SingleInv, [Next]_vars, NEW u \in Users,
         Settled(u), Settled(u)'
  PROVE  userState'[u] = userState[u] /\ \A s \in Servers : connMap'[s][u] = connMap[s][u]
  <1>t. /\ connMap \in [Servers -> [Users -> Conns \cup {NoConn}]]
        /\ userState \in [Users -> UserStates]
    BY DEF SafeInv, TypeInv, MapInv, DbTypeOK
  <1>w. Asked \cup Entered \cup Announced \cup Leaving
          = LoginSteps \cup LogoutSteps \cup CloseSteps
    BY DEF Asked, Entered, Announced, Leaving, LoginSteps
  <1>1. CASE Calm
    BY <1>1 DEF Calm
  <1>2. ASSUME NEW c \in Conns, NEW v \in Users, SessionStep(c, v)
        PROVE  userState'[u] = userState[u] /\ \A s \in Servers : connMap'[s][u] = connMap[s][u]
    <2> USE ServerOfAssumption
    <2>1. CASE Asks(c, v)
      BY <2>1 DEF Asks
    <2>2. CASE Enters(c, v)
      <3>1. v # u
        BY <1>w, <2>2 DEF Enters, Moves, At, Settled
      <3> QED BY <1>t, <2>2, <3>1 DEF Enters
    <2>3. CASE Announces(c, v)
      <3>1. v # u
        BY <1>w, <2>3 DEF Announces, Moves, At, Settled
      <3> QED BY <1>t, <2>3, <3>1 DEF Announces
    <2>4. CASE Answers(c, v)
      BY <2>4 DEF Answers
    <2>5. CASE Leaves(c, v)
      <3>1. v # u
        BY <2>5 DEF Leaves, Leaving, Settled
      <3> QED BY <1>t, <2>5, <3>1 DEF Leaves
    <2>6. CASE Withdraws(c, v)
      <3>1. v # u
        BY <1>w, <2>6 DEF Withdraws, At, Settled
      <3> QED BY <1>t, <2>6, <3>1 DEF Withdraws
    <2> QED BY <1>2, <2>1, <2>2, <2>3, <2>4, <2>5, <2>6 DEF SessionStep
  <1>3. ASSUME NEW s \in Servers, Dies(s)
        PROVE  FALSE
    BY <1>3, NobodyDies
  <1> QED BY <1>1, <1>2, <1>3, StepKinds DEF Calmly, SingleInv

\* The entry of a settled user is a connection whose peer is there.
LEMMA SettledOpen ==
  ASSUME SafeInv, NEW u \in Users, Settled(u), NEW s \in Servers, connMap[s][u] # NoConn
  PROVE  connMap[s][u] \in Conns /\ Open(connMap[s][u])
  <1> DEFINE c == connMap[s][u]
  <1>1. c \in Conns
    BY DEF SafeInv, TypeInv, MapInv
  <1> HIDE DEF c
  <1>2. Owns(c, s, u)
    BY <1>1 DEF SafeInv, SessionInv, c
  <1>3. client[c].mode \in {"menu", "fresh"}
    BY <1>1, <1>2 DEF Owns, Settled, Inserted
  <1> QED BY <1>1, <1>3 DEF Open, c

\* Exactly one server is subscribed to a settled user who is online: the one that
\* has it in its map.
LEMMA OnlineHeard ==
  ASSUME Calmly, SafeInv, SingleInv, BusInv, WorldInv, NEW u \in Users, Settled(u),
         userState[u] = "online"
  PROVE  \E s \in Servers :
           /\ connMap[s][u] # NoConn /\ u \in subs[s]
           /\ \A t \in Servers \ {s} : u \notin subs[t]
  <1> USE ServerOfAssumption, SentinelAssumption
  <1>1. PICK c \in Conns : Registered(c, u)
    <2>1. crashes = 0
      BY DEF Calmly, SafeInv, TypeInv, ProcInv
    <2>2. ~LoggingOut(u)
      BY DEF LoggingOut, Settled
    <2> QED BY <2>1, <2>2 DEF SingleInv, LifeInv, OnlineHasOwner
  <1>2. \A s \in Servers : connMap[s][u] # NoConn => s = ServerOf[c]
    <2> SUFFICES ASSUME NEW s \in Servers, connMap[s][u] # NoConn
                 PROVE  s = ServerOf[c]
      OBVIOUS
    <2>1. PICK d \in Conns : connMap[s][u] = d
      BY DEF SafeInv, TypeInv, MapInv
    <2>2. ServerOf[d] = s
      BY <2>1 DEF SafeInv, SessionInv, Owns
    <2>3. Registered(d, u)
      BY <2>1, <2>2 DEF Registered
    <2>4. d = c
      BY <1>1, <2>3 DEF SingleInv, ClaimInv, Claims
    <2> QED BY <2>2, <2>4
  <1>3. \A s \in Servers : u \in subs[s] <=> connMap[s][u] # NoConn
    <2> SUFFICES ASSUME NEW s \in Servers
                 PROVE  u \in subs[s] <=> connMap[s][u] # NoConn
      OBVIOUS
    <2>1. ~Writing(s, u) /\ linked[s]
      BY DEF Writing, At, WriteSteps, Settled, LoginSteps, LogoutSteps, CloseSteps,
             WorldInv
    <2>2. WillHear(s, u) <=> u \in subs[s]
      BY DEF WillHear, After, LastAbout, Settled
    <2> QED BY <2>1, <2>2 DEF BusInv, QueueInv
  <1> QED BY <1>1, <1>2, <1>3 DEF Registered

-----------------------------------------------------------------------------
(* No groups, and Redis is there *)

LEMMA WorldMove ==
  ASSUME WorldInv, NEW c \in Conns, job'[c].at \notin GroupSteps, job'[c].todo = {},
         \A d \in Conns \ {c} : job'[d] = job[d],
         UNCHANGED linked
  PROVE  WorldInv'
  BY DEF WorldInv

LEMMA WorldStep ==
  ASSUME Calmly, TypeInv, LifeInv, WorldInv, [Next]_vars
  PROVE  WorldInv'
  <1> USE DEF TypeInv
  <1>1. ASSUME NEW c \in Conns, Connect(c)
        PROVE  WorldInv'
    BY <1>1 DEF Connect, busVars, WorldInv
  <1>2. ASSUME NEW c \in Conns, Hangup(c)
        PROVE  WorldInv'
    BY <1>2 DEF Hangup, busVars, WorldInv
  <1>3. ASSUME NEW c \in Conns, NEW g \in Groups, AddGroup(c, g)
        PROVE  WorldInv'
    BY <1>3 DEF AddGroup, addGroupRow, busVars, WorldInv
  <1>4. ASSUME NEW c \in Conns, NEW u \in Users, LoginQuery(c, u)
        PROVE  WorldInv'
    <2>1. CASE UNCHANGED job
      BY <1>4, <2>1 DEF LoginQuery, busVars, WorldInv
    <2>2. CASE job' = [job EXCEPT ![c] = [Idle EXCEPT !.at = "login_insert", !.id = u]]
      BY <1>4, <2>2, WorldMove DEF LoginQuery, busVars, JobInv, Idle, GroupSteps
    <2> QED BY <1>4, <2>1, <2>2 DEF LoginQuery
  <1>5. ASSUME NEW c \in Conns, LoginInsert(c)
        PROVE  WorldInv'
    BY <1>5, WorldMove
    DEF LoginInsert, busVars, JobInv, Job, Goto, Return, Idle, WorldInv,
        GroupSteps
  <1>6. ASSUME NEW c \in Conns, LoginSubscribe(c)
        PROVE  WorldInv'
    BY <1>6, WorldMove
    DEF LoginSubscribe, subscribe, WriteCmd, busVars, JobInv, Job, Goto,
        Return, Idle, WorldInv, GroupSteps
  <1>7. ASSUME NEW c \in Conns, LoginOnline(c)
        PROVE  WorldInv'
    BY <1>7, WorldMove
    DEF LoginOnline, updateState, busVars, JobInv, Job, Goto, Return, Idle,
        WorldInv, GroupSteps
  <1>8. ASSUME NEW c \in Conns, LoginReadOffline(c)
        PROVE  WorldInv'
    <2>1. \/ job' = [job EXCEPT ![c].at = "login_remove",
                              ![c].batch = offlineMsg[job[c].id]]
          \/ job' = [job EXCEPT ![c].at = "login_ack"]
      BY <1>8 DEF LoginReadOffline, Goto
    <2>2. /\ job'[c].at \in {"login_remove", "login_ack"} /\ job'[c].todo = job[c].todo
          /\ \A d \in Conns \ {c} : job'[d] = job[d]
      BY <2>1 DEF JobInv, Job
    <2> QED BY <1>8, <2>2, WorldMove DEF LoginReadOffline, busVars, WorldInv, GroupSteps
  <1>9. ASSUME NEW c \in Conns, LoginRemoveOffline(c)
        PROVE  WorldInv'
    BY <1>9, WorldMove
    DEF LoginRemoveOffline, removeOffline, busVars, JobInv, Job, Goto,
        Return, Idle, WorldInv, GroupSteps
  <1>10. ASSUME NEW c \in Conns, LoginAck(c)
        PROVE  WorldInv'
    BY <1>10, WorldMove
    DEF LoginAck, busVars, JobInv, Job, Goto, Return, Idle, WorldInv,
        GroupSteps
  <1>11. ASSUME NEW c \in Conns, LogoutErase(c)
        PROVE  WorldInv'
    BY <1>11, WorldMove
    DEF LogoutErase, Commands, busVars, JobInv, Job, Goto, Return, Idle,
        WorldInv, GroupSteps
  <1>12. ASSUME NEW c \in Conns, LogoutUnsubscribe(c)
        PROVE  WorldInv'
    BY <1>12, WorldMove
    DEF LogoutUnsubscribe, unsubscribe, WriteCmd, busVars, JobInv, Job,
        Goto, Return, Idle, WorldInv, GroupSteps
  <1>13. ASSUME NEW c \in Conns, LogoutOffline(c)
        PROVE  WorldInv'
    BY <1>13, WorldMove
    DEF LogoutOffline, updateState, busVars, JobInv, Job, Goto, Return,
        Idle, WorldInv, GroupSteps
  <1>14. ASSUME NEW c \in Conns, CloseErase(c)
        PROVE  WorldInv'
    <2>1. CASE UNCHANGED job
      BY <1>14, <2>1 DEF CloseErase, busVars, WorldInv
    <2>2. ASSUME NEW u \in Users,
                 job' = [job EXCEPT ![c] = [Idle EXCEPT !.at = "close_unsubscribe",
                                                        !.id = u]]
          PROVE  WorldInv'
      BY <1>14, <2>2, WorldMove DEF CloseErase, busVars, JobInv, Idle, GroupSteps
    <2> QED BY <1>14, <2>1, <2>2 DEF CloseErase, EntriesOf
  <1>15. ASSUME NEW c \in Conns, CloseUnsubscribe(c)
        PROVE  WorldInv'
    BY <1>15, WorldMove
    DEF CloseUnsubscribe, unsubscribe, WriteCmd, busVars, JobInv, Job, Goto,
        Return, Idle, WorldInv, GroupSteps
  <1>16. ASSUME NEW c \in Conns, CloseOffline(c)
        PROVE  WorldInv'
    BY <1>16, WorldMove
    DEF CloseOffline, updateState, NoClient, busVars, JobInv, Job, Goto,
        Return, Idle, WorldInv, GroupSteps
  <1>17. ASSUME NEW c \in Conns, NEW m \in Msgs, NEW d \in Users, ChatFind(c, m, d)
        PROVE  WorldInv'
    <2> DEFINE send == [Idle EXCEPT !.at = "chat_send", !.id = d, !.msg = m,
                                    !.tgt = connMap[ServerOf[c]][d]]
               query == [Idle EXCEPT !.at = "chat_query", !.id = d, !.msg = m]
    <2>1. \/ job' = [job EXCEPT ![c] = send]
          \/ job' = [job EXCEPT ![c] = query]
      BY <1>17 DEF ChatFind
    <2>2. /\ send.at \notin GroupSteps /\ send.todo = {}
          /\ query.at \notin GroupSteps /\ query.todo = {}
      BY DEF Idle, GroupSteps
    <2> HIDE DEF send, query
    <2> QED BY <1>17, <2>1, <2>2, WorldMove DEF ChatFind, busVars, JobInv
  <1>18. ASSUME NEW c \in Conns, ChatSend(c)
        PROVE  WorldInv'
    BY <1>18, WorldMove
    DEF ChatSend, busVars, JobInv, Job, Goto, Return, Idle, WorldInv,
        GroupSteps
  <1>19. ASSUME NEW c \in Conns, ChatQuery(c)
        PROVE  WorldInv'
    <2>1. \/ job' = [job EXCEPT ![c].at = "chat_publish", ![c].id = job[c].id,
                              ![c].todo = @ \ {job[c].id}]
          \/ job' = [job EXCEPT ![c].at = "chat_store", ![c].id = job[c].id,
                              ![c].todo = @ \ {job[c].id}]
      BY <1>19 DEF ChatQuery, Route
    <2>2. /\ job'[c].at \in {"chat_publish", "chat_store"}
          /\ job'[c].todo = job[c].todo \ {job[c].id}
          /\ \A d \in Conns \ {c} : job'[d] = job[d]
      BY <2>1 DEF JobInv, Job
    <2> QED BY <1>19, <2>2, WorldMove DEF ChatQuery, busVars, WorldInv, GroupSteps
  <1>20. ASSUME NEW c \in Conns, ChatPublish(c)
        PROVE  WorldInv'
    BY <1>20, WorldMove
    DEF ChatPublish, publish, busVars, JobInv, Job, Goto, Return, Idle,
        WorldInv, GroupSteps
  <1>21. ASSUME NEW c \in Conns, ChatStore(c)
        PROVE  WorldInv'
    BY <1>21, WorldMove
    DEF ChatStore, insertOffline, busVars, JobInv, Job, Goto, Return, Idle,
        WorldInv, GroupSteps
  <1>22. ASSUME NEW c \in Conns, NEW m \in Msgs, NEW g \in Groups, GroupQuery(c, m, g)
        PROVE  WorldInv'
    BY <1>22 DEF GroupQuery, Commands, WorldInv, GroupSteps, Calmly
  <1>23. ASSUME NEW c \in Conns, GroupLock(c)
        PROVE  WorldInv'
    BY <1>23 DEF GroupLock, WorldInv, GroupSteps, Calmly
  <1>24. ASSUME NEW c \in Conns, GroupDone(c)
        PROVE  WorldInv'
    BY <1>24 DEF GroupDone, WorldInv, GroupSteps, Calmly
  <1>25. ASSUME NEW c \in Conns, GroupPublish(c)
        PROVE  WorldInv'
    BY <1>25 DEF GroupPublish, publish, WorldInv, GroupSteps, Calmly
  <1>26. ASSUME NEW c \in Conns, GroupStore(c)
        PROVE  WorldInv'
    BY <1>26 DEF GroupStore, insertOffline, WorldInv, GroupSteps, Calmly
  <1>27. ASSUME NEW c \in Conns, NEW u \in Users, GroupSend(c, u)
        PROVE  WorldInv'
    BY <1>27 DEF GroupSend, WorldInv, GroupSteps, Calmly
  <1>28. ASSUME NEW c \in Conns, NEW u \in Users, GroupRoute(c, u)
        PROVE  WorldInv'
    BY <1>28 DEF GroupRoute, Route, WorldInv, GroupSteps, Calmly
  <1>29. ASSUME NEW s \in Servers, Serve(s)
        PROVE  WorldInv'
    BY <1>29 DEF Serve, RedisServe, busVars, WorldInv
  <1>30. ASSUME NEW s \in Servers, ObserverFind(s)
        PROVE  WorldInv'
    BY <1>30 DEF ObserverFind, CanNotify, busVars, WorldInv
  <1>31. ASSUME NEW s \in Servers, ObserverSend(s)
        PROVE  WorldInv'
    BY <1>31 DEF ObserverSend, busVars, WorldInv
  <1>32. ASSUME NEW s \in Servers, ObserverStore(s)
        PROVE  WorldInv'
    BY <1>32 DEF ObserverStore, insertOffline, busVars, WorldInv
  <1>33. ASSUME NEW s \in Servers, Quits(s)
        PROVE  WorldInv'
    BY <1>33 DEF Quits, ObserverQuits, Unlink, Calmly, BusTypeOK, BusFail
  <1>34. ASSUME NEW s \in Servers, SigInt(s)
        PROVE  WorldInv'
    BY <1>34 DEF SigInt, resetState, Calmly, Orderly, ProcInv
  <1>35. ASSUME NEW s \in Servers, Restart(s)
        PROVE  WorldInv'
    BY <1>35 DEF Restart, WorldInv, BusTypeOK
  <1>36. ASSUME NEW s \in Servers, ProcessExit(s)
        PROVE  WorldInv'
    BY <1>36 DEF ProcessExit, LifeInv
  <1>37. ASSUME NEW s \in Servers, Crash(s)
        PROVE  WorldInv'
    BY <1>37 DEF Crash, Calmly, ProcInv
  <1>38. CASE UNCHANGED vars
    BY <1>38 DEF vars, busVars, WorldInv
  <1> QED
    BY <1>1, <1>2, <1>3, <1>4, <1>5, <1>6, <1>7, <1>8, <1>9, <1>10, <1>11,
       <1>12, <1>13, <1>14, <1>15, <1>16, <1>17, <1>18, <1>19, <1>20, <1>21,
       <1>22, <1>23, <1>24, <1>25, <1>26, <1>27, <1>28, <1>29, <1>30, <1>31,
       <1>32, <1>33, <1>34, <1>35, <1>36, <1>37, <1>38
    DEF Next, Handler, ClientCommand, ObserverLoop, Process

-----------------------------------------------------------------------------
(* The steps of the system, as the text m for the user u meets them *)

\* For the text it makes no difference whether a handler is at j or at k.
SameText(j, k, u, m) ==
    /\ Carries(k, u, m) <=> Carries(j, u, m)
    /\ Carries(j, u, m) => k.at = j.at
    /\ Reads(k, u, m) <=> Reads(j, u, m)
    /\ Reads(j, u, m) => k.at = j.at /\ k.batch[m] = j.batch[m]
    /\ j.id = u /\ j.at \in Waiting => k.id = u /\ k.at \in Waiting

OtherHandlers(c, u, m) == \A d \in Conns \ {c} : SameText(job[d], job'[d], u, m)
HandlersStill(u, m) == \A c \in Conns : SameText(job[c], job'[c], u, m)
PushesStill(u, m) == \A s \in Servers : SameQueue(inbox[s], inbox'[s], PushOf(u, m))
SameObserver(s, u, m) ==
    /\ Pops(observer'[s], u, m) <=> Pops(observer[s], u, m)
    /\ Pops(observer[s], u, m) => observer'[s].at = observer[s].at
OtherObservers(s, u, m) == \A t \in Servers \ {s} : SameObserver(t, u, m)
ObserversStill(u, m) == \A s \in Servers : SameObserver(s, u, m)
SentStill(u, m) == sends'[u][m] = sends[u][m]
RowsStill(u, m) == offlineMsg'[u][m] = offlineMsg[u][m]

Still(u, m) ==
    /\ HandlersStill(u, m) /\ PushesStill(u, m) /\ ObserversStill(u, m)
    /\ SentStill(u, m) /\ RowsStill(u, m)

Accepts(c, u, m) ==
    /\ job[c].at = "idle" /\ m \notin posted
    /\ Carries(job'[c], u, m) /\ job'[c].at \in {"chat_send", "chat_query"}
    /\ m \in posted'
    /\ PushesStill(u, m) /\ ObserversStill(u, m) /\ SentStill(u, m) /\ RowsStill(u, m)

Delivers(c, u, m) ==
    /\ Carries(job[c], u, m) /\ job[c].at = "chat_send" /\ job'[c].at = "idle"
    /\ sends'[u][m] = IF Open(job[c].tgt) THEN sends[u][m] + 1 ELSE sends[u][m]
    /\ PushesStill(u, m) /\ ObserversStill(u, m) /\ RowsStill(u, m)

Routes(c, u, m) ==
    /\ Carries(job[c], u, m) /\ job[c].at = "chat_query"
    /\ Carries(job'[c], u, m)
    /\ job'[c].at = IF userState[u] = "online" THEN "chat_publish" ELSE "chat_store"
    /\ PushesStill(u, m) /\ ObserversStill(u, m) /\ SentStill(u, m) /\ RowsStill(u, m)

Publishes(c, u, m) ==
    /\ Carries(job[c], u, m) /\ job[c].at = "chat_publish" /\ job'[c].at = "idle"
    /\ \A s \in Servers :
         inbox'[s] = IF u \in subs[s] THEN Append(inbox[s], PushOf(u, m)) ELSE inbox[s]
    /\ UNCHANGED connMap
    /\ ObserversStill(u, m) /\ SentStill(u, m) /\ RowsStill(u, m)

Stores(c, u, m) ==
    /\ Carries(job[c], u, m) /\ job[c].at = "chat_store" /\ job'[c].at = "idle"
    /\ offlineMsg'[u][m] = offlineMsg[u][m] + 1
    /\ UNCHANGED connMap
    /\ PushesStill(u, m) /\ ObserversStill(u, m) /\ SentStill(u, m)

Looks(c, u, m) ==
    /\ At(c, u, {"login_read"})
    /\ job'[c].id = u /\ job'[c].at \in Reading
    /\ offlineMsg[u][m] > 0 => job'[c].at = "login_remove"
    /\ job'[c].batch[m] = offlineMsg[u][m]
    /\ PushesStill(u, m) /\ ObserversStill(u, m) /\ SentStill(u, m) /\ RowsStill(u, m)

Deletes(c, u, m) ==
    /\ At(c, u, {"login_remove"})
    /\ job'[c].id = u /\ job'[c].at = "login_ack" /\ job'[c].batch = job[c].batch
    /\ offlineMsg'[u][m] = 0
    /\ PushesStill(u, m) /\ ObserversStill(u, m) /\ SentStill(u, m)

Hands(c, u, m) ==
    /\ At(c, u, {"login_ack"}) /\ job'[c].at = "idle"
    /\ sends'[u][m] = IF Open(c) THEN sends[u][m] + job[c].batch[m] ELSE sends[u][m]
    /\ client'[c].mode = IF Open(c) THEN "menu" ELSE client[c].mode
    /\ PushesStill(u, m) /\ ObserversStill(u, m) /\ RowsStill(u, m)

HandlerMoves(c, u, m) ==
    /\ OtherHandlers(c, u, m)
    /\ \/ Accepts(c, u, m) \/ Delivers(c, u, m) \/ Routes(c, u, m)
       \/ Publishes(c, u, m) \/ Stores(c, u, m)
       \/ Looks(c, u, m) \/ Deletes(c, u, m) \/ Hands(c, u, m)

Finds(s, u, m) ==
    /\ observer[s].at = "idle" /\ Pops(observer'[s], u, m)
    /\ observer'[s].at = IF connMap[s][u] # NoConn THEN "send" ELSE "store"
    /\ inbox[s] # <<>> /\ Head(inbox[s]) = PushOf(u, m)
    /\ inbox' = [inbox EXCEPT ![s] = Tail(inbox[s])]
    /\ SentStill(u, m) /\ RowsStill(u, m)

Shows(s, u, m) ==
    /\ Pops(observer[s], u, m) /\ observer[s].at = "send" /\ observer'[s].at = "idle"
    /\ sends'[u][m] = IF Open(observer[s].tgt) THEN sends[u][m] + 1 ELSE sends[u][m]
    /\ PushesStill(u, m) /\ RowsStill(u, m)

Keeps(s, u, m) ==
    /\ Pops(observer[s], u, m) /\ observer[s].at = "store" /\ observer'[s].at = "idle"

ObserverMoves(s, u, m) ==
    /\ HandlersStill(u, m) /\ OtherObservers(s, u, m)
    /\ Finds(s, u, m) \/ Shows(s, u, m) \/ Keeps(s, u, m)

TextStep(u, m) ==
    \/ Still(u, m)
    \/ \E c \in Conns : HandlerMoves(c, u, m)
    \/ \E s \in Servers : ObserverMoves(s, u, m)

\* What a handler does at no step of a chat or of the reading of texts.
LEMMA Elsewhere ==
  ASSUME NEW j, NEW k, NEW u, NEW m,
         j.at \notin ChatSteps \cup Reading \cup Waiting,
         k.at \notin ChatSteps \cup Reading
  PROVE  SameText(j, k, u, m)
  BY DEF SameText, Carries, Reads

LEMMA SelfText ==
  ASSUME NEW j, NEW u, NEW m
  PROVE  SameText(j, j, u, m)
  BY DEF SameText

LEMMA BusKept ==
  ASSUME UNCHANGED <<inbox, observer>>, NEW u, NEW m
  PROVE  PushesStill(u, m) /\ ObserversStill(u, m)
  BY DEF PushesStill, ObserversStill, SameQueue, SameObserver

LEMMA StillMove ==
  ASSUME NEW u, NEW m, NEW c \in Conns, SameText(job[c], job'[c], u, m),
         \A d \in Conns \ {c} : job'[d] = job[d],
         UNCHANGED <<inbox, observer, sends, offlineMsg>>
  PROVE  Still(u, m)
  <1>1. HandlersStill(u, m)
    BY SelfText DEF HandlersStill
  <1> QED BY <1>1, BusKept DEF Still, SentStill, RowsStill

LEMMA NoMove ==
  ASSUME NEW u, NEW m, UNCHANGED <<job, inbox, observer, sends, offlineMsg>>
  PROVE  Still(u, m)
  BY SelfText, BusKept DEF Still, HandlersStill, SentStill, RowsStill

LEMMA OthersKept ==
  ASSUME NEW u, NEW m, NEW c \in Conns, \A d \in Conns \ {c} : job'[d] = job[d]
  PROVE  OtherHandlers(c, u, m)
  BY SelfText DEF OtherHandlers

LEMMA TextStepKinds ==
  ASSUME Calmly, SafeInv, BatchInv, LifeInv, WorldInv, [Next]_vars,
         NEW u \in Users, NEW m \in Msgs
  PROVE  TextStep(u, m)
  <1> USE SentinelAssumption DEF SafeInv, TypeInv
  <1>c. ~DbFail /\ ~BusFail
    <2>1. ~DbFail
      BY NoDbFail DEF Calmly
    <2>2. ~BusFail
      BY DEF Calmly, BusTypeOK, BusFail
    <2> QED BY <2>1, <2>2
  <1>r. /\ \A v \in Users : offlineMsg[v] \in [Msgs -> Nat] /\ sends[v] \in [Msgs -> Nat]
        /\ offlineMsg \in [Users -> [Msgs -> Nat]] /\ sends \in [Users -> [Msgs -> Nat]]
        /\ \A s \in Servers : inbox[s] \in Seq(Push)
        /\ PushOf(u, m) \in Push
    BY DEF DbTypeOK, SendInv, Rows, BusTypeOK, PushOf, Push
  <1>1. ASSUME NEW c \in Conns, Connect(c)
        PROVE  TextStep(u, m)
    <2>1. UNCHANGED <<job, inbox, observer, sends, offlineMsg>>
      BY <1>1 DEF Connect, dbVars, busVars, chatVars
    <2> QED BY <2>1, NoMove DEF TextStep
  <1>2. ASSUME NEW c \in Conns, Hangup(c)
        PROVE  TextStep(u, m)
    <2>1. UNCHANGED <<job, inbox, observer, sends, offlineMsg>>
      BY <1>2 DEF Hangup, dbVars, busVars, chatVars
    <2> QED BY <2>1, NoMove DEF TextStep
  <1>3. ASSUME NEW c \in Conns, NEW g \in Groups, AddGroup(c, g)
        PROVE  TextStep(u, m)
    <2>1. UNCHANGED <<job, inbox, observer, sends, offlineMsg>>
      BY <1>3 DEF AddGroup, addGroupRow, busVars, chatVars
    <2> QED BY <2>1, NoMove DEF TextStep
  <1>4. ASSUME NEW c \in Conns, NEW v \in Users, LoginQuery(c, v)
        PROVE  TextStep(u, m)
    <2>1. UNCHANGED <<inbox, observer, sends, offlineMsg>>
      BY <1>4 DEF LoginQuery, busVars, chatVars
    <2>2. CASE UNCHANGED job
      BY <2>1, <2>2, NoMove DEF TextStep
    <2>3. CASE job' = [job EXCEPT ![c] = [Idle EXCEPT !.at = "login_insert", !.id = v]]
      <3>1. job'[c].at = "login_insert" /\ \A d \in Conns \ {c} : job'[d] = job[d]
        BY <2>3, BeginMoves
      <3>2. SameText(job[c], job'[c], u, m)
        BY <1>4, <3>1, Elsewhere DEF LoginQuery, ChatSteps, Reading, Waiting
      <3> QED BY <2>1, <3>1, <3>2, StillMove DEF TextStep
    <2> QED BY <1>4, <2>2, <2>3 DEF LoginQuery
  <1>5. ASSUME NEW c \in Conns, LoginInsert(c)
        PROVE  TextStep(u, m)
    <2>1. /\ SameText(job[c], job'[c], u, m)
          /\ \A d \in Conns \ {c} : job'[d] = job[d]
      BY <1>5, Elsewhere
      DEF LoginInsert, Goto, Return, JobInv, Job, Idle, ChatSteps,
          Reading, Waiting
    <2>2. UNCHANGED <<inbox, observer, sends, offlineMsg>>
      BY <1>5 DEF LoginInsert, dbVars, busVars, chatVars
    <2> QED BY <2>1, <2>2, StillMove DEF TextStep
  <1>6. ASSUME NEW c \in Conns, LoginSubscribe(c)
        PROVE  TextStep(u, m)
    <2>1. /\ SameText(job[c], job'[c], u, m)
          /\ \A d \in Conns \ {c} : job'[d] = job[d]
      BY <1>6
      DEF LoginSubscribe, Goto, JobInv, Job, SameText, Carries, Reads,
          ChatSteps, Reading, Waiting
    <2>2. UNCHANGED <<inbox, observer, sends, offlineMsg>>
      BY <1>6 DEF LoginSubscribe, subscribe, WriteCmd, dbVars, chatVars
    <2> QED BY <2>1, <2>2, StillMove DEF TextStep
  <1>7. ASSUME NEW c \in Conns, LoginOnline(c)
        PROVE  TextStep(u, m)
    <2>1. /\ SameText(job[c], job'[c], u, m)
          /\ \A d \in Conns \ {c} : job'[d] = job[d]
      BY <1>7
      DEF LoginOnline, Goto, JobInv, Job, SameText, Carries, Reads,
          ChatSteps, Reading, Waiting
    <2>2. UNCHANGED <<inbox, observer, sends, offlineMsg>>
      BY <1>7 DEF LoginOnline, updateState, busVars, chatVars
    <2> QED BY <2>1, <2>2, StillMove DEF TextStep
  <1>8. ASSUME NEW c \in Conns, LoginReadOffline(c)
        PROVE  TextStep(u, m)
    <2> DEFINE v == job[c].id
    <2>1. /\ job[c].at = "login_read" /\ v \in Users
          /\ UNCHANGED <<inbox, observer, sends, offlineMsg>>
      BY <1>8 DEF LoginReadOffline, busVars, chatVars, JobInv, JobFits
    <2>2. job[c].batch = NoRows
      BY <2>1 DEF BatchInv, Reading
    <2>3. /\ job'[c].id = v /\ \A d \in Conns \ {c} : job'[d] = job[d]
          /\ \/ job'[c].at = "login_remove" /\ job'[c].batch = offlineMsg[v]
             \/ job'[c].at = "login_ack" /\ offlineMsg[v] = NoRows /\ job'[c].batch = NoRows
      <3>1. CASE job' = [job EXCEPT ![c].at = "login_remove",
                                    ![c].batch = offlineMsg[v]]
        BY <3>1 DEF JobInv, Job
      <3>2. CASE offlineMsg[v] = NoRows /\ job' = [job EXCEPT ![c].at = "login_ack"]
        BY <2>2, <3>2 DEF JobInv, Job
      <3> QED BY <1>8, <1>c, <3>1, <3>2 DEF LoginReadOffline, Goto
    <2>4. job'[c].at \in Reading /\ job'[c].batch = offlineMsg[v]
      BY <2>3 DEF Reading
    <2> HIDE DEF v
    <2>5. CASE v = u
      <3>1. offlineMsg[u][m] > 0 => job'[c].at = "login_remove"
        BY <2>3, <2>5 DEF NoRows
      <3>2. Looks(c, u, m)
        BY <2>1, <2>3, <2>4, <2>5, <3>1, BusKept DEF Looks, At, SentStill, RowsStill, v
      <3> QED BY <2>3, <3>2, OthersKept DEF TextStep, HandlerMoves
    <2>6. CASE v # u
      <3>1. SameText(job[c], job'[c], u, m)
        BY <2>3, <2>6 DEF SameText, Carries, Reads, v
      <3> QED BY <2>1, <2>3, <3>1, StillMove DEF TextStep
    <2> QED BY <2>5, <2>6
  <1>9. ASSUME NEW c \in Conns, LoginRemoveOffline(c)
        PROVE  TextStep(u, m)
    <2> DEFINE v == job[c].id
    <2>1. /\ job[c].at = "login_remove" /\ v \in Users
          /\ offlineMsg' = [offlineMsg EXCEPT ![v] = NoRows]
          /\ UNCHANGED <<inbox, observer, sends>>
      BY <1>9, <1>c DEF LoginRemoveOffline, removeOffline, busVars, chatVars, JobInv, JobFits
    <2>2. /\ job'[c].id = v /\ job'[c].at = "login_ack" /\ job'[c].batch = job[c].batch
          /\ \A d \in Conns \ {c} : job'[d] = job[d]
      BY <1>9 DEF LoginRemoveOffline, Goto, JobInv, Job
    <2> HIDE DEF v
    <2>3. CASE v = u
      <3>1. offlineMsg'[u][m] = 0
        BY <1>r, <2>1, <2>3 DEF NoRows
      <3>2. Deletes(c, u, m)
        BY <2>1, <2>2, <2>3, <3>1, BusKept DEF Deletes, At, SentStill, v
      <3> QED BY <2>2, <3>2, OthersKept DEF TextStep, HandlerMoves
    <2>4. CASE v # u
      <3>1. SameText(job[c], job'[c], u, m)
        BY <2>2, <2>4 DEF SameText, Carries, Reads, v
      <3>2. RowsStill(u, m) /\ SentStill(u, m)
        BY <1>r, <2>1, <2>4 DEF RowsStill, SentStill
      <3>3. HandlersStill(u, m)
        BY <2>2, <3>1, SelfText DEF HandlersStill
      <3> QED BY <2>1, <3>2, <3>3, BusKept DEF TextStep, Still
    <2> QED BY <2>3, <2>4
  <1>10. ASSUME NEW c \in Conns, LoginAck(c)
        PROVE  TextStep(u, m)
    <2> DEFINE v == job[c].id
    <2>1. /\ job[c].at = "login_ack" /\ v \in Users
          /\ UNCHANGED <<inbox, observer, offlineMsg>>
      BY <1>10 DEF LoginAck, dbVars, busVars, JobInv, JobFits
    <2>2. job'[c].at = "idle" /\ \A d \in Conns \ {c} : job'[d] = job[d]
      BY <1>10, ReturnMoves DEF LoginAck
    <2>3. \A w \in Users, n \in Msgs :
            sends'[w][n] = IF w = v /\ Open(c) THEN sends[w][n] + job[c].batch[n]
                           ELSE sends[w][n]
      BY <1>10, <1>r, <2>1 DEF LoginAck
    <2>4. client'[c].mode = IF Open(c) THEN "menu" ELSE client[c].mode
      BY <1>10 DEF LoginAck, ClientInv, Client
    <2> HIDE DEF v
    <2>5. CASE v = u
      <3>1. Hands(c, u, m)
        BY <2>1, <2>2, <2>3, <2>4, <2>5, BusKept DEF Hands, At, RowsStill, v
      <3> QED BY <2>2, <3>1, OthersKept DEF TextStep, HandlerMoves
    <2>6. CASE v # u
      <3>1. SameText(job[c], job'[c], u, m)
        BY <2>1, <2>2, <2>6 DEF SameText, Carries, Reads, v, ChatSteps, Reading, Waiting
      <3>2. RowsStill(u, m) /\ SentStill(u, m)
        BY <2>1, <2>3, <2>6 DEF RowsStill, SentStill
      <3>3. HandlersStill(u, m)
        BY <2>2, <3>1, SelfText DEF HandlersStill
      <3> QED BY <2>1, <3>2, <3>3, BusKept DEF TextStep, Still
    <2> QED BY <2>5, <2>6
  <1>11. ASSUME NEW c \in Conns, LogoutErase(c)
        PROVE  TextStep(u, m)
    <2> DEFINE v == client[c].user
    <2>1. /\ UNCHANGED <<inbox, observer, sends, offlineMsg>>
          /\ job[c].at = "idle"
          /\ job' = [job EXCEPT ![c] = [Idle EXCEPT !.at = "logout_unsubscribe", !.id = v]]
      BY <1>11 DEF LogoutErase, Commands, dbVars, busVars, chatVars
    <2> HIDE DEF v
    <2>2. job'[c].at = "logout_unsubscribe" /\ \A d \in Conns \ {c} : job'[d] = job[d]
      BY <2>1, BeginMoves
    <2>3. SameText(job[c], job'[c], u, m)
      BY <2>1, <2>2, Elsewhere DEF ChatSteps, Reading, Waiting
    <2> QED BY <2>1, <2>2, <2>3, StillMove DEF TextStep
  <1>12. ASSUME NEW c \in Conns, LogoutUnsubscribe(c)
        PROVE  TextStep(u, m)
    <2>1. /\ SameText(job[c], job'[c], u, m)
          /\ \A d \in Conns \ {c} : job'[d] = job[d]
      BY <1>12, Elsewhere
      DEF LogoutUnsubscribe, Goto, Return, JobInv, Job, Idle, ChatSteps,
          Reading, Waiting
    <2>2. UNCHANGED <<inbox, observer, sends, offlineMsg>>
      BY <1>12 DEF LogoutUnsubscribe, unsubscribe, WriteCmd, dbVars, chatVars
    <2> QED BY <2>1, <2>2, StillMove DEF TextStep
  <1>13. ASSUME NEW c \in Conns, LogoutOffline(c)
        PROVE  TextStep(u, m)
    <2>1. /\ SameText(job[c], job'[c], u, m)
          /\ \A d \in Conns \ {c} : job'[d] = job[d]
      BY <1>13, Elsewhere
      DEF LogoutOffline, Goto, Return, JobInv, Job, Idle, ChatSteps,
          Reading, Waiting
    <2>2. UNCHANGED <<inbox, observer, sends, offlineMsg>>
      BY <1>13 DEF LogoutOffline, updateState, busVars, chatVars
    <2> QED BY <2>1, <2>2, StillMove DEF TextStep
  <1>14. ASSUME NEW c \in Conns, CloseErase(c)
        PROVE  TextStep(u, m)
    <2>1. UNCHANGED <<inbox, observer, sends, offlineMsg>> /\ job[c].at = "idle"
      BY <1>14 DEF CloseErase, dbVars, busVars, chatVars
    <2>2. CASE UNCHANGED job
      BY <2>1, <2>2, NoMove DEF TextStep
    <2>3. ASSUME NEW v \in Users,
                 job' = [job EXCEPT ![c] = [Idle EXCEPT !.at = "close_unsubscribe",
                                                        !.id = v]]
          PROVE  TextStep(u, m)
      <3>1. job'[c].at = "close_unsubscribe" /\ \A d \in Conns \ {c} : job'[d] = job[d]
        BY <2>3, BeginMoves
      <3>2. SameText(job[c], job'[c], u, m)
        BY <2>1, <3>1, Elsewhere DEF ChatSteps, Reading, Waiting
      <3> QED BY <2>1, <3>1, <3>2, StillMove DEF TextStep
    <2> QED BY <1>14, <2>2, <2>3 DEF CloseErase, EntriesOf
  <1>15. ASSUME NEW c \in Conns, CloseUnsubscribe(c)
        PROVE  TextStep(u, m)
    <2>1. /\ SameText(job[c], job'[c], u, m)
          /\ \A d \in Conns \ {c} : job'[d] = job[d]
      BY <1>15, Elsewhere
      DEF CloseUnsubscribe, Goto, Return, JobInv, Job, Idle, ChatSteps,
          Reading, Waiting
    <2>2. UNCHANGED <<inbox, observer, sends, offlineMsg>>
      BY <1>15 DEF CloseUnsubscribe, unsubscribe, WriteCmd, dbVars, chatVars
    <2> QED BY <2>1, <2>2, StillMove DEF TextStep
  <1>16. ASSUME NEW c \in Conns, CloseOffline(c)
        PROVE  TextStep(u, m)
    <2>1. /\ SameText(job[c], job'[c], u, m)
          /\ \A d \in Conns \ {c} : job'[d] = job[d]
      BY <1>16, Elsewhere
      DEF CloseOffline, Goto, Return, JobInv, Job, Idle, ChatSteps,
          Reading, Waiting
    <2>2. UNCHANGED <<inbox, observer, sends, offlineMsg>>
      BY <1>16 DEF CloseOffline, updateState, NoClient, busVars, chatVars
    <2> QED BY <2>1, <2>2, StillMove DEF TextStep
  <1>17. ASSUME NEW c \in Conns, NEW n \in Msgs, NEW d \in Users, ChatFind(c, n, d)
        PROVE  TextStep(u, m)
    <2> DEFINE send == [Idle EXCEPT !.at = "chat_send", !.id = d, !.msg = n,
                                    !.tgt = connMap[ServerOf[c]][d]]
               query == [Idle EXCEPT !.at = "chat_query", !.id = d, !.msg = n]
    <2>1. \/ job' = [job EXCEPT ![c] = send]
          \/ job' = [job EXCEPT ![c] = query]
      BY <1>17 DEF ChatFind
    <2>2. /\ send.at = "chat_send" /\ send.id = d /\ send.msg = n
          /\ query.at = "chat_query" /\ query.id = d /\ query.msg = n
      BY DEF Idle
    <2> HIDE DEF send, query
    <2>3. /\ job'[c].at \in {"chat_send", "chat_query"}
          /\ job'[c].id = d /\ job'[c].msg = n
          /\ \A e \in Conns \ {c} : job'[e] = job[e]
      BY <2>1, <2>2 DEF JobInv
    <2>4. /\ job[c].at = "idle" /\ n \notin posted /\ n \in posted'
          /\ UNCHANGED <<inbox, observer, sends, offlineMsg>>
      BY <1>17 DEF ChatFind, Commands, dbVars, busVars
    <2>5. CASE d = u /\ n = m
      <3>1. Accepts(c, u, m)
        BY <2>3, <2>4, <2>5, BusKept
        DEF Accepts, Carries, ChatSteps, SentStill, RowsStill
      <3> QED BY <2>3, <3>1, OthersKept DEF TextStep, HandlerMoves
    <2>6. CASE ~(d = u /\ n = m)
      <3>1. SameText(job[c], job'[c], u, m)
        BY <2>3, <2>4, <2>6 DEF SameText, Carries, Reads, ChatSteps, Reading, Waiting
      <3> QED BY <2>3, <2>4, <3>1, StillMove DEF TextStep
    <2> QED BY <2>5, <2>6
  <1>18. ASSUME NEW c \in Conns, ChatSend(c)
        PROVE  TextStep(u, m)
    <2> DEFINE v == job[c].id
               n == job[c].msg
    <2>1. /\ job[c].at = "chat_send" /\ v \in Users /\ n \in Msgs
          /\ UNCHANGED <<inbox, observer, offlineMsg>>
      BY <1>18 DEF ChatSend, dbVars, busVars, JobInv, JobFits, ChatSteps
    <2>2. job'[c].at = "idle" /\ \A d \in Conns \ {c} : job'[d] = job[d]
      BY <1>18, ReturnMoves DEF ChatSend
    <2>3. sends' = IF Open(job[c].tgt) THEN [sends EXCEPT ![v][n] = @ + 1] ELSE sends
      BY <1>18 DEF ChatSend, Send
    <2> HIDE DEF v, n
    <2>4. CASE v = u /\ n = m
      <3>1. sends'[u][m] = IF Open(job[c].tgt) THEN sends[u][m] + 1 ELSE sends[u][m]
        BY <1>r, <2>3, <2>4
      <3>2. Delivers(c, u, m)
        BY <2>1, <2>2, <2>4, <3>1, BusKept
        DEF Delivers, Carries, RowsStill, v, n, ChatSteps
      <3> QED BY <2>2, <3>2, OthersKept DEF TextStep, HandlerMoves
    <2>5. CASE ~(v = u /\ n = m)
      <3>1. SameText(job[c], job'[c], u, m)
        BY <2>1, <2>2, <2>5
        DEF SameText, Carries, Reads, v, n, ChatSteps, Reading, Waiting
      <3>2. RowsStill(u, m) /\ SentStill(u, m)
        BY <1>r, <2>1, <2>3, <2>5 DEF RowsStill, SentStill
      <3>3. HandlersStill(u, m)
        BY <2>2, <3>1, SelfText DEF HandlersStill
      <3> QED BY <2>1, <3>2, <3>3, BusKept DEF TextStep, Still
    <2> QED BY <2>4, <2>5
  <1>19. ASSUME NEW c \in Conns, ChatQuery(c)
        PROVE  TextStep(u, m)
    <2> DEFINE v == job[c].id
    <2>1. /\ job[c].at = "chat_query" /\ v \in Users
          /\ UNCHANGED <<inbox, observer, sends, offlineMsg>>
      BY <1>19 DEF ChatQuery, Route, busVars, chatVars, JobInv, JobFits, ChatSteps
    <2>2. \/ /\ userState[v] = "online"
             /\ job' = [job EXCEPT ![c].at = "chat_publish", ![c].id = v,
                                   ![c].todo = @ \ {v}]
          \/ /\ userState[v] # "online"
             /\ job' = [job EXCEPT ![c].at = "chat_store", ![c].id = v,
                                   ![c].todo = @ \ {v}]
      BY <1>19, <1>c DEF ChatQuery, Route, IsOnline
    <2>3. /\ job'[c].at = IF userState[v] = "online" THEN "chat_publish" ELSE "chat_store"
          /\ job'[c].id = v /\ job'[c].msg = job[c].msg
          /\ \A d \in Conns \ {c} : job'[d] = job[d]
      BY <2>2 DEF JobInv, Job
    <2> HIDE DEF v
    <2>4. CASE v = u /\ job[c].msg = m
      <3>1. Routes(c, u, m)
        BY <2>1, <2>3, <2>4, BusKept
        DEF Routes, Carries, SentStill, RowsStill, v, ChatSteps
      <3> QED BY <2>3, <3>1, OthersKept DEF TextStep, HandlerMoves
    <2>5. CASE ~(v = u /\ job[c].msg = m)
      <3>1. SameText(job[c], job'[c], u, m)
        BY <2>1, <2>3, <2>5
        DEF SameText, Carries, Reads, v, ChatSteps, Reading, Waiting
      <3> QED BY <2>1, <2>3, <3>1, StillMove DEF TextStep
    <2> QED BY <2>4, <2>5
  <1>20. ASSUME NEW c \in Conns, ChatPublish(c)
        PROVE  TextStep(u, m)
    <2> DEFINE v == job[c].id
               n == job[c].msg
    <2>1. /\ job[c].at = "chat_publish" /\ v \in Users /\ n \in Msgs
          /\ UNCHANGED <<observer, sends, offlineMsg, connMap>>
      BY <1>20 DEF ChatPublish, dbVars, mapVars, chatVars, JobInv, JobFits, ChatSteps
    <2>2. job'[c].at = "idle" /\ \A d \in Conns \ {c} : job'[d] = job[d]
      BY <1>20, ReturnMoves DEF ChatPublish
    <2>3. \A s \in Servers :
            inbox'[s] = IF v \in subs[s] THEN Append(inbox[s], PushOf(v, n)) ELSE inbox[s]
      BY <1>20, <1>c DEF ChatPublish, publish, PushOf
    <2> HIDE DEF v, n
    <2>4. ObserversStill(u, m) /\ SentStill(u, m) /\ RowsStill(u, m)
      BY <2>1 DEF ObserversStill, SameObserver, SentStill, RowsStill
    <2>5. CASE v = u /\ n = m
      <3>1. Publishes(c, u, m)
        BY <2>1, <2>2, <2>3, <2>4, <2>5 DEF Publishes, Carries, v, n, ChatSteps
      <3> QED BY <2>2, <3>1, OthersKept DEF TextStep, HandlerMoves
    <2>6. CASE ~(v = u /\ n = m)
      <3>1. SameText(job[c], job'[c], u, m)
        BY <2>1, <2>2, <2>6
        DEF SameText, Carries, Reads, v, n, ChatSteps, Reading, Waiting
      <3>2. PushOf(v, n) \in Push /\ PushOf(v, n) # PushOf(u, m)
        BY <2>1, <2>6 DEF PushOf, Push
      <3>3. PushesStill(u, m)
        <4> SUFFICES ASSUME NEW s \in Servers
                     PROVE  SameQueue(inbox[s], inbox'[s], PushOf(u, m))
          BY DEF PushesStill
        <4>1. CASE v \in subs[s]
          BY <1>r, <2>3, <3>2, <4>1, AppendOther
        <4>2. CASE v \notin subs[s]
          BY <2>3, <4>2 DEF SameQueue
        <4> QED BY <4>1, <4>2
      <3>4. HandlersStill(u, m)
        BY <2>2, <3>1, SelfText DEF HandlersStill
      <3> QED BY <2>4, <3>3, <3>4 DEF TextStep, Still
    <2> QED BY <2>5, <2>6
  <1>21. ASSUME NEW c \in Conns, ChatStore(c)
        PROVE  TextStep(u, m)
    <2> DEFINE v == job[c].id
               n == job[c].msg
    <2>1. /\ job[c].at = "chat_store" /\ v \in Users /\ n \in Msgs
          /\ UNCHANGED <<inbox, observer, sends, connMap>>
      BY <1>21 DEF ChatStore, busVars, mapVars, chatVars, JobInv, JobFits, ChatSteps
    <2>2. job'[c].at = "idle" /\ \A d \in Conns \ {c} : job'[d] = job[d]
      BY <1>21, ReturnMoves DEF ChatStore
    <2>3. offlineMsg' = [offlineMsg EXCEPT ![v][n] = @ + 1]
      BY <1>21, <1>c DEF ChatStore, insertOffline
    <2> HIDE DEF v, n
    <2>4. CASE v = u /\ n = m
      <3>1. offlineMsg'[u][m] = offlineMsg[u][m] + 1
        BY <1>r, <2>3, <2>4
      <3>2. Stores(c, u, m)
        BY <2>1, <2>2, <2>4, <3>1, BusKept
        DEF Stores, Carries, SentStill, v, n, ChatSteps
      <3> QED BY <2>2, <3>2, OthersKept DEF TextStep, HandlerMoves
    <2>5. CASE ~(v = u /\ n = m)
      <3>1. SameText(job[c], job'[c], u, m)
        BY <2>1, <2>2, <2>5
        DEF SameText, Carries, Reads, v, n, ChatSteps, Reading, Waiting
      <3>2. RowsStill(u, m) /\ SentStill(u, m)
        BY <1>r, <2>1, <2>3, <2>5 DEF RowsStill, SentStill
      <3>3. HandlersStill(u, m)
        BY <2>2, <3>1, SelfText DEF HandlersStill
      <3> QED BY <2>1, <3>2, <3>3, BusKept DEF TextStep, Still
    <2> QED BY <2>4, <2>5
  <1>22. ASSUME NEW c \in Conns, NEW n \in Msgs, NEW g \in Groups, GroupQuery(c, n, g)
        PROVE  TextStep(u, m)
    BY <1>22 DEF GroupQuery, Calmly
  <1>23. ASSUME NEW c \in Conns, GroupLock(c)
        PROVE  TextStep(u, m)
    BY <1>23 DEF GroupLock, WorldInv, GroupSteps
  <1>24. ASSUME NEW c \in Conns, GroupDone(c)
        PROVE  TextStep(u, m)
    BY <1>24 DEF GroupDone, WorldInv, GroupSteps
  <1>25. ASSUME NEW c \in Conns, GroupPublish(c)
        PROVE  TextStep(u, m)
    BY <1>25 DEF GroupPublish, WorldInv, GroupSteps
  <1>26. ASSUME NEW c \in Conns, GroupStore(c)
        PROVE  TextStep(u, m)
    BY <1>26 DEF GroupStore, WorldInv, GroupSteps
  <1>27. ASSUME NEW c \in Conns, NEW v \in Users, GroupSend(c, v)
        PROVE  TextStep(u, m)
    BY <1>27 DEF GroupSend, WorldInv, GroupSteps
  <1>28. ASSUME NEW c \in Conns, NEW v \in Users, GroupRoute(c, v)
        PROVE  TextStep(u, m)
    BY <1>28 DEF GroupRoute, WorldInv, GroupSteps
  <1>29. ASSUME NEW s \in Servers, Serve(s)
        PROVE  TextStep(u, m)
    <2>1. UNCHANGED <<job, inbox, observer, sends, offlineMsg>>
      BY <1>29 DEF Serve, RedisServe, dbVars, chatVars
    <2> QED BY <2>1, NoMove DEF TextStep
  <1>30. ASSUME NEW s \in Servers, ObserverFind(s)
        PROVE  TextStep(u, m)
    <2> DEFINE push == Head(inbox[s])
               found == [at |-> IF connMap[s][push.chan] # NoConn THEN "send" ELSE "store",
                         chan |-> push.chan, msg |-> push.msg,
                         tgt |-> connMap[s][push.chan]]
    <2>1. /\ observer[s].at = "idle" /\ inbox[s] # <<>>
          /\ observer' = [observer EXCEPT ![s] = found]
          /\ inbox' = [inbox EXCEPT ![s] = Tail(inbox[s])]
          /\ UNCHANGED <<job, sends, offlineMsg>>
      BY <1>30 DEF ObserverFind, CanNotify, dbVars, chatVars
    <2>2. push \in Push /\ inbox[s] \in Seq(Push)
      BY <1>r, <2>1, HeadTailProperties
    <2>3. /\ found.at = IF connMap[s][push.chan] # NoConn THEN "send" ELSE "store"
          /\ found.chan = push.chan /\ found.msg = push.msg
      OBVIOUS
    <2>4. observer'[s] = found /\ \A t \in Servers \ {s} : observer'[t] = observer[t]
      BY <2>1 DEF ObserverInv
    <2>5. inbox'[s] = Tail(inbox[s]) /\ \A t \in Servers \ {s} : inbox'[t] = inbox[t]
      BY <2>1 DEF BusTypeOK
    <2> HIDE DEF found, push
    <2>6. /\ HandlersStill(u, m) /\ OtherObservers(s, u, m)
          /\ SentStill(u, m) /\ RowsStill(u, m)
      BY <2>1, <2>4, SelfText
      DEF HandlersStill, OtherObservers, SameObserver, SentStill, RowsStill
    <2>7. CASE push = PushOf(u, m)
      <3>1. push.chan = u /\ push.msg = m
        BY <2>7 DEF PushOf
      <3>2. Pops(observer'[s], u, m)
        BY <2>3, <2>4, <3>1 DEF Pops
      <3>3. Finds(s, u, m)
        BY <2>1, <2>3, <2>4, <2>6, <2>7, <3>1, <3>2 DEF Finds, push
      <3> QED BY <2>6, <3>3 DEF TextStep, ObserverMoves
    <2>8. CASE push # PushOf(u, m)
      <3>1. ~(push.chan = u /\ push.msg = m)
        BY <2>2, <2>8 DEF PushOf, Push
      <3>2. ObserversStill(u, m)
        BY <2>1, <2>3, <2>4, <2>6, <3>1
        DEF ObserversStill, OtherObservers, SameObserver, Pops
      <3>3. SameQueue(inbox[s], inbox'[s], PushOf(u, m))
        BY <2>1, <2>2, <2>5, <2>8, TailOther DEF push
      <3>4. PushesStill(u, m)
        BY <2>5, <3>3 DEF PushesStill, SameQueue
      <3> QED BY <2>6, <3>2, <3>4 DEF TextStep, Still
    <2> QED BY <2>7, <2>8
  <1>31. ASSUME NEW s \in Servers, ObserverSend(s)
        PROVE  TextStep(u, m)
    <2> DEFINE v == observer[s].chan
               n == observer[s].msg
    <2>1. /\ observer[s].at = "send" /\ v \in Users /\ n \in Msgs
          /\ UNCHANGED <<job, inbox, offlineMsg>>
      BY <1>31 DEF ObserverSend, dbVars, busVars, ObserverInv, ObserverFits
    <2>2. observer'[s].at = "idle" /\ \A t \in Servers \ {s} : observer'[t] = observer[t]
      BY <1>31 DEF ObserverSend, ObserverInv, Asleep
    <2>3. sends' = IF Open(observer[s].tgt) THEN [sends EXCEPT ![v][n] = @ + 1] ELSE sends
      BY <1>31 DEF ObserverSend, Send
    <2> HIDE DEF v, n
    <2>4. /\ HandlersStill(u, m) /\ OtherObservers(s, u, m)
          /\ PushesStill(u, m) /\ RowsStill(u, m)
      BY <2>1, <2>2, SelfText
      DEF HandlersStill, OtherObservers, SameObserver, PushesStill, SameQueue, RowsStill
    <2>5. CASE v = u /\ n = m
      <3>1. sends'[u][m] = IF Open(observer[s].tgt) THEN sends[u][m] + 1 ELSE sends[u][m]
        BY <1>r, <2>3, <2>5
      <3>2. Shows(s, u, m)
        BY <2>1, <2>2, <2>4, <2>5, <3>1 DEF Shows, Pops, v, n
      <3> QED BY <2>4, <3>2 DEF TextStep, ObserverMoves
    <2>6. CASE ~(v = u /\ n = m)
      <3>1. SentStill(u, m)
        BY <1>r, <2>1, <2>3, <2>6 DEF SentStill
      <3>2. ObserversStill(u, m)
        BY <2>2, <2>4, <2>6
        DEF ObserversStill, OtherObservers, SameObserver, Pops, v, n
      <3> QED BY <2>4, <3>1, <3>2 DEF TextStep, Still
    <2> QED BY <2>5, <2>6
  <1>32. ASSUME NEW s \in Servers, ObserverStore(s)
        PROVE  TextStep(u, m)
    <2> DEFINE v == observer[s].chan
               n == observer[s].msg
    <2>1. /\ observer[s].at = "store" /\ v \in Users /\ n \in Msgs
          /\ UNCHANGED <<job, inbox, sends>>
      BY <1>32 DEF ObserverStore, busVars, chatVars, ObserverInv, ObserverFits
    <2>2. observer'[s].at = "idle" /\ \A t \in Servers \ {s} : observer'[t] = observer[t]
      BY <1>32 DEF ObserverStore, ObserverInv, Asleep
    <2>3. offlineMsg' = [offlineMsg EXCEPT ![v][n] = @ + 1]
      BY <1>32, <1>c DEF ObserverStore, insertOffline
    <2> HIDE DEF v, n
    <2>4. /\ HandlersStill(u, m) /\ OtherObservers(s, u, m)
          /\ PushesStill(u, m) /\ SentStill(u, m)
      BY <2>1, <2>2, SelfText
      DEF HandlersStill, OtherObservers, SameObserver, PushesStill, SameQueue, SentStill
    <2>5. CASE v = u /\ n = m
      <3>1. Keeps(s, u, m)
        BY <2>1, <2>2, <2>5 DEF Keeps, Pops, v, n
      <3> QED BY <2>4, <3>1 DEF TextStep, ObserverMoves
    <2>6. CASE ~(v = u /\ n = m)
      <3>1. RowsStill(u, m)
        BY <1>r, <2>1, <2>3, <2>6 DEF RowsStill
      <3>2. ObserversStill(u, m)
        BY <2>2, <2>4, <2>6
        DEF ObserversStill, OtherObservers, SameObserver, Pops, v, n
      <3> QED BY <2>4, <3>1, <3>2 DEF TextStep, Still
    <2> QED BY <2>5, <2>6
  <1>33. ASSUME NEW s \in Servers, Quits(s)
        PROVE  TextStep(u, m)
    BY <1>33, <1>c DEF Quits, ObserverQuits
  <1>34. ASSUME NEW s \in Servers, SigInt(s)
        PROVE  TextStep(u, m)
    BY <1>34 DEF SigInt, Calmly, Orderly, ProcInv
  <1>35. ASSUME NEW s \in Servers, Restart(s)
        PROVE  TextStep(u, m)
    <2>1. UNCHANGED <<job, inbox, observer, sends, offlineMsg>>
      BY <1>35 DEF Restart, dbVars, chatVars
    <2> QED BY <2>1, NoMove DEF TextStep
  <1>36. ASSUME NEW s \in Servers, ProcessExit(s)
        PROVE  TextStep(u, m)
    BY <1>36 DEF ProcessExit, LifeInv
  <1>37. ASSUME NEW s \in Servers, Crash(s)
        PROVE  TextStep(u, m)
    BY <1>37 DEF Crash, Calmly, ProcInv
  <1>38. CASE UNCHANGED vars
    <2>1. UNCHANGED <<job, inbox, observer, sends, offlineMsg>>
      BY <1>38 DEF vars, dbVars, busVars, chatVars
    <2> QED BY <2>1, NoMove DEF TextStep
  <1> QED
    BY <1>1, <1>2, <1>3, <1>4, <1>5, <1>6, <1>7, <1>8, <1>9, <1>10, <1>11,
       <1>12, <1>13, <1>14, <1>15, <1>16, <1>17, <1>18, <1>19, <1>20, <1>21,
       <1>22, <1>23, <1>24, <1>25, <1>26, <1>27, <1>28, <1>29, <1>30, <1>31,
       <1>32, <1>33, <1>34, <1>35, <1>36, <1>37, <1>38
    DEF Next, Handler, ClientCommand, ObserverLoop, Process

-----------------------------------------------------------------------------
(* From one place to the next *)

LEMMA AwayIs ==
  ASSUME WorldInv, NEW u \in Users, NEW m \in Msgs
  PROVE  InFlight(u, m) <=> ~Away(u, m)
  <1>1. ~NoHandler(u, m) <=>
          \E c \in Conns :
            /\ job[c].msg = m
            /\ \/ job[c].id = u
                  /\ job[c].at \in ChatSteps \cup {"group_publish", "group_store"}
               \/ u \in job[c].todo
    BY DEF WorldInv, NoHandler, Carries, GroupSteps
  <1>2. ~NoPush(u, m) <=>
          \E s \in Servers : \E i \in 1 .. Len(inbox[s]) :
            inbox[s][i] = [chan |-> u, msg |-> m]
    BY DEF NoPush, NoneIn, PushOf
  <1>3. ~NoObserver(u, m) <=>
          \E s \in Servers :
            observer[s].at # "idle" /\ observer[s].chan = u /\ observer[s].msg = m
    BY DEF NoObserver, Pops
  <1> QED BY <1>1, <1>2, <1>3 DEF InFlight, Away

LEMMA AwayIsNext ==
  ASSUME WorldInv', NEW u \in Users, NEW m \in Msgs
  PROVE  InFlight(u, m)' <=> ~Away(u, m)'
  <1>1. ~NoHandler(u, m)' <=>
          \E c \in Conns :
            /\ job'[c].msg = m
            /\ \/ job'[c].id = u
                  /\ job'[c].at \in ChatSteps \cup {"group_publish", "group_store"}
               \/ u \in job'[c].todo
    BY DEF WorldInv, NoHandler, Carries, GroupSteps
  <1>2. ~NoPush(u, m)' <=>
          \E s \in Servers : \E i \in 1 .. Len(inbox'[s]) :
            inbox'[s][i] = [chan |-> u, msg |-> m]
    BY DEF NoPush, NoneIn, PushOf
  <1>3. ~NoObserver(u, m)' <=>
          \E s \in Servers :
            observer'[s].at # "idle" /\ observer'[s].chan = u /\ observer'[s].msg = m
    BY DEF NoObserver, Pops
  <1> QED BY <1>1, <1>2, <1>3 DEF InFlight, Away

\* A login that reads, deletes or hands over the texts of u.
ReadsOn(c, u, m) == Looks(c, u, m) \/ Deletes(c, u, m) \/ Hands(c, u, m)

\* A text that is nowhere on its way gets there by a chat command only.
LEMMA AwayStep ==
  ASSUME SafeInv, NEW u \in Users, NEW m \in Msgs, Away(u, m), TextStep(u, m)
  PROVE  \/ Still(u, m) /\ Away(u, m)'
         \/ \E c \in Conns : OtherHandlers(c, u, m) /\ Accepts(c, u, m)
         \/ \E c \in Conns : /\ OtherHandlers(c, u, m) /\ ReadsOn(c, u, m)
                              /\ Away(u, m)'
  <1>p. PushesStill(u, m) => NoPush(u, m)'
    BY DEF Away, NoPush, PushesStill, SameQueue
  <1>o. ObserversStill(u, m) => NoObserver(u, m)'
    BY DEF Away, NoObserver, ObserversStill, SameObserver
  <1>1. CASE Still(u, m)
    <2>1. NoHandler(u, m)'
      BY <1>1 DEF Still, HandlersStill, SameText, Away, NoHandler
    <2> QED BY <1>1, <1>p, <1>o, <2>1 DEF Still, Away
  <1>2. ASSUME NEW c \in Conns, HandlerMoves(c, u, m)
        PROVE  Accepts(c, u, m) \/ (ReadsOn(c, u, m) /\ Away(u, m)')
    <2>1. ~Carries(job[c], u, m)
      BY DEF Away, NoHandler
    <2>2. Accepts(c, u, m) \/ ReadsOn(c, u, m)
      BY <1>2, <2>1 DEF HandlerMoves, ReadsOn, Delivers, Routes, Publishes, Stores
    <2>3. ASSUME ReadsOn(c, u, m) PROVE Away(u, m)'
      <3>1. ~Carries(job'[c], u, m)
        BY <2>3 DEF ReadsOn, Looks, Deletes, Hands, Carries, Reading, ChatSteps
      <3>2. NoHandler(u, m)'
        BY <1>2, <3>1
        DEF HandlerMoves, OtherHandlers, SameText, Away, NoHandler
      <3>3. PushesStill(u, m) /\ ObserversStill(u, m)
        BY <2>3 DEF ReadsOn, Looks, Deletes, Hands
      <3> QED BY <1>p, <1>o, <3>2, <3>3 DEF Away
    <2> QED BY <2>2, <2>3
  <1>3. ASSUME NEW s \in Servers, ObserverMoves(s, u, m)
        PROVE  FALSE
    <2>1. ~Pops(observer[s], u, m) /\ NoneIn(inbox[s], PushOf(u, m))
      BY DEF Away, NoObserver, NoPush
    <2>2. inbox[s] \in Seq(Push)
      BY DEF SafeInv, TypeInv, BusTypeOK
    <2>3. inbox[s] # <<>> /\ Head(inbox[s]) = PushOf(u, m)
      BY <1>3, <2>1 DEF ObserverMoves, Finds, Shows, Keeps
    <2> HIDE DEF PushOf
    <2> QED BY <2>1, <2>2, <2>3, HeadIsThere
  <1> QED BY <1>1, <1>2, <1>3 DEF TextStep, HandlerMoves

\* What no login has read, and is not stored, stays so; so does the count.
LEMMA RestStep ==
  ASSUME SafeInv, NEW u \in Users, NEW m \in Msgs, NEW k \in Nat,
         NoBatch(u, m), Counts(u, m, k, 0),
         \/ Still(u, m)
         \/ \E c \in Conns : OtherHandlers(c, u, m) /\ ReadsOn(c, u, m)
  PROVE  NoBatch(u, m)' /\ Counts(u, m, k, 0)'
  <1>1. CASE Still(u, m)
    BY <1>1
    DEF Still, HandlersStill, SameText, NoBatch, Counts, SentStill, RowsStill
  <1>2. ASSUME NEW c \in Conns, OtherHandlers(c, u, m), ReadsOn(c, u, m)
        PROVE  NoBatch(u, m)' /\ Counts(u, m, k, 0)'
    <2>1. job[c].batch[m] \in Nat
      BY DEF SafeInv, TypeInv, JobInv, Job, Rows
    <2>2. ~Reads(job[c], u, m)
      BY DEF NoBatch
    <2>3. ~Reads(job'[c], u, m) /\ Counts(u, m, k, 0)'
      <3>1. CASE Looks(c, u, m)
        BY <3>1 DEF Looks, Reads, Counts, SentStill, RowsStill
      <3>2. CASE Deletes(c, u, m)
        BY <2>2, <3>2 DEF Deletes, At, Reads, Reading, Counts, SentStill
      <3>3. CASE Hands(c, u, m)
        <4>1. job[c].batch[m] = 0
          BY <2>1, <2>2, <3>3 DEF Hands, At, Reads, Reading
        <4> QED BY <3>3, <4>1 DEF Hands, Reads, Reading, Counts, RowsStill
      <3> QED BY <1>2, <3>1, <3>2, <3>3 DEF ReadsOn
    <2>4. NoBatch(u, m)'
      BY <1>2, <2>3 DEF OtherHandlers, SameText, NoBatch
    <2> QED BY <2>3, <2>4
  <1> QED BY <1>1, <1>2

LEMMA FreshStep ==
  ASSUME SafeInv, NEW u \in Users, NEW m \in Msgs, Fresh(u, m), TextStep(u, m)
  PROVE  \/ Fresh(u, m)'
         \/ \E c \in Conns : OtherHandlers(c, u, m) /\ Accepts(c, u, m)
  BY AwayStep, RestStep DEF Fresh

LEMMA SentStep ==
  ASSUME SafeInv, NEW u \in Users, NEW m \in Msgs, Sent(u, m), m \in posted,
         TextStep(u, m)
  PROVE  Sent(u, m)'
  BY AwayStep, RestStep DEF Sent, Accepts

\* A chat command takes a new text on.
LEMMA AcceptStep ==
  ASSUME NEW u \in Users, NEW m \in Msgs, Fresh(u, m),
         NEW c \in Conns, OtherHandlers(c, u, m), Accepts(c, u, m)
  PROVE  Flying(u, m)' /\ InFlight(u, m)'
  <1>1. Carries(job'[c], u, m) /\ job'[c].at \in {"chat_send", "chat_query"}
    BY DEF Accepts
  <1>2. \A d \in Conns \ {c} : ~Carries(job'[d], u, m) /\ ~Reads(job'[d], u, m)
    BY DEF OtherHandlers, SameText, Fresh, Away, NoHandler, NoBatch
  <1>3. NoPush(u, m)' /\ NoObserver(u, m)'
    BY DEF Accepts, Fresh, Away, NoPush, NoObserver, PushesStill, SameQueue,
           ObserversStill, SameObserver
  <1>4. ~Reads(job'[c], u, m)
    BY <1>1 DEF Reads, Reading
  <1>5. NoBatch(u, m)' /\ Counts(u, m, 0, 0)'
    BY <1>2, <1>4 DEF NoBatch, Accepts, Fresh, Counts, SentStill, RowsStill
  <1>6. WithHandler(u, m)'
    BY <1>1, <1>2, <1>3 DEF WithHandler
  <1>7. InFlight(u, m)'
    BY <1>1 DEF InFlight, Carries
  <1> QED BY <1>5, <1>6, <1>7 DEF Flying

\* What the two ends of a step owe to the session of u: it is settled before, and
\* after, unless the text is not on its way any more.
Held(u, m) == Settled(u) /\ (Settled(u)' \/ Away(u, m)')

LEMMA FlyingRests ==
  ASSUME SafeInv, NEW u \in Users, NEW m \in Msgs, Flying(u, m), Settled(u), Settled(u)',
         Calmly, SingleInv, [Next]_vars, Still(u, m)
  PROVE  Flying(u, m)'
  <1>1. userState'[u] = userState[u] /\ \A s \in Servers : connMap'[s][u] = connMap[s][u]
    BY SettledKeeps
  <1>2. NoBatch(u, m)' /\ Counts(u, m, 0, 0)'
    BY RestStep DEF Flying
  <1>3. /\ NoHandler(u, m) => NoHandler(u, m)'
        /\ NoPush(u, m) => NoPush(u, m)'
        /\ NoObserver(u, m) => NoObserver(u, m)'
    BY DEF Still, HandlersStill, PushesStill, ObserversStill, SameText, SameQueue,
           SameObserver, NoHandler, NoPush, NoObserver
  <1>4. WithHandler(u, m) => WithHandler(u, m)'
    BY <1>1, <1>3 DEF WithHandler, Still, HandlersStill, SameText
  <1>5. InRedis(u, m) => InRedis(u, m)'
    BY <1>1, <1>3 DEF InRedis, Still, PushesStill, SameQueue
  <1>6. WithObserver(u, m) => WithObserver(u, m)'
    BY <1>3 DEF WithObserver, Still, ObserversStill, SameObserver
  <1> QED BY <1>2, <1>4, <1>5, <1>6 DEF Flying

\* A text on its way that meets no other step is on its way after it.
LEMMA StillFlies ==
  ASSUME NEW u \in Users, NEW m \in Msgs, Flying(u, m), Still(u, m)
  PROVE  ~Away(u, m)'
  <1>1. WithHandler(u, m) => ~NoHandler(u, m)'
    BY DEF WithHandler, NoHandler, Still, HandlersStill, SameText
  <1>2. InRedis(u, m) => ~NoPush(u, m)'
    <2> SUFFICES ASSUME InRedis(u, m) PROVE ~NoPush(u, m)'
      OBVIOUS
    <2>1. PICK s \in Servers : OneIn(inbox'[s], PushOf(u, m))
      BY DEF InRedis, Still, PushesStill, SameQueue
    <2> QED BY <2>1 DEF NoPush, OneIn, NoneIn
  <1>3. WithObserver(u, m) => ~NoObserver(u, m)'
    BY DEF WithObserver, NoObserver, Still, ObserversStill, SameObserver
  <1> QED BY <1>1, <1>2, <1>3 DEF Flying, Away

\* The handler that has the text hands it to the connection, to Redis, or to the
\* database, and the decision it took holds.
LEMMA HandlerStep ==
  ASSUME Calmly, SafeInv, SingleInv, BusInv, WorldInv, [Next]_vars,
         NEW u \in Users, NEW m \in Msgs, Flying(u, m), m \in posted, Held(u, m),
         NEW c \in Conns, HandlerMoves(c, u, m)
  PROVE  Placed(u, m)'
  <1> USE DEF HandlerMoves
  <1>1. ~Accepts(c, u, m) /\ ~ReadsOn(c, u, m)
    BY DEF Accepts, ReadsOn, Looks, Deletes, Hands, At, Held, Settled, LoginSteps
  <1>2. Carries(job[c], u, m)
    BY <1>1 DEF ReadsOn, Delivers, Routes, Publishes, Stores
  <1>3. /\ WithHandler(u, m) /\ NoBatch(u, m) /\ Counts(u, m, 0, 0)
        /\ NoPush(u, m) /\ NoObserver(u, m)
    BY <1>2 DEF Flying, InRedis, WithObserver, NoHandler, WithHandler
  <1>4. /\ \A d \in Conns \ {c} : ~Carries(job[d], u, m)
        /\ job[c].at = "chat_publish" => userState[u] = "online"
        /\ job[c].at = "chat_store" => userState[u] = "offline"
    BY <1>2, <1>3 DEF WithHandler
  <1>5. \A d \in Conns \ {c} : ~Carries(job'[d], u, m) /\ ~Reads(job'[d], u, m)
    BY <1>3, <1>4 DEF OtherHandlers, SameText, NoBatch
  <1>p. PushesStill(u, m) => NoPush(u, m)'
    BY <1>3 DEF NoPush, PushesStill, SameQueue
  <1>o. ObserversStill(u, m) => NoObserver(u, m)'
    BY <1>3 DEF NoObserver, ObserversStill, SameObserver
  <1>i. job'[c].at = "idle" => NoHandler(u, m)' /\ NoBatch(u, m)'
    BY <1>5 DEF NoHandler, NoBatch, Carries, Reads, ChatSteps, Reading
  <1>6. CASE Delivers(c, u, m)
    <2>1. /\ connMap[ServerOf[c]][u] = job[c].tgt /\ job[c].tgt \in Conns
          /\ ServerOf[c] \in Servers
      BY <1>2, <1>6, ServerOfAssumption
      DEF Delivers, Carries, SafeInv, LockInv, TargetKept, TypeInv, JobInv, JobFits
    <2>2. Open(job[c].tgt)
      BY <2>1, SettledOpen, SentinelAssumption DEF Held
    <2>3. Sent(u, m)'
      BY <1>3, <1>6, <1>i, <1>p, <1>o, <2>2 DEF Delivers, Sent, Away, Counts, RowsStill
    <2> QED BY <2>3 DEF Placed
  <1>7. CASE Routes(c, u, m)
    <2>1. Carries(job'[c], u, m)
      BY <1>7 DEF Routes
    <2>2. Settled(u) /\ Settled(u)'
      BY <2>1 DEF Held, Away, NoHandler
    <2>3. userState'[u] = userState[u] /\ userState[u] \in UserStates
      BY <2>2, SettledKeeps DEF SafeInv, TypeInv, DbTypeOK
    <2>4. ~Reads(job'[c], u, m)
      BY <2>1 DEF Carries, Reads, ChatSteps, Reading
    <2>5. WithHandler(u, m)'
      BY <1>5, <1>7, <1>p, <1>o, <2>1, <2>3 DEF WithHandler, Routes, UserStates
    <2>6. NoBatch(u, m)' /\ Counts(u, m, 0, 0)'
      BY <1>3, <1>5, <1>7, <2>4 DEF NoBatch, Counts, Routes, SentStill, RowsStill
    <2> QED BY <2>5, <2>6 DEF Placed, Flying
  <1>8. CASE Publishes(c, u, m)
    <2>1. PICK s \in Servers :
            /\ connMap[s][u] # NoConn /\ u \in subs[s]
            /\ \A t \in Servers \ {s} : u \notin subs[t]
      BY <1>4, <1>8, OnlineHeard DEF Publishes, Held
    <2>2. /\ inbox'[s] = Append(inbox[s], PushOf(u, m))
          /\ \A t \in Servers \ {s} : inbox'[t] = inbox[t]
          /\ connMap'[s][u] # NoConn
      BY <1>8, <2>1 DEF Publishes
    <2>3. /\ inbox[s] \in Seq(Push) /\ NoneIn(inbox[s], PushOf(u, m))
          /\ PushOf(u, m) \in Push
          /\ \A t \in Servers \ {s} : NoneIn(inbox[t], PushOf(u, m))
      BY <1>3 DEF SafeInv, TypeInv, BusTypeOK, NoPush, PushOf, Push
    <2>4. OneIn(inbox'[s], PushOf(u, m))
      <3> HIDE DEF PushOf
      <3> QED BY <2>2, <2>3, AppendIt
    <2>5. InRedis(u, m)'
      BY <1>8, <1>i, <1>o, <2>2, <2>3, <2>4 DEF InRedis, Publishes
    <2>6. NoBatch(u, m)' /\ Counts(u, m, 0, 0)'
      BY <1>3, <1>8, <1>i DEF Counts, Publishes, SentStill, RowsStill
    <2> QED BY <2>5, <2>6 DEF Placed, Flying
  <1>9. CASE Stores(c, u, m)
    <2>1. userState[u] = "offline"
      BY <1>4, <1>9 DEF Stores
    <2>2. \A d \in Conns : ~Registered(d, u)
      <3> SUFFICES ASSUME NEW d \in Conns, Registered(d, u) PROVE FALSE
        OBVIOUS
      <3>1. At(d, u, Entered)
        BY <2>1 DEF SingleInv, StageInv, StageOf
      <3> QED BY <3>1 DEF At, Entered, Held, Settled, LoginSteps
    <2>3. \A d \in Conns : ~Registered(d, u)'
      BY <1>9, <2>2 DEF Stores, Registered
    <2>4. Stored(u, m)'
      BY <1>3, <1>9, <1>i, <1>p, <1>o, <2>3
      DEF Stores, Stored, Away, Counts, SentStill
    <2> QED BY <2>4 DEF Placed
  <1> QED BY <1>1, <1>6, <1>7, <1>8, <1>9 DEF ReadsOn

\* The observer of the server that has u hands the text to its connection.
LEMMA ObserverStep ==
  ASSUME SafeInv,
         NEW u \in Users, NEW m \in Msgs, Flying(u, m), Settled(u),
         NEW s \in Servers, ObserverMoves(s, u, m)
  PROVE  Placed(u, m)'
  <1>1. /\ NoBatch(u, m)' /\ (NoHandler(u, m) => NoHandler(u, m)')
        /\ Counts(u, m, 0, 0)
    BY DEF ObserverMoves, HandlersStill, SameText, Flying, NoBatch, NoHandler
  <1>2. CASE Finds(s, u, m)
    <2>1. inbox[s] \in Seq(Push) /\ inbox \in [Servers -> Seq(Push)]
      BY DEF SafeInv, TypeInv, BusTypeOK
    <2>2. inbox[s] # <<>> /\ Head(inbox[s]) = PushOf(u, m)
      BY <1>2 DEF Finds
    <2>3. ~NoneIn(inbox[s], PushOf(u, m))
      <3> HIDE DEF PushOf
      <3> QED BY <2>1, <2>2, HeadIsThere
    <2>4. InRedis(u, m)
      BY <2>3 DEF Flying, WithHandler, WithObserver, NoPush
    <2>5. /\ connMap[s][u] # NoConn /\ OneIn(inbox[s], PushOf(u, m))
          /\ \A t \in Servers \ {s} : NoneIn(inbox[t], PushOf(u, m))
      BY <2>3, <2>4 DEF InRedis
    <2>6. NoneIn(Tail(inbox[s]), PushOf(u, m))
      <3> HIDE DEF PushOf
      <3> QED BY <2>1, <2>2, <2>5, TailIt
    <2>7. NoPush(u, m)'
      BY <1>2, <2>1, <2>5, <2>6 DEF Finds, NoPush
    <2>8. \A t \in Servers \ {s} : ~Pops(observer'[t], u, m)
      BY <2>4 DEF InRedis, NoObserver, ObserverMoves, OtherObservers, SameObserver
    <2>9. WithObserver(u, m)'
      BY <1>1, <1>2, <2>4, <2>5, <2>7, <2>8 DEF WithObserver, InRedis, Finds
    <2>10. Counts(u, m, 0, 0)'
      BY <1>1, <1>2 DEF Counts, Finds, SentStill, RowsStill
    <2> QED BY <1>1, <2>9, <2>10 DEF Placed, Flying
  <1>3. ASSUME Shows(s, u, m) \/ Keeps(s, u, m)
        PROVE  Placed(u, m)'
    <2>1. Pops(observer[s], u, m)
      BY <1>3 DEF Shows, Keeps
    <2>2. WithObserver(u, m)
      BY <2>1 DEF Flying, WithHandler, InRedis, NoObserver
    <2>3. /\ observer[s].at = "send"
          /\ \A t \in Servers \ {s} : ~Pops(observer[t], u, m)
      BY <2>1, <2>2 DEF WithObserver
    <2>4. Shows(s, u, m)
      BY <1>3, <2>3 DEF Keeps
    <2>5. connMap[s][u] = observer[s].tgt /\ observer[s].tgt \in Conns
      BY <2>1, <2>3
      DEF Pops, SafeInv, LockInv, TargetKept, TypeInv, ObserverInv, ObserverFits
    <2>6. Open(observer[s].tgt)
      BY <2>5, SettledOpen, SentinelAssumption
    <2>7. NoObserver(u, m)'
      BY <2>3, <2>4
      DEF NoObserver, Shows, Pops, ObserverMoves, OtherObservers, SameObserver
    <2>8. NoPush(u, m)'
      BY <2>2, <2>4 DEF WithObserver, NoPush, Shows, PushesStill, SameQueue
    <2>9. Sent(u, m)'
      BY <1>1, <2>2, <2>4, <2>6, <2>7, <2>8
      DEF Sent, Away, Counts, WithObserver, Shows, RowsStill
    <2> QED BY <2>9 DEF Placed
  <1> QED BY <1>2, <1>3 DEF ObserverMoves

LEMMA FlyingStep ==
  ASSUME Calmly, SafeInv, SingleInv, BusInv, WorldInv, [Next]_vars,
         NEW u \in Users, NEW m \in Msgs, Flying(u, m), m \in posted, Held(u, m),
         TextStep(u, m)
  PROVE  Placed(u, m)'
  <1>1. CASE Still(u, m)
    <2>1. Settled(u) /\ Settled(u)'
      BY <1>1, StillFlies DEF Held
    <2> QED BY <1>1, <2>1, FlyingRests DEF Placed
  <1> QED BY <1>1, HandlerStep, ObserverStep DEF TextStep, Held

\* Whoever is registered for u was registered before, or has just been.
LEMMA RegisteredStep ==
  ASSUME Calmly, SafeInv, SingleInv, [Next]_vars, NEW u \in Users,
         NEW c \in Conns, Registered(c, u)'
  PROVE  Registered(c, u) \/ (job'[c].id = u /\ job'[c].at \in Entered)
  <1> USE ServerOfAssumption, SentinelAssumption DEF Registered
  <1>t. connMap \in [Servers -> [Users -> Conns \cup {NoConn}]]
    BY DEF SafeInv, TypeInv, MapInv
  <1>1. CASE Calm
    BY <1>1 DEF Calm
  <1>2. ASSUME NEW d \in Conns, NEW v \in Users, SessionStep(d, v)
        PROVE  Registered(c, u) \/ (job'[c].id = u /\ job'[c].at \in Entered)
    <2>1. CASE Enters(d, v)
      BY <1>t, <2>1 DEF Enters, Moves
    <2>2. CASE Leaves(d, v)
      BY <1>t, <2>2 DEF Leaves
    <2> QED BY <1>2, <2>1, <2>2 DEF SessionStep, Asks, Announces, Answers, Withdraws
  <1>3. ASSUME NEW s \in Servers, Dies(s)
        PROVE  FALSE
    BY <1>3, NobodyDies
  <1> QED BY <1>1, <1>2, <1>3, StepKinds DEF Calmly, SingleInv

\* A login that is past its insert is the only one of its user.
LEMMA LoginAlone ==
  ASSUME SingleInv, NEW u \in Users, NEW c \in Conns, NEW d \in Conns,
         At(c, u, Announced), At(d, u, Announced)
  PROVE  c = d
  BY DEF SingleInv, StageInv, StageOf, ClaimInv, Claims

\* A row that was stored stays until a login of its user reads it.
LEMMA StoredStep ==
  ASSUME Calmly, SafeInv, SingleInv, [Next]_vars,
         NEW u \in Users, NEW m \in Msgs, Stored(u, m), m \in posted, TextStep(u, m)
  PROVE  Placed(u, m)'
  <1>1. CASE Still(u, m) /\ Away(u, m)'
    <2>1. NoBatch(u, m)' /\ Counts(u, m, 0, 1)'
      BY <1>1 DEF Stored, Still, HandlersStill, SameText, NoBatch, Counts, SentStill,
                  RowsStill
    <2>2. ASSUME NEW c \in Conns, Registered(c, u)' PROVE At(c, u, Waiting)'
      <3>1. CASE Registered(c, u)
        <4>1. At(c, u, Waiting)
          BY <3>1 DEF Stored
        <4> QED BY <1>1, <4>1 DEF At, Still, HandlersStill, SameText
      <3>2. CASE job'[c].id = u /\ job'[c].at \in Entered
        BY <3>2 DEF At, Entered, Waiting
      <3> QED BY <2>2, <3>1, <3>2, RegisteredStep
    <2> QED BY <1>1, <2>1, <2>2 DEF Placed, Stored
  <1>2. ASSUME NEW c \in Conns, OtherHandlers(c, u, m), ReadsOn(c, u, m), Away(u, m)'
        PROVE  Placed(u, m)'
    <2>1. ~Deletes(c, u, m) /\ ~Hands(c, u, m)
      <3> SUFFICES ASSUME At(c, u, Reading) PROVE FALSE
        BY DEF Deletes, Hands, At, Reading
      <3>1. Registered(c, u)
        BY DEF SingleInv, StageInv, StageOf, At, Reading, Announced
      <3> QED BY <3>1 DEF Stored, At, Reading, Waiting
    <2>2. Looks(c, u, m)
      BY <1>2, <2>1 DEF ReadsOn
    <2>3. /\ Reads(job'[c], u, m) /\ job'[c].batch[m] = 1
          /\ job'[c].at = "login_remove"
          /\ Counts(u, m, 0, 1)'
      BY <2>2 DEF Looks, Stored, Counts, Reads, Reading, SentStill, RowsStill
    <2> QED BY <1>2, <2>3 DEF Placed, Taken
  <1> QED BY <1>1, <1>2, AwayStep DEF Stored, Accepts

\* The texts a login has read are deleted, then written to its connection, if its
\* client is there until then.
LEMMA TakenStep ==
  ASSUME SafeInv, SingleInv,
         NEW u \in Users, NEW m \in Msgs, Taken(u, m), m \in posted, TextStep(u, m),
         ~Disturbs(u, m)
  PROVE  Placed(u, m)'
  <1>1. PICK c \in Conns :
          /\ Reads(job[c], u, m) /\ job[c].batch[m] = 1
          /\ \/ job[c].at = "login_remove" /\ Counts(u, m, 0, 1)
             \/ job[c].at = "login_ack" /\ Counts(u, m, 0, 0)
    BY DEF Taken
  <1>2. client'[c].mode \notin {"gone", "down"}
    BY <1>1 DEF Disturbs, InBatch, Reads, Reading
  <1>3. /\ At(c, u, Announced)
        /\ \A d \in Conns : At(d, u, Announced) => d = c
    BY <1>1, LoginAlone DEF At, Announced, Reads, Reading
  <1>4. CASE Still(u, m) /\ Away(u, m)'
    <2>1. /\ Reads(job'[c], u, m) /\ job'[c].batch[m] = 1
          /\ job'[c].at = job[c].at
      BY <1>1, <1>4 DEF Still, HandlersStill, SameText
    <2>2. \A k : Counts(u, m, 0, k) => Counts(u, m, 0, k)'
      BY <1>4 DEF Still, Counts, SentStill, RowsStill
    <2> QED BY <1>1, <1>4, <2>1, <2>2 DEF Placed, Taken
  <1>5. ASSUME NEW d \in Conns, OtherHandlers(d, u, m), ReadsOn(d, u, m), Away(u, m)'
        PROVE  Placed(u, m)'
    <2>1. d = c
      BY <1>3, <1>5 DEF ReadsOn, Looks, Deletes, Hands, At, Announced
    <2>2. CASE Looks(c, u, m)
      BY <1>1, <2>2 DEF Looks, At
    <2>3. CASE Deletes(c, u, m)
      <3>1. /\ Reads(job'[c], u, m) /\ job'[c].batch[m] = 1
            /\ job'[c].at = "login_ack"
            /\ Counts(u, m, 0, 0)'
        BY <1>1, <2>3 DEF Deletes, At, Reads, Reading, Counts, SentStill
      <3> QED BY <1>5, <3>1 DEF Placed, Taken
    <2>4. CASE Hands(c, u, m)
      <3>1. client[c].mode \in {"fresh", "gone"}
        BY <1>3 DEF SafeInv, SessionInv, ModeFits, At, Announced, LoginSteps
      <3>2. Open(c)
        BY <1>2, <2>4, <3>1 DEF Hands, Open
      <3>3. Counts(u, m, 1, 0)'
        BY <1>1, <2>4, <3>2 DEF Hands, At, Counts, RowsStill
      <3>4. NoBatch(u, m)'
        <4>1. ~Reads(job'[c], u, m)
          BY <2>4 DEF Hands, Reads, Reading
        <4>2. \A e \in Conns \ {c} : ~Reads(job[e], u, m)
          BY <1>3 DEF Reads, Reading, At, Announced
        <4> QED BY <1>5, <2>1, <4>1, <4>2 DEF OtherHandlers, SameText, NoBatch
      <3> QED BY <1>5, <3>3, <3>4 DEF Placed, Sent
    <2> QED BY <1>5, <2>1, <2>2, <2>3, <2>4 DEF ReadsOn
  <1> QED BY <1>4, <1>5, AwayStep DEF Taken, Accepts

-----------------------------------------------------------------------------
(* The inductive invariant *)

LEMMA PlaceStep ==
  ASSUME Calmly, SafeInv, SingleInv, BusInv, BatchInv, DeliveryInv, WorldInv', DNext
  PROVE  PlaceInv'
  <1>n. [Next]_vars
    BY DEF DNext
  <1>1. \A m \in Msgs :
          intended'[m] = IF m \in posted' \ posted THEN {u \in Users : InFlight(u, m)'}
                         ELSE intended[m]
    BY DEF DNext
  <1>2. \A u \in Users, m \in Msgs :
          <<u, m>> \in disturbed' <=> <<u, m>> \in disturbed \/ Disturbs(u, m)
    BY DEF DNext
  <1>3. posted \subseteq posted'
    BY <1>n, PostedGrows
  <1>4. ASSUME NEW u \in Users, NEW m \in Msgs
        PROVE  IF u \notin intended'[m] THEN Fresh(u, m)'
               ELSE <<u, m>> \in disturbed' \/ Placed(u, m)'
    <2>1. TextStep(u, m)
      BY <1>n, TextStepKinds DEF SingleInv, DeliveryInv
    <2>2. CASE u \notin intended[m]
      <3>1. Fresh(u, m)
        BY <2>2 DEF DeliveryInv, PlaceInv
      <3>2. CASE Fresh(u, m)'
        <4>1. ~InFlight(u, m)'
          BY <3>2, AwayIsNext DEF Fresh
        <4> QED BY <1>1, <2>2, <3>2, <4>1
      <3>3. ASSUME NEW c \in Conns, OtherHandlers(c, u, m), Accepts(c, u, m)
            PROVE  u \in intended'[m] /\ Placed(u, m)'
        <4>1. Flying(u, m)' /\ InFlight(u, m)'
          BY <3>1, <3>3, AcceptStep
        <4> QED BY <1>1, <3>3, <4>1 DEF Accepts, Placed
      <3> QED BY <2>1, <3>1, <3>2, <3>3, FreshStep DEF SingleInv
    <2>3. CASE u \in intended[m]
      <3>1. m \in posted /\ intended'[m] = intended[m]
        BY <1>1, <2>3 DEF DeliveryInv, PlaceInv
      <3>2. CASE <<u, m>> \in disturbed \/ Disturbs(u, m)
        BY <1>2, <2>3, <3>1, <3>2
      <3>3. CASE <<u, m>> \notin disturbed /\ ~Disturbs(u, m)
        <4>1. Placed(u, m)
          BY <2>3, <3>3 DEF DeliveryInv, PlaceInv
        <4>2. CASE Flying(u, m)
          <5>1. ~Away(u, m)
            BY <4>2 DEF Flying, WithHandler, InRedis, WithObserver, Away, NoHandler,
                        NoPush, NoObserver, OneIn, NoneIn
          <5>2. Settled(u)
            BY <3>3, <5>1, AwayIs DEF Disturbs, DeliveryInv
          <5>3. Settled(u)' \/ Away(u, m)'
            BY <3>3, AwayIsNext DEF Disturbs
          <5> QED BY <1>n, <2>1, <2>3, <3>1, <4>2, <5>2, <5>3, FlyingStep
                  DEF Held, DeliveryInv
        <4>3. CASE Sent(u, m)
          BY <2>1, <2>3, <3>1, <4>3, SentStep DEF Placed
        <4>4. CASE Stored(u, m)
          BY <1>n, <2>1, <2>3, <3>1, <4>4, StoredStep
        <4>5. CASE Taken(u, m)
          BY <2>1, <2>3, <3>1, <3>3, <4>5, TakenStep
        <4> QED BY <4>1, <4>2, <4>3, <4>4, <4>5 DEF Placed
      <3> QED BY <3>2, <3>3
    <2> QED BY <2>2, <2>3
  <1>5. \A m \in Msgs : intended'[m] \subseteq Users
    BY <1>1 DEF DeliveryInv, PlaceInv
  <1>6. \A m \in Msgs : m \notin posted' => intended'[m] = {}
    BY <1>1, <1>3 DEF DeliveryInv, PlaceInv
  <1> QED BY <1>4, <1>5, <1>6 DEF PlaceInv

LEMMA DeliveryStep ==
  ASSUME Calmly, SafeInv, SingleInv, BusInv, BatchInv, DeliveryInv, [DNext]_dvars
  PROVE  DeliveryInv'
  <1>1. CASE DNext
    <2>1. WorldInv'
      BY <1>1, WorldStep DEF DNext, SafeInv, SingleInv, DeliveryInv
    <2>2. WatchInv'
      <3> SUFFICES ASSUME NEW u \in Users, NEW m \in Msgs,
                          InFlight(u, m)', ~Settled(u)'
                   PROVE  <<u, m>> \in disturbed'
        BY DEF WatchInv
      <3>1. Disturbs(u, m)
        BY DEF Disturbs
      <3> QED BY <1>1, <3>1 DEF DNext
    <2> QED BY <1>1, <2>1, <2>2, PlaceStep DEF DeliveryInv
  <1>2. CASE UNCHANGED dvars
    <2>1. UNCHANGED <<vars, intended, disturbed>>
      BY <1>2 DEF dvars, historyVars
    <2>2. UNCHANGED <<connMap, client, job, observer, userState, offlineMsg, inbox,
                      subCmds, linked, posted, sends>>
      BY <2>1 DEF vars, dbVars, busVars, mapVars, chatVars
    <2>3. WorldInv'
      BY <2>2 DEF DeliveryInv, WorldInv
    <2>4. WatchInv'
      BY <2>1, <2>2 DEF DeliveryInv, WatchInv, InFlight, Settled
    <2>5. PlaceInv'
      <3>1. \A u \in Users, m \in Msgs :
              /\ NoHandler(u, m)' <=> NoHandler(u, m)
              /\ NoPush(u, m)' <=> NoPush(u, m)
              /\ NoObserver(u, m)' <=> NoObserver(u, m)
              /\ NoBatch(u, m)' <=> NoBatch(u, m)
              /\ \A j, k : Counts(u, m, j, k)' <=> Counts(u, m, j, k)
        BY <2>2 DEF NoHandler, NoPush, NoObserver, NoBatch, Counts
      <3>2. \A u \in Users, m \in Msgs :
              /\ WithHandler(u, m)' <=> WithHandler(u, m)
              /\ InRedis(u, m)' <=> InRedis(u, m)
              /\ WithObserver(u, m)' <=> WithObserver(u, m)
        BY <2>2, <3>1 DEF WithHandler, InRedis, WithObserver
      <3>3. \A u \in Users, m \in Msgs :
              /\ Away(u, m)' <=> Away(u, m)
              /\ Fresh(u, m)' <=> Fresh(u, m)
              /\ Placed(u, m)' <=> Placed(u, m)
        BY <2>2, <3>1, <3>2
        DEF Away, Fresh, Placed, Flying, Sent, Stored, Taken, At, Registered
      <3> QED BY <2>1, <2>2, <3>3 DEF DeliveryInv, PlaceInv
    <2> QED BY <2>3, <2>4, <2>5 DEF DeliveryInv
  <1> QED BY <1>1, <1>2

LEMMA InitDelivery == DInit => DeliveryInv
  <1> SUFFICES ASSUME DInit PROVE DeliveryInv
    OBVIOUS
  <1>1. /\ \A c \in Conns : job[c].at = "idle" /\ job[c].todo = {}
        /\ \A s \in Servers : inbox[s] = <<>> /\ linked[s] /\ observer[s].at = "idle"
        /\ \A u \in Users, m \in Msgs : sends[u][m] = 0 /\ offlineMsg[u][m] = 0
        /\ \A m \in Msgs : intended[m] = {}
    BY DEF DInit, Init, DbInit, BusInit, Idle, Asleep, NoRows
  <1>2. \A u \in Users, m \in Msgs : Fresh(u, m) /\ ~InFlight(u, m)
    <2>1. \A u \in Users, m \in Msgs : Fresh(u, m)
      BY <1>1 DEF Fresh, Away, NoHandler, NoPush, NoObserver, NoBatch, Counts,
                  Carries, NoneIn, Pops, Reads, ChatSteps, Reading
    <2>2. WorldInv
      BY <1>1 DEF WorldInv, GroupSteps
    <2> QED BY <2>1, <2>2, AwayIs DEF Fresh
  <1> QED BY <1>1, <1>2 DEF DeliveryInv, PlaceInv, WatchInv, WorldInv, GroupSteps

\* The histories only watch: what holds of ChatService holds of ChatDelivery.
LEMMA HistoriesWatch == DSpec => Spec
  <1>1. DInit => Init
    BY DEF DInit
  <1>2. [DNext]_dvars => [Next]_vars
    BY DEF DNext, dvars
  <1> QED BY <1>1, <1>2, PTL DEF DSpec, Spec

LEMMA DeliveryInvariant == ASSUME Calmly PROVE DSpec => []DeliveryInv
  <1>0. Orderly
    BY DEF Calmly
  <1>1. SafeInv /\ SingleInv /\ BusInv /\ BatchInv /\ DeliveryInv /\ [DNext]_dvars
          => DeliveryInv'
    BY DeliveryStep
  <1>2. Spec => [](SafeInv /\ SingleInv /\ BusInv /\ BatchInv)
    BY <1>0, SafeInvariant, SingleInvariant, BusInvariant, TextsInvariant, PTL
  <1> QED BY <1>1, <1>2, InitDelivery, HistoriesWatch, PTL DEF DSpec

\* StoredOnlyWhileAway, for every instance without failures: a user who is logged
\* in has no row waiting, but for texts that met a change of its session: oneChat
\* stores for a user who is offline only, and login hands over every row it finds.
THEOREM StoredOnlyWhileAwayCorrect ==
  ASSUME Calmly PROVE DSpec => []StoredOnlyWhileAway
  <1>1. SafeInv /\ SingleInv /\ DeliveryInv => StoredOnlyWhileAway
    <2> SUFFICES ASSUME SafeInv, SingleInv, DeliveryInv,
                        NEW c \in Conns, NEW m \in Msgs, client[c].mode = "menu",
                        Settled(client[c].user), <<client[c].user, m>> \notin disturbed
                 PROVE  offlineMsg[client[c].user][m] = 0
      BY DEF StoredOnlyWhileAway
    <2> DEFINE u == client[c].user
    <2>1. u \in Users /\ Settled(u) /\ <<u, m>> \notin disturbed
      BY DEF SafeInv, TypeInv, ClientInv
    <2>2. Registered(c, u)
      BY <2>1 DEF SingleInv, StageInv, StageOf
    <2> HIDE DEF u
    <2>3. Fresh(u, m) \/ Placed(u, m)
      BY <2>1 DEF DeliveryInv, PlaceInv
    <2>4. ~Stored(u, m)
      BY <2>1, <2>2 DEF Stored, At, Waiting, Settled, LoginSteps
    <2>5. ~Taken(u, m)
      BY <2>1 DEF Taken, Reads, Reading, Settled, LoginSteps
    <2>6. offlineMsg[u][m] = 0
      BY <2>3, <2>4, <2>5 DEF Fresh, Placed, Flying, Sent, Counts
    <2> QED BY <2>6 DEF u
  <1>2. Spec => [](SafeInv /\ SingleInv)
    BY SafeInvariant, SingleInvariant, PTL DEF Calmly
  <1> QED BY <1>1, <1>2, HistoriesWatch, DeliveryInvariant, PTL

\* UndisturbedExactlyOnce, for every instance without failures: a one-to-one text
\* whose recipient's session did not change while it travelled is written to the
\* connection of the recipient, or stored and handed over by its next login, once.
THEOREM UndisturbedCorrect ==
  ASSUME Calmly PROVE DSpec => []UndisturbedExactlyOnce
  <1>1. DeliveryInv => UndisturbedExactlyOnce
    <2> SUFFICES ASSUME DeliveryInv, NEW m \in Msgs, NEW u \in intended[m],
                        <<u, m>> \notin disturbed, ~InFlight(u, m)
                 PROVE  Copies(u, m) = 1
      BY DEF UndisturbedExactlyOnce
    <2>1. u \in Users /\ Placed(u, m)
      BY DEF DeliveryInv, PlaceInv
    <2>2. Away(u, m)
      BY <2>1, AwayIs DEF DeliveryInv
    <2>3. ~Flying(u, m)
      BY <2>2 DEF Flying, WithHandler, InRedis, WithObserver, Away, NoHandler, NoPush,
                  NoObserver, OneIn, NoneIn
    <2>4. ASSUME NoBatch(u, m)
          PROVE  Copies(u, m) = sends[u][m] + offlineMsg[u][m] + 0
      BY <2>4 DEF Copies, NoBatch, Reads, Reading
    <2>5. CASE Sent(u, m)
      BY <2>4, <2>5 DEF Sent, Counts
    <2>6. CASE Stored(u, m)
      BY <2>4, <2>6 DEF Stored, Counts
    <2>7. CASE Taken(u, m)
      <3>1. PICK c \in Conns :
              /\ Reads(job[c], u, m) /\ job[c].batch[m] = 1
              /\ \/ job[c].at = "login_remove" /\ Counts(u, m, 0, 1)
                 \/ job[c].at = "login_ack" /\ Counts(u, m, 0, 0)
        BY <2>7 DEF Taken
      <3>2. CASE job[c].at = "login_remove" /\ Counts(u, m, 0, 1)
        BY <3>1, <3>2 DEF Copies, Reads, Reading, Counts
      <3>3. CASE job[c].at = "login_ack" /\ Counts(u, m, 0, 0)
        BY <3>1, <3>3 DEF Copies, Reads, Reading, Counts
      <3> QED BY <3>1, <3>2, <3>3
    <2> QED BY <2>1, <2>3, <2>5, <2>6, <2>7 DEF Placed
  <1> QED BY <1>1, DeliveryInvariant, PTL
===============================================================================
