-------------------------- MODULE ChatSafetyProofs ---------------------------
(***************************************************************************)
(* The critical sections of _connMutex and the entries of _userConnMap.    *)
(*                                                                         *)
(* The inductive invariant ties every entry to the connection that owns it *)
(* (Owns: its login is past the insert, or it is logged in, and its close  *)
(* callback is not past the erase), every client to the handler that may run*)
(* for it (ModeFits), the mutex to the thread inside it, and the connection a*)
(* locked handler is about to send to, to the entry it was found in.       *)
(***************************************************************************)
EXTENDS ChatTypeProofs

\* Which handlers run for a client in which mode.
ModeFits(k, j) ==
    /\ j.at \in LoginSteps => k.mode \in {"fresh", "gone"}
    /\ j.at \in CloseSteps <=> k.mode = "closing"
    /\ k.mode = "down" => j.at = "idle"

\* The steps of login after its insert.
Inserted == LoginSteps \ {"login_insert"}

\* c may be the connection of u in the map of s.
Owns(c, s, u) ==
    /\ ServerOf[c] = s
    /\ \/ /\ client[c].mode \in {"menu", "gone"}
          /\ client[c].user = u
          /\ job[c].at \notin LoginSteps
       \/ /\ client[c].mode \in {"fresh", "gone"}
          /\ job[c].id = u
          /\ job[c].at \in Inserted

SessionInv ==
    /\ \A c \in Conns : ModeFits(client[c], job[c])
    /\ \A s \in Servers, u \in Users, c \in Conns :
         connMap[s][u] = c => Owns(c, s, u)

\* Between find and send the entry is still in the map.
TargetKept ==
    /\ \A c \in Conns :
         job[c].at = "chat_send" => connMap[ServerOf[c]][job[c].id] = job[c].tgt
    /\ \A s \in Servers :
         observer[s].at = "send" => connMap[s][observer[s].chan] = observer[s].tgt

LockInv == MutexOwned /\ TargetKept

SafeInv == TypeInv /\ SessionInv /\ LockInv

-----------------------------------------------------------------------------

\* A handler that goes on moves no other handler and keeps its user.
LEMMA GotoMoves ==
  ASSUME JobInv, NEW c \in Conns, NEW at, Goto(c, at)
  PROVE  /\ job'[c].at = at
         /\ job'[c].id = job[c].id
         /\ \A d \in Conns \ {c} : job'[d] = job[d]
  BY DEF JobInv, Job, Goto

\* A step of one handler that leaves the map and the clients alone keeps
\* SessionInv, if it neither starts nor ends the part of login after the insert.
LEMMA StepKeepsSession ==
  ASSUME TypeInv, SessionInv, NEW c \in Conns, UNCHANGED <<connMap, client>>,
         \A d \in Conns \ {c} : job'[d] = job[d],
         ModeFits(client[c], job'[c]),
         \/ job[c].at \notin LoginSteps /\ job'[c].at \notin LoginSteps
         \/ job[c].at \in Inserted /\ job'[c].at \in Inserted /\ job'[c].id = job[c].id
         \/ job[c].at = "idle" /\ client[c].mode = "fresh"
  PROVE  SessionInv'
  <1>1. \A d \in Conns : ModeFits(client'[d], job'[d])
    BY DEF SessionInv
  <1>2. ASSUME NEW s \in Servers, NEW u \in Users, NEW d \in Conns,
               connMap'[s][u] = d
        PROVE  Owns(d, s, u)'
    <2>1. Owns(d, s, u)
      BY <1>2 DEF SessionInv
    <2>2. CASE d # c
      BY <2>1, <2>2 DEF Owns
    <2>3. CASE d = c
      BY <2>1, <2>3 DEF Owns, Inserted, LoginSteps
    <2> QED BY <2>2, <2>3
  <1> QED BY <1>1, <1>2 DEF SessionInv

\* A step that is not about sessions keeps SessionInv.
LEMMA IdleKeepsSession ==
  ASSUME SessionInv, UNCHANGED <<connMap, client, job>>
  PROVE  SessionInv'
  BY DEF SessionInv, Owns

\* A handler step that stays inside, or outside, _connMutex keeps LockInv.
LEMMA StepKeepsLock ==
  ASSUME LockInv, NEW c \in Conns, UNCHANGED <<connMap, connMutex, observer>>,
         \A d \in Conns \ {c} : job'[d] = job[d],
         job[c].at \in LockedSteps <=> job'[c].at \in LockedSteps,
         job'[c].at # "chat_send"
  PROVE  LockInv'
  <1>1. MutexOwned'
    BY DEF LockInv, MutexOwned
  <1>2. TargetKept'
    BY DEF LockInv, TargetKept
  <1> QED BY <1>1, <1>2 DEF LockInv

\* A step that touches neither the mutex nor a job keeps LockInv.
LEMMA IdleKeepsLock ==
  ASSUME LockInv, UNCHANGED <<connMap, connMutex, observer, job>>
  PROVE  LockInv'
  BY DEF LockInv, MutexOwned, TargetKept

\* A critical section of login, loginOut or clientCloseException changes the map
\* of its server while nobody there is between a find and its send.
LEMMA EraseKeepsLock ==
  ASSUME TypeInv, LockInv, NEW c \in Conns, Free(ServerOf[c]), UNCHANGED
         <<connMutex, observer>>,
         \A s \in Servers \ {ServerOf[c]} : connMap'[s] = connMap[s],
         \A d \in Conns \ {c} : job'[d] = job[d],
         job'[c].at \notin LockedSteps
  PROVE  LockInv'
  <1>1. \A d \in Conns : ServerOf[d] = ServerOf[c] => job[d].at \notin LockedSteps
    BY SentinelAssumption DEF LockInv, MutexOwned, Free
  <1>2. observer[ServerOf[c]].at = "idle"
    BY SentinelAssumption, ServerOfAssumption DEF LockInv, MutexOwned, Free
  <1>3. MutexOwned'
    BY <1>1 DEF LockInv, MutexOwned
  <1>4. TargetKept'
    <2>1. \A s \in Servers : observer'[s].at = "send"
            => connMap'[s][observer'[s].chan] = observer'[s].tgt
      BY <1>2 DEF LockInv, TargetKept
    <2>2. ASSUME NEW d \in Conns, job'[d].at = "chat_send"
          PROVE  connMap'[ServerOf[d]][job'[d].id] = job'[d].tgt
      <3>1. d # c /\ job'[d] = job[d]
        BY <2>2 DEF LockedSteps
      <3>2. ServerOf[d] # ServerOf[c]
        BY <1>1, <2>2, <3>1 DEF LockedSteps
      <3> QED BY <2>2, <3>1, <3>2, ServerOfAssumption DEF LockInv, TargetKept
    <2> QED BY <2>1, <2>2 DEF TargetKept
  <1> QED BY <1>3, <1>4 DEF LockInv

\* What a step about one connection has to show of SessionInv: its own mode
\* and entries, and that no other connection gained an entry.
LEMMA SessionMoves ==
  ASSUME SessionInv, NEW c \in Conns,
         \A d \in Conns \ {c} : job'[d] = job[d] /\ client'[d] = client[d],
         ModeFits(client'[c], job'[c]),
         \A s \in Servers, u \in Users, d \in Conns \ {c} :
           connMap'[s][u] = d => connMap[s][u] = d,
         \A s \in Servers, u \in Users : connMap'[s][u] = c => Owns(c, s, u)'
  PROVE  SessionInv'
  <1>1. \A d \in Conns : ModeFits(client'[d], job'[d])
    BY DEF SessionInv
  <1>2. ASSUME NEW s \in Servers, NEW u \in Users, NEW d \in Conns,
               connMap'[s][u] = d
        PROVE  Owns(d, s, u)'
    <2>1. CASE d = c
      BY <1>2, <2>1
    <2>2. CASE d # c
      <3>1. Owns(d, s, u)
        BY <1>2, <2>2 DEF SessionInv
      <3> QED BY <2>2, <3>1 DEF Owns
    <2> QED BY <2>1, <2>2
  <1> QED BY <1>1, <1>2 DEF SessionInv

\* A handler that enters oneChat's or groupChat's section keeps LockInv.
LEMMA AcquireKeepsLock ==
  ASSUME TypeInv, LockInv, NEW c \in Conns, Acquire(ServerOf[c], c),
         UNCHANGED <<connMap, observer>>,
         \A d \in Conns \ {c} : job'[d] = job[d],
         job'[c].at \in LockedSteps,
         job'[c].at = "chat_send" => connMap[ServerOf[c]][job'[c].id] = job'[c].tgt
  PROVE  LockInv'
  <1>1. /\ connMutex[ServerOf[c]] = NoConn
        /\ connMutex'[ServerOf[c]] = c
        /\ \A s \in Servers \ {ServerOf[c]} : connMutex'[s] = connMutex[s]
    BY ServerOfAssumption DEF Acquire, Free, TypeInv, MapInv
  <1>2. MutexOwned'
    <2>1. ASSUME NEW d \in Conns
          PROVE  /\ connMutex'[ServerOf[d]] = d <=> job'[d].at \in LockedSteps
                 /\ \A s \in Servers : connMutex'[s] = d => s = ServerOf[d]
      <3>1. CASE d = c
        BY <1>1, <3>1 DEF LockInv, MutexOwned
      <3>2. CASE d # c
        BY <1>1, <3>2, SentinelAssumption, ServerOfAssumption
        DEF LockInv, MutexOwned
      <3> QED BY <3>1, <3>2
    <2>2. \A s \in Servers :
            connMutex'[s] = ObserverThread <=> observer'[s].at # "idle"
      BY <1>1, SentinelAssumption DEF LockInv, MutexOwned
    <2> QED BY <2>1, <2>2 DEF MutexOwned
  <1>3. TargetKept'
    BY DEF LockInv, TargetKept
  <1> QED BY <1>2, <1>3 DEF LockInv

\* A handler that leaves its section keeps LockInv.
LEMMA ReleaseKeepsLock ==
  ASSUME TypeInv, LockInv, NEW c \in Conns, Release(ServerOf[c]),
         UNCHANGED <<connMap, observer>>,
         \A d \in Conns \ {c} : job'[d] = job[d],
         job[c].at \in LockedSteps, job'[c].at \notin LockedSteps
  PROVE  LockInv'
  <1>1. /\ connMutex[ServerOf[c]] = c
        /\ connMutex'[ServerOf[c]] = NoConn
        /\ \A s \in Servers \ {ServerOf[c]} : connMutex'[s] = connMutex[s]
    BY ServerOfAssumption DEF Release, TypeInv, MapInv, LockInv, MutexOwned
  <1>2. MutexOwned'
    <2>1. ASSUME NEW d \in Conns
          PROVE  /\ connMutex'[ServerOf[d]] = d <=> job'[d].at \in LockedSteps
                 /\ \A s \in Servers : connMutex'[s] = d => s = ServerOf[d]
      <3>1. CASE d = c
        BY <1>1, <3>1, SentinelAssumption DEF LockInv, MutexOwned
      <3>2. CASE d # c
        BY <1>1, <3>2, SentinelAssumption, ServerOfAssumption
        DEF LockInv, MutexOwned
      <3> QED BY <3>1, <3>2
    <2>2. \A s \in Servers :
            connMutex'[s] = ObserverThread <=> observer'[s].at # "idle"
      BY <1>1, SentinelAssumption DEF LockInv, MutexOwned
    <2> QED BY <2>1, <2>2 DEF MutexOwned
  <1>3. TargetKept'
    BY DEF LockInv, TargetKept, LockedSteps
  <1> QED BY <1>2, <1>3 DEF LockInv

\* handleRedisSubscribeMsg, entering its section, keeps LockInv.
LEMMA ObserverAcquires ==
  ASSUME TypeInv, LockInv, NEW s \in Servers, Acquire(s, ObserverThread),
         UNCHANGED <<connMap, job>>,
         \A t \in Servers \ {s} : observer'[t] = observer[t],
         observer'[s].at # "idle",
         observer'[s].at = "send" => connMap[s][observer'[s].chan] = observer'[s].tgt
  PROVE  LockInv'
  <1>1. /\ connMutex[s] = NoConn
        /\ connMutex'[s] = ObserverThread
        /\ \A t \in Servers \ {s} : connMutex'[t] = connMutex[t]
    BY DEF Acquire, Free, TypeInv, MapInv
  <1>2. \A d \in Conns :
          /\ connMutex'[ServerOf[d]] = d <=> job'[d].at \in LockedSteps
          /\ \A t \in Servers : connMutex'[t] = d => t = ServerOf[d]
    BY <1>1, SentinelAssumption, ServerOfAssumption DEF LockInv, MutexOwned
  <1>3. \A t \in Servers :
          connMutex'[t] = ObserverThread <=> observer'[t].at # "idle"
    BY <1>1 DEF LockInv, MutexOwned
  <1>4. TargetKept'
    BY DEF LockInv, TargetKept
  <1> QED BY <1>2, <1>3, <1>4 DEF LockInv, MutexOwned

\* handleRedisSubscribeMsg, after its send or insert, keeps LockInv.
LEMMA ObserverReleases ==
  ASSUME TypeInv, LockInv, NEW s \in Servers, Release(s),
         UNCHANGED <<connMap, job>>, observer[s].at # "idle",
         observer' = [observer EXCEPT ![s] = Asleep]
  PROVE  LockInv'
  <1>1. /\ connMutex[s] = ObserverThread
        /\ connMutex'[s] = NoConn
        /\ \A t \in Servers \ {s} : connMutex'[t] = connMutex[t]
    BY DEF Release, TypeInv, MapInv, LockInv, MutexOwned
  <1>2. /\ observer'[s].at = "idle"
        /\ \A t \in Servers \ {s} : observer'[t] = observer[t]
    BY DEF Asleep, TypeInv, ObserverInv
  <1>3. \A d \in Conns :
          /\ connMutex'[ServerOf[d]] = d <=> job'[d].at \in LockedSteps
          /\ \A t \in Servers : connMutex'[t] = d => t = ServerOf[d]
    BY <1>1, SentinelAssumption, ServerOfAssumption DEF LockInv, MutexOwned
  <1>4. \A t \in Servers :
          connMutex'[t] = ObserverThread <=> observer'[t].at # "idle"
    BY <1>1, <1>2, SentinelAssumption DEF LockInv, MutexOwned
  <1>5. TargetKept'
    BY <1>2 DEF LockInv, TargetKept
  <1> QED BY <1>3, <1>4, <1>5 DEF LockInv, MutexOwned

\* A process that ends takes its connections, entries and locks with it, and
\* no others.
LEMMA VanishKeeps ==
  ASSUME TypeInv, SessionInv, LockInv, NEW s \in Servers, Vanish(s)
  PROVE  SessionInv' /\ LockInv'
  <1>1. /\ connMap'[s] = [u \in Users |-> NoConn]
        /\ connMutex'[s] = NoConn
        /\ observer'[s].at = "idle"
        /\ \A t \in Servers \ {s} : /\ connMap'[t] = connMap[t]
                                    /\ connMutex'[t] = connMutex[t]
                                    /\ observer'[t] = observer[t]
    BY DEF Vanish, TypeInv, MapInv, ObserverInv, Asleep
  <1>2. \A c \in Conns : IF ServerOf[c] = s
                         THEN /\ client'[c].mode = "down"
                              /\ job'[c].at = "idle"
                         ELSE client'[c] = client[c] /\ job'[c] = job[c]
    BY DEF Vanish, NoClient, Idle
  <1>3. \A c \in Conns : ModeFits(client'[c], job'[c])
    BY <1>2 DEF SessionInv, ModeFits, LoginSteps, CloseSteps
  <1>4. ASSUME NEW t \in Servers, NEW u \in Users, NEW c \in Conns,
               connMap'[t][u] = c
        PROVE  Owns(c, t, u)'
    <2>1. t # s
      BY <1>1, <1>4, SentinelAssumption
    <2>2. Owns(c, t, u)
      BY <1>1, <1>4, <2>1 DEF SessionInv
    <2> QED BY <1>2, <2>1, <2>2 DEF Owns
  <1>5. ASSUME NEW c \in Conns
        PROVE  /\ connMutex'[ServerOf[c]] = c <=> job'[c].at \in LockedSteps
               /\ \A t \in Servers : connMutex'[t] = c => t = ServerOf[c]
    <2>1. CASE ServerOf[c] = s
      BY <1>1, <1>2, <2>1, SentinelAssumption
      DEF LockInv, MutexOwned, LockedSteps
    <2>2. CASE ServerOf[c] # s
      BY <1>1, <1>2, <2>2, SentinelAssumption, ServerOfAssumption
      DEF LockInv, MutexOwned
    <2> QED BY <2>1, <2>2
  <1>6. \A t \in Servers :
          connMutex'[t] = ObserverThread <=> observer'[t].at # "idle"
    BY <1>1, SentinelAssumption DEF LockInv, MutexOwned
  <1>7. TargetKept'
    <2>1. ASSUME NEW c \in Conns, job'[c].at = "chat_send"
          PROVE  connMap'[ServerOf[c]][job'[c].id] = job'[c].tgt
      <3>1. ServerOf[c] # s /\ job'[c] = job[c]
        BY <1>2, <2>1
      <3> QED BY <1>1, <2>1, <3>1, ServerOfAssumption DEF LockInv, TargetKept
    <2>2. \A t \in Servers : observer'[t].at = "send"
            => connMap'[t][observer'[t].chan] = observer'[t].tgt
      BY <1>1 DEF LockInv, TargetKept
    <2> QED BY <2>1, <2>2 DEF TargetKept
  <1> QED BY <1>3, <1>4, <1>5, <1>6, <1>7 DEF SessionInv, LockInv, MutexOwned

\* A handler that returns is idle and moves no other handler.
LEMMA ReturnMoves ==
  ASSUME JobInv, NEW c \in Conns, Return(c)
  PROVE  job'[c].at = "idle" /\ \A d \in Conns \ {c} : job'[d] = job[d]
  BY DEF JobInv, Return, Idle

\* A handler that starts moves no other handler.
LEMMA BeginMoves ==
  ASSUME JobInv, NEW c \in Conns, NEW at, NEW u,
         job' = [job EXCEPT ![c] = [Idle EXCEPT !.at = at, !.id = u]]
  PROVE  job'[c].at = at /\ \A d \in Conns \ {c} : job'[d] = job[d]
  BY DEF JobInv, Idle

\* The branch on the state of a recipient has two ends.
LEMMA RouteMoves ==
  ASSUME JobInv, NEW c \in Conns, NEW u, NEW online, NEW offline,
         Route(c, u, online, offline)
  PROVE  /\ job'[c].at \in {online, offline}
         /\ \A d \in Conns \ {c} : job'[d] = job[d]
  BY DEF JobInv, Job, Route

\* Every action keeps SessionInv and LockInv: one step of the proof per action.
LEMMA SafeStep ==
  ASSUME TypeInv, SessionInv, LockInv, [Next]_vars
  PROVE  SessionInv' /\ LockInv'
  <1>1. ASSUME NEW c \in Conns, Connect(c) PROVE SessionInv' /\ LockInv'
    <2>1. /\ client[c].mode = "down" /\ job[c].at = "idle"
          /\ client'[c].mode = "fresh"
          /\ \A d \in Conns \ {c} : client'[d] = client[d]
      BY <1>1 DEF Connect, TypeInv, ClientInv, Client, SessionInv, ModeFits
    <2>2. \A s \in Servers, u \in Users : connMap[s][u] # c
      BY <2>1 DEF SessionInv, Owns, Inserted, LoginSteps
    <2>3. SessionInv'
      BY <1>1, <2>1, <2>2, SessionMoves
      DEF Connect, mapVars, ModeFits, LoginSteps, CloseSteps
    <2>4. LockInv'
      BY <1>1, IdleKeepsLock DEF Connect, mapVars
    <2> QED BY <2>3, <2>4
  <1>2. ASSUME NEW c \in Conns, Hangup(c) PROVE SessionInv' /\ LockInv'
    <2>1. /\ client[c].mode \in {"fresh", "menu", "left"}
          /\ client'[c].mode = "gone" /\ client'[c].user = client[c].user
          /\ \A d \in Conns \ {c} : client'[d] = client[d]
      BY <1>2 DEF Hangup, Open, TypeInv, ClientInv, Client
    <2>2. ModeFits(client'[c], job'[c])
      BY <1>2, <2>1 DEF Hangup, SessionInv, ModeFits
    <2>3. \A s \in Servers, u \in Users : connMap'[s][u] = c => Owns(c, s, u)'
      BY <1>2, <2>1 DEF Hangup, mapVars, SessionInv, Owns
    <2>4. SessionInv'
      BY <1>2, <2>1, <2>2, <2>3, SessionMoves DEF Hangup, mapVars
    <2>5. LockInv'
      BY <1>2, IdleKeepsLock DEF Hangup, mapVars
    <2> QED BY <2>4, <2>5
  <1>3. ASSUME NEW c \in Conns, NEW u \in Users, LoginQuery(c, u)
        PROVE  SessionInv' /\ LockInv'
    <2>1. CASE job' = [job EXCEPT ![c] = [Idle EXCEPT !.at = "login_insert", !.id = u]]
      <3>1. /\ job'[c].at = "login_insert"
            /\ \A d \in Conns \ {c} : job'[d] = job[d]
        BY <2>1, BeginMoves DEF TypeInv
      <3>2. SessionInv'
        BY <1>3, <3>1, StepKeepsSession
        DEF LoginQuery, mapVars, ModeFits, LoginSteps, CloseSteps
      <3>3. LockInv'
        BY <1>3, <3>1, StepKeepsLock DEF LoginQuery, mapVars, LockedSteps
      <3> QED BY <3>2, <3>3
    <2>2. CASE UNCHANGED job
      BY <1>3, <2>2, IdleKeepsSession, IdleKeepsLock DEF LoginQuery, mapVars
    <2> QED BY <1>3, <2>1, <2>2 DEF LoginQuery
  <1>4. ASSUME NEW c \in Conns, LoginInsert(c) PROVE SessionInv' /\ LockInv'
    <2> DEFINE s == ServerOf[c]
               u == job[c].id
    <2>1. /\ job[c].at = "login_insert" /\ job'[c].at = "login_subscribe"
          /\ job'[c].id = u
          /\ \A d \in Conns \ {c} : job'[d] = job[d]
      BY <1>4, GotoMoves DEF LoginInsert, TypeInv
    <2>2. u \in Users /\ s \in Servers
      BY <2>1, ServerOfAssumption DEF TypeInv, JobInv, JobFits
    <2>3. \A t \in Servers, v \in Users :
            connMap'[t][v] # connMap[t][v] => t = s /\ v = u /\ connMap'[t][v] = c
      BY <1>4, <2>2 DEF LoginInsert, TypeInv, MapInv
    <2>4. client[c].mode \in {"fresh", "gone"}
      BY <2>1 DEF SessionInv, ModeFits, LoginSteps
    <2>5. \A t \in Servers, v \in Users : connMap[t][v] # c
      BY <2>1 DEF SessionInv, Owns, Inserted, LoginSteps
    <2>6. SessionInv'
      <3>1. \A t \in Servers, v \in Users : connMap'[t][v] = c => Owns(c, t, v)'
        BY <1>4, <2>1, <2>3, <2>4, <2>5
        DEF LoginInsert, Owns, Inserted, LoginSteps
      <3>2. ModeFits(client'[c], job'[c])
        BY <1>4, <2>1, <2>4 DEF LoginInsert, ModeFits, LoginSteps, CloseSteps
      <3>3. \A t \in Servers, v \in Users, d \in Conns \ {c} :
              connMap'[t][v] = d => connMap[t][v] = d
        BY <2>3
      <3>4. UNCHANGED client
        BY <1>4 DEF LoginInsert
      <3> QED BY <2>1, <3>1, <3>2, <3>3, <3>4, SessionMoves
    <2>7. LockInv'
      <3>1. \A t \in Servers \ {ServerOf[c]} : connMap'[t] = connMap[t]
        BY <1>4 DEF LoginInsert, TypeInv, MapInv
      <3> QED BY <1>4, <2>1, <3>1, EraseKeepsLock DEF LoginInsert, LockedSteps
    <2> QED BY <2>6, <2>7
  <1>5. ASSUME NEW c \in Conns, LoginSubscribe(c) PROVE SessionInv' /\ LockInv'
    <2>1. /\ job'[c].at # job[c].at /\ job'[c].at \notin LoginSteps \ Inserted
          /\ job'[c].at \in LoginSteps <=> job[c].at \in LoginSteps
          /\ job'[c].at \in CloseSteps <=> job[c].at \in CloseSteps
          /\ job'[c].at \in LockedSteps <=> job[c].at \in LockedSteps
          /\ job[c].at # "idle" /\ job'[c].at # "chat_send"
          /\ job'[c].id = job[c].id
          /\ \A d \in Conns \ {c} : job'[d] = job[d]
      BY <1>5, GotoMoves
      DEF LoginSubscribe, TypeInv, Inserted, LoginSteps, CloseSteps, LockedSteps
    <2>2. SessionInv'
      BY <1>5, <2>1, StepKeepsSession
      DEF LoginSubscribe, mapVars, SessionInv, ModeFits, Inserted
    <2>3. LockInv'
      BY <1>5, <2>1, StepKeepsLock DEF LoginSubscribe, mapVars
    <2> QED BY <2>2, <2>3
  <1>6. ASSUME NEW c \in Conns, LoginOnline(c) PROVE SessionInv' /\ LockInv'
    <2>1. /\ job'[c].at # job[c].at /\ job'[c].at \notin LoginSteps \ Inserted
          /\ job'[c].at \in LoginSteps <=> job[c].at \in LoginSteps
          /\ job'[c].at \in CloseSteps <=> job[c].at \in CloseSteps
          /\ job'[c].at \in LockedSteps <=> job[c].at \in LockedSteps
          /\ job[c].at # "idle" /\ job'[c].at # "chat_send"
          /\ job'[c].id = job[c].id
          /\ \A d \in Conns \ {c} : job'[d] = job[d]
      BY <1>6, GotoMoves
      DEF LoginOnline, TypeInv, Inserted, LoginSteps, CloseSteps, LockedSteps
    <2>2. SessionInv'
      BY <1>6, <2>1, StepKeepsSession
      DEF LoginOnline, mapVars, SessionInv, ModeFits, Inserted
    <2>3. LockInv'
      BY <1>6, <2>1, StepKeepsLock DEF LoginOnline, mapVars
    <2> QED BY <2>2, <2>3
  <1>7. ASSUME NEW c \in Conns, LoginReadOffline(c)
        PROVE  SessionInv' /\ LockInv'
    <2>1. /\ job[c].at = "login_read" /\ job'[c].at \in {"login_remove", "login_ack"}
          /\ job'[c].id = job[c].id
          /\ \A d \in Conns \ {c} : job'[d] = job[d]
      BY <1>7 DEF LoginReadOffline, Goto, TypeInv, JobInv, Job
    <2>2. SessionInv'
      BY <1>7, <2>1, StepKeepsSession
      DEF LoginReadOffline, mapVars, SessionInv, ModeFits, Inserted, LoginSteps, CloseSteps
    <2>3. LockInv'
      BY <1>7, <2>1, StepKeepsLock DEF LoginReadOffline, mapVars, LockedSteps
    <2> QED BY <2>2, <2>3
  <1>8. ASSUME NEW c \in Conns, LoginRemoveOffline(c)
        PROVE  SessionInv' /\ LockInv'
    <2>1. /\ job'[c].at # job[c].at /\ job'[c].at \notin LoginSteps \ Inserted
          /\ job'[c].at \in LoginSteps <=> job[c].at \in LoginSteps
          /\ job'[c].at \in CloseSteps <=> job[c].at \in CloseSteps
          /\ job'[c].at \in LockedSteps <=> job[c].at \in LockedSteps
          /\ job[c].at # "idle" /\ job'[c].at # "chat_send"
          /\ job'[c].id = job[c].id
          /\ \A d \in Conns \ {c} : job'[d] = job[d]
      BY <1>8, GotoMoves
      DEF LoginRemoveOffline, TypeInv, Inserted, LoginSteps, CloseSteps,
          LockedSteps
    <2>2. SessionInv'
      BY <1>8, <2>1, StepKeepsSession
      DEF LoginRemoveOffline, mapVars, SessionInv, ModeFits, Inserted
    <2>3. LockInv'
      BY <1>8, <2>1, StepKeepsLock DEF LoginRemoveOffline, mapVars
    <2> QED BY <2>2, <2>3
  <1>9. ASSUME NEW c \in Conns, LoginAck(c) PROVE SessionInv' /\ LockInv'
    <2>1. /\ job[c].at = "login_ack" /\ job'[c].at = "idle"
          /\ \A d \in Conns \ {c} : job'[d] = job[d]
      BY <1>9, ReturnMoves DEF LoginAck, TypeInv
    <2>2. client[c].mode \in {"fresh", "gone"}
      BY <2>1 DEF SessionInv, ModeFits, LoginSteps
    <2>3. /\ client'[c].mode \in {"menu", "gone"} /\ client'[c].user = job[c].id
          /\ \A d \in Conns \ {c} : client'[d] = client[d]
      BY <1>9, <2>2 DEF LoginAck, Open, TypeInv, ClientInv, Client
    <2>4. SessionInv'
      <3>1. \A s \in Servers, u \in Users : connMap'[s][u] = c => Owns(c, s, u)'
        <4>1. \A s \in Servers, u \in Users : connMap[s][u] = c => Owns(c, s, u)
          BY DEF SessionInv
        <4> QED BY <1>9, <2>1, <2>3, <4>1
                DEF LoginAck, mapVars, Owns, LoginSteps, Inserted
      <3> QED BY <1>9, <2>1, <2>3, <3>1, SessionMoves
              DEF LoginAck, mapVars, ModeFits, LoginSteps, CloseSteps
    <2>5. LockInv'
      BY <1>9, <2>1, StepKeepsLock DEF LoginAck, mapVars, LockedSteps
    <2> QED BY <2>4, <2>5
  <1>10. ASSUME NEW c \in Conns, LogoutErase(c) PROVE SessionInv' /\ LockInv'
    <2> DEFINE s == ServerOf[c]
               u == client[c].user
    <2>1. /\ job[c].at = "idle" /\ job'[c].at = "logout_unsubscribe"
          /\ \A d \in Conns \ {c} : job'[d] = job[d]
      BY <1>10, BeginMoves DEF LogoutErase, Commands, TypeInv
    <2>2. /\ client[c].mode \in {"menu", "left"} /\ client'[c].mode = "left"
          /\ \A d \in Conns \ {c} : client'[d] = client[d]
      BY <1>10 DEF LogoutErase, Commands, TypeInv, ClientInv, Client
    <2>3. u \in Users /\ s \in Servers
      BY <2>2, ServerOfAssumption DEF TypeInv, ClientInv
    <2>4. /\ connMap'[s][u] = NoConn
          /\ \A t \in Servers, v \in Users :
               connMap'[t][v] # connMap[t][v] => t = s /\ v = u
      BY <1>10, <2>3 DEF LogoutErase, TypeInv, MapInv
    <2>5. SessionInv'
      <3>1. \A t \in Servers, v \in Users : connMap'[t][v] # c
        <4>1. \A t \in Servers, v \in Users : connMap[t][v] = c => t = s /\ v = u
          BY <2>1, <2>2 DEF SessionInv, Owns, Inserted, LoginSteps
        <4> QED BY <2>4, <4>1, SentinelAssumption
      <3>2. \A t \in Servers, v \in Users, d \in Conns \ {c} :
              connMap'[t][v] = d => connMap[t][v] = d
        BY <2>4, SentinelAssumption
      <3> QED BY <2>1, <2>2, <3>1, <3>2, SessionMoves
              DEF ModeFits, LoginSteps, CloseSteps
    <2>6. LockInv'
      <3>1. \A t \in Servers \ {ServerOf[c]} : connMap'[t] = connMap[t]
        BY <1>10 DEF LogoutErase, TypeInv, MapInv
      <3> QED BY <1>10, <2>1, <3>1, EraseKeepsLock DEF LogoutErase, LockedSteps
    <2> QED BY <2>5, <2>6
  <1>11. ASSUME NEW c \in Conns, LogoutUnsubscribe(c)
         PROVE  SessionInv' /\ LockInv'
    <2>1. /\ job'[c].at # job[c].at /\ job'[c].at \notin LoginSteps \ Inserted
          /\ job'[c].at \in LoginSteps <=> job[c].at \in LoginSteps
          /\ job'[c].at \in CloseSteps <=> job[c].at \in CloseSteps
          /\ job'[c].at \in LockedSteps <=> job[c].at \in LockedSteps
          /\ job[c].at # "idle" /\ job'[c].at # "chat_send"
          /\ job'[c].id = job[c].id
          /\ \A d \in Conns \ {c} : job'[d] = job[d]
      BY <1>11, GotoMoves
      DEF LogoutUnsubscribe, TypeInv, Inserted, LoginSteps, CloseSteps,
          LockedSteps
    <2>2. SessionInv'
      BY <1>11, <2>1, StepKeepsSession
      DEF LogoutUnsubscribe, mapVars, SessionInv, ModeFits, Inserted
    <2>3. LockInv'
      BY <1>11, <2>1, StepKeepsLock DEF LogoutUnsubscribe, mapVars
    <2> QED BY <2>2, <2>3
  <1>12. ASSUME NEW c \in Conns, LogoutOffline(c) PROVE SessionInv' /\ LockInv'
    <2>1. /\ job[c].at \notin LoginSteps \cup CloseSteps
          /\ job'[c].at \notin LoginSteps \cup CloseSteps
          /\ client[c].mode = "down" => job'[c].at = "idle"
          /\ \A d \in Conns \ {c} : job'[d] = job[d]
      BY <1>12, ReturnMoves
      DEF LogoutOffline, TypeInv, SessionInv, ModeFits, LoginSteps, CloseSteps,
          Commands
    <2>2. SessionInv'
      BY <1>12, <2>1, StepKeepsSession
      DEF LogoutOffline, mapVars, SessionInv, ModeFits
    <2>3. LockInv'
      BY <1>12, <2>1, StepKeepsLock, ReturnMoves
      DEF LogoutOffline, mapVars, LockedSteps, TypeInv
    <2> QED BY <2>2, <2>3
  <1>13. ASSUME NEW c \in Conns, CloseErase(c) PROVE SessionInv' /\ LockInv'
    <2> DEFINE s == ServerOf[c]
    <2>1. job[c].at = "idle" /\ client[c].mode = "gone" /\ s \in Servers
      BY <1>13, ServerOfAssumption DEF CloseErase
    <2>2. \A t \in Servers, v \in Users : connMap[t][v] = c
                                          => t = s /\ v = client[c].user
      BY <2>1 DEF SessionInv, Owns, Inserted, LoginSteps
    <2>3. ASSUME NEW u \in EntriesOf(c),
                 connMap' = [connMap EXCEPT ![s][u] = NoConn],
                 client' = [client EXCEPT ![c].mode = "closing"],
                 job' = [job EXCEPT ![c] = [Idle EXCEPT !.at = "close_unsubscribe",
                                                        !.id = u]]
          PROVE  SessionInv' /\ LockInv'
      <3>1. u \in Users /\ connMap[s][u] = c
        BY DEF EntriesOf
      <3>2. /\ job'[c].at = "close_unsubscribe"
            /\ \A d \in Conns \ {c} : job'[d] = job[d]
        BY <2>3, BeginMoves DEF TypeInv
      <3>3. /\ client'[c].mode = "closing"
            /\ \A d \in Conns \ {c} : client'[d] = client[d]
        BY <2>3 DEF TypeInv, ClientInv, Client
      <3>4. /\ connMap'[s][u] = NoConn
            /\ \A t \in Servers, v \in Users :
                 connMap'[t][v] # connMap[t][v] => t = s /\ v = u
        BY <2>1, <2>3, <3>1 DEF TypeInv, MapInv
      <3>5. SessionInv'
        <4>1. \A t \in Servers, v \in Users : connMap'[t][v] # c
          BY <2>1, <2>2, <3>1, <3>4, SentinelAssumption
        <4>2. \A t \in Servers, v \in Users, d \in Conns \ {c} :
                connMap'[t][v] = d => connMap[t][v] = d
          BY <3>4, SentinelAssumption
        <4> QED BY <3>2, <3>3, <4>1, <4>2, SessionMoves
                DEF ModeFits, LoginSteps, CloseSteps
      <3>6. LockInv'
        <4>1. \A t \in Servers \ {ServerOf[c]} : connMap'[t] = connMap[t]
          BY <2>3 DEF TypeInv, MapInv
        <4> QED BY <1>13, <3>2, <4>1, EraseKeepsLock DEF CloseErase, LockedSteps
      <3> QED BY <3>5, <3>6
    <2>4. ASSUME EntriesOf(c) = {}, client' = [client EXCEPT ![c] = NoClient],
                 UNCHANGED <<connMap, job>>
          PROVE  SessionInv' /\ LockInv'
      <3>1. /\ client'[c].mode = "down"
            /\ \A d \in Conns \ {c} : client'[d] = client[d]
        BY <2>4 DEF TypeInv, ClientInv, NoClient
      <3>2. \A t \in Servers, v \in Users : connMap[t][v] # c
        BY <2>2, <2>4 DEF EntriesOf
      <3>3. SessionInv'
        BY <2>1, <2>4, <3>1, <3>2, SessionMoves
        DEF ModeFits, LoginSteps, CloseSteps
      <3>4. LockInv'
        BY <1>13, <2>4, IdleKeepsLock DEF CloseErase
      <3> QED BY <3>3, <3>4
    <2> QED BY <1>13, <2>3, <2>4 DEF CloseErase
  <1>14. ASSUME NEW c \in Conns, CloseUnsubscribe(c)
         PROVE  SessionInv' /\ LockInv'
    <2>1. /\ job'[c].at # job[c].at /\ job'[c].at \notin LoginSteps \ Inserted
          /\ job'[c].at \in LoginSteps <=> job[c].at \in LoginSteps
          /\ job'[c].at \in CloseSteps <=> job[c].at \in CloseSteps
          /\ job'[c].at \in LockedSteps <=> job[c].at \in LockedSteps
          /\ job[c].at # "idle" /\ job'[c].at # "chat_send"
          /\ job'[c].id = job[c].id
          /\ \A d \in Conns \ {c} : job'[d] = job[d]
      BY <1>14, GotoMoves
      DEF CloseUnsubscribe, TypeInv, Inserted, LoginSteps, CloseSteps,
          LockedSteps
    <2>2. SessionInv'
      BY <1>14, <2>1, StepKeepsSession
      DEF CloseUnsubscribe, mapVars, SessionInv, ModeFits, Inserted
    <2>3. LockInv'
      BY <1>14, <2>1, StepKeepsLock DEF CloseUnsubscribe, mapVars
    <2> QED BY <2>2, <2>3
  <1>15. ASSUME NEW c \in Conns, CloseOffline(c) PROVE SessionInv' /\ LockInv'
    <2>1. /\ job[c].at = "close_offline" /\ job'[c].at = "idle"
          /\ \A d \in Conns \ {c} : job'[d] = job[d]
      BY <1>15, ReturnMoves DEF CloseOffline, TypeInv
    <2>2. /\ client'[c].mode = "down"
          /\ \A d \in Conns \ {c} : client'[d] = client[d]
      BY <1>15 DEF CloseOffline, TypeInv, ClientInv, NoClient
    <2>3. \A s \in Servers, u \in Users : connMap[s][u] # c
      <3>1. client[c].mode = "closing"
        BY <2>1 DEF SessionInv, ModeFits, CloseSteps
      <3> QED BY <3>1 DEF SessionInv, Owns
    <2>4. SessionInv'
      BY <1>15, <2>1, <2>2, <2>3, SessionMoves
      DEF CloseOffline, mapVars, ModeFits, LoginSteps, CloseSteps
    <2>5. LockInv'
      BY <1>15, <2>1, StepKeepsLock DEF CloseOffline, mapVars, LockedSteps
    <2> QED BY <2>4, <2>5
  <1>16. ASSUME NEW c \in Conns, NEW m \in Msgs, NEW d \in Users, ChatFind(c, m,
                d)
         PROVE  SessionInv' /\ LockInv'
    <2>1. job[c].at = "idle" /\ client[c].mode \in {"menu", "left"}
      BY <1>16 DEF ChatFind, Commands
    <2>2. CASE connMap[ServerOf[c]][d] # NoConn
      <3>1. /\ job'[c].at = "chat_send" /\ job'[c].id = d
            /\ job'[c].tgt = connMap[ServerOf[c]][d]
            /\ \A e \in Conns \ {c} : job'[e] = job[e]
        BY <1>16, <2>2 DEF ChatFind, Idle, TypeInv, JobInv
      <3>2. SessionInv'
        BY <1>16, <2>1, <3>1, StepKeepsSession
        DEF ChatFind, ModeFits, LoginSteps, CloseSteps
      <3>3. Acquire(ServerOf[c], c)
        BY <1>16, <2>2 DEF ChatFind
      <3>4. LockInv'
        BY <1>16, <3>1, <3>3, AcquireKeepsLock DEF ChatFind, LockedSteps
      <3> QED BY <3>2, <3>4
    <2>3. CASE connMap[ServerOf[c]][d] = NoConn
      <3>1. /\ job'[c].at = "chat_query"
            /\ \A e \in Conns \ {c} : job'[e] = job[e]
        BY <1>16, <2>3 DEF ChatFind, Idle, TypeInv, JobInv
      <3>2. SessionInv'
        BY <1>16, <2>1, <3>1, StepKeepsSession
        DEF ChatFind, ModeFits, LoginSteps, CloseSteps
      <3>3. LockInv'
        BY <1>16, <2>1, <2>3, <3>1, StepKeepsLock DEF ChatFind, LockedSteps
      <3> QED BY <3>2, <3>3
    <2> QED BY <2>2, <2>3
  <1>17. ASSUME NEW c \in Conns, ChatSend(c) PROVE SessionInv' /\ LockInv'
    <2>1. /\ job[c].at \notin LoginSteps \cup CloseSteps
          /\ job'[c].at \notin LoginSteps \cup CloseSteps
          /\ client[c].mode = "down" => job'[c].at = "idle"
          /\ \A d \in Conns \ {c} : job'[d] = job[d]
      BY <1>17, ReturnMoves
      DEF ChatSend, TypeInv, SessionInv, ModeFits, LoginSteps, CloseSteps,
          Commands
    <2>2. SessionInv'
      BY <1>17, <2>1, StepKeepsSession
      DEF ChatSend, mapVars, SessionInv, ModeFits
    <2>3. LockInv'
      BY <1>17, <2>1, ReleaseKeepsLock, ReturnMoves
      DEF ChatSend, mapVars, LockedSteps, TypeInv
    <2> QED BY <2>2, <2>3
  <1>18. ASSUME NEW c \in Conns, ChatQuery(c) PROVE SessionInv' /\ LockInv'
    <2>1. /\ job[c].at \notin LoginSteps \cup CloseSteps
          /\ job'[c].at \notin LoginSteps \cup CloseSteps
          /\ client[c].mode = "down" => job'[c].at = "idle"
          /\ \A d \in Conns \ {c} : job'[d] = job[d]
      BY <1>18, RouteMoves
      DEF ChatQuery, TypeInv, SessionInv, ModeFits, LoginSteps, CloseSteps,
          Commands
    <2>2. SessionInv'
      BY <1>18, <2>1, StepKeepsSession
      DEF ChatQuery, mapVars, SessionInv, ModeFits
    <2>3. LockInv'
      BY <1>18, <2>1, StepKeepsLock, RouteMoves
      DEF ChatQuery, mapVars, LockedSteps, TypeInv
    <2> QED BY <2>2, <2>3
  <1>19. ASSUME NEW c \in Conns, ChatPublish(c) PROVE SessionInv' /\ LockInv'
    <2>1. /\ job[c].at \notin LoginSteps \cup CloseSteps
          /\ job'[c].at \notin LoginSteps \cup CloseSteps
          /\ client[c].mode = "down" => job'[c].at = "idle"
          /\ \A d \in Conns \ {c} : job'[d] = job[d]
      BY <1>19, ReturnMoves
      DEF ChatPublish, TypeInv, SessionInv, ModeFits, LoginSteps, CloseSteps,
          Commands
    <2>2. SessionInv'
      BY <1>19, <2>1, StepKeepsSession
      DEF ChatPublish, mapVars, SessionInv, ModeFits
    <2>3. LockInv'
      BY <1>19, <2>1, StepKeepsLock, ReturnMoves
      DEF ChatPublish, mapVars, LockedSteps, TypeInv
    <2> QED BY <2>2, <2>3
  <1>20. ASSUME NEW c \in Conns, ChatStore(c) PROVE SessionInv' /\ LockInv'
    <2>1. /\ job[c].at \notin LoginSteps \cup CloseSteps
          /\ job'[c].at \notin LoginSteps \cup CloseSteps
          /\ client[c].mode = "down" => job'[c].at = "idle"
          /\ \A d \in Conns \ {c} : job'[d] = job[d]
      BY <1>20, ReturnMoves
      DEF ChatStore, TypeInv, SessionInv, ModeFits, LoginSteps, CloseSteps,
          Commands
    <2>2. SessionInv'
      BY <1>20, <2>1, StepKeepsSession
      DEF ChatStore, mapVars, SessionInv, ModeFits
    <2>3. LockInv'
      BY <1>20, <2>1, StepKeepsLock, ReturnMoves
      DEF ChatStore, mapVars, LockedSteps, TypeInv
    <2> QED BY <2>2, <2>3
  <1>21. ASSUME NEW c \in Conns, NEW g \in Groups, AddGroup(c, g)
         PROVE  SessionInv' /\ LockInv'
    BY <1>21, IdleKeepsSession, IdleKeepsLock DEF AddGroup, mapVars
  <1>22. ASSUME NEW c \in Conns, NEW m \in Msgs, NEW g \in Groups, GroupQuery(c,
                m, g)
         PROVE  SessionInv' /\ LockInv'
    <2>1. /\ job[c].at = "idle" /\ client[c].mode \in {"menu", "left"}
          /\ job'[c].at = "group_lock"
          /\ \A e \in Conns \ {c} : job'[e] = job[e]
      BY <1>22 DEF GroupQuery, Commands, Idle, TypeInv, JobInv
    <2>2. SessionInv'
      BY <1>22, <2>1, StepKeepsSession
      DEF GroupQuery, mapVars, ModeFits, LoginSteps, CloseSteps
    <2>3. LockInv'
      BY <1>22, <2>1, StepKeepsLock DEF GroupQuery, mapVars, LockedSteps
    <2> QED BY <2>2, <2>3
  <1>23. ASSUME NEW c \in Conns, GroupLock(c) PROVE SessionInv' /\ LockInv'
    <2>1. /\ job[c].at = "group_lock" /\ job'[c].at = "group_next"
          /\ \A e \in Conns \ {c} : job'[e] = job[e]
      BY <1>23, GotoMoves DEF GroupLock, TypeInv
    <2>2. SessionInv'
      BY <1>23, <2>1, StepKeepsSession
      DEF GroupLock, SessionInv, ModeFits, LoginSteps, CloseSteps
    <2>3. LockInv'
      BY <1>23, <2>1, AcquireKeepsLock DEF GroupLock, LockedSteps
    <2> QED BY <2>2, <2>3
  <1>24. ASSUME NEW c \in Conns, GroupDone(c) PROVE SessionInv' /\ LockInv'
    <2>1. /\ job[c].at \notin LoginSteps \cup CloseSteps
          /\ job'[c].at \notin LoginSteps \cup CloseSteps
          /\ client[c].mode = "down" => job'[c].at = "idle"
          /\ \A d \in Conns \ {c} : job'[d] = job[d]
      BY <1>24, ReturnMoves
      DEF GroupDone, TypeInv, SessionInv, ModeFits, LoginSteps, CloseSteps,
          Commands
    <2>2. SessionInv'
      BY <1>24, <2>1, StepKeepsSession
      DEF GroupDone, mapVars, SessionInv, ModeFits
    <2>3. LockInv'
      BY <1>24, <2>1, ReleaseKeepsLock, ReturnMoves
      DEF GroupDone, mapVars, LockedSteps, TypeInv
    <2> QED BY <2>2, <2>3
  <1>25. ASSUME NEW c \in Conns, NEW u \in Users, GroupSend(c, u)
         PROVE  SessionInv' /\ LockInv'
    <2>1. /\ job[c].at \notin LoginSteps \cup CloseSteps
          /\ job'[c].at \notin LoginSteps \cup CloseSteps
          /\ client[c].mode = "down" => job'[c].at = "idle"
          /\ \A d \in Conns \ {c} : job'[d] = job[d]
      BY <1>25, ReturnMoves
      DEF GroupSend, TypeInv, SessionInv, ModeFits, LoginSteps, CloseSteps,
          Commands
    <2>2. SessionInv'
      BY <1>25, <2>1, StepKeepsSession
      DEF GroupSend, mapVars, SessionInv, ModeFits
    <2>3. LockInv'
      BY <1>25, <2>1, ReleaseKeepsLock, ReturnMoves
      DEF GroupSend, mapVars, LockedSteps, TypeInv
    <2> QED BY <2>2, <2>3
  <1>26. ASSUME NEW c \in Conns, NEW u \in Users, GroupRoute(c, u)
         PROVE  SessionInv' /\ LockInv'
    <2>1. /\ job[c].at \notin LoginSteps \cup CloseSteps
          /\ job'[c].at \notin LoginSteps \cup CloseSteps
          /\ client[c].mode = "down" => job'[c].at = "idle"
          /\ \A d \in Conns \ {c} : job'[d] = job[d]
      BY <1>26, RouteMoves
      DEF GroupRoute, TypeInv, SessionInv, ModeFits, LoginSteps, CloseSteps,
          Commands
    <2>2. SessionInv'
      BY <1>26, <2>1, StepKeepsSession
      DEF GroupRoute, mapVars, SessionInv, ModeFits
    <2>3. LockInv'
      BY <1>26, <2>1, StepKeepsLock, RouteMoves
      DEF GroupRoute, mapVars, LockedSteps, TypeInv
    <2> QED BY <2>2, <2>3
  <1>27. ASSUME NEW c \in Conns, GroupPublish(c) PROVE SessionInv' /\ LockInv'
    <2>1. /\ job'[c].at # job[c].at /\ job'[c].at \notin LoginSteps \ Inserted
          /\ job'[c].at \in LoginSteps <=> job[c].at \in LoginSteps
          /\ job'[c].at \in CloseSteps <=> job[c].at \in CloseSteps
          /\ job'[c].at \in LockedSteps <=> job[c].at \in LockedSteps
          /\ job[c].at # "idle" /\ job'[c].at # "chat_send"
          /\ job'[c].id = job[c].id
          /\ \A d \in Conns \ {c} : job'[d] = job[d]
      BY <1>27, GotoMoves
      DEF GroupPublish, TypeInv, Inserted, LoginSteps, CloseSteps, LockedSteps
    <2>2. SessionInv'
      BY <1>27, <2>1, StepKeepsSession
      DEF GroupPublish, mapVars, SessionInv, ModeFits, Inserted
    <2>3. LockInv'
      BY <1>27, <2>1, StepKeepsLock DEF GroupPublish, mapVars
    <2> QED BY <2>2, <2>3
  <1>28. ASSUME NEW c \in Conns, GroupStore(c) PROVE SessionInv' /\ LockInv'
    <2>1. /\ job'[c].at # job[c].at /\ job'[c].at \notin LoginSteps \ Inserted
          /\ job'[c].at \in LoginSteps <=> job[c].at \in LoginSteps
          /\ job'[c].at \in CloseSteps <=> job[c].at \in CloseSteps
          /\ job'[c].at \in LockedSteps <=> job[c].at \in LockedSteps
          /\ job[c].at # "idle" /\ job'[c].at # "chat_send"
          /\ job'[c].id = job[c].id
          /\ \A d \in Conns \ {c} : job'[d] = job[d]
      BY <1>28, GotoMoves
      DEF GroupStore, TypeInv, Inserted, LoginSteps, CloseSteps, LockedSteps
    <2>2. SessionInv'
      BY <1>28, <2>1, StepKeepsSession
      DEF GroupStore, mapVars, SessionInv, ModeFits, Inserted
    <2>3. LockInv'
      BY <1>28, <2>1, StepKeepsLock DEF GroupStore, mapVars
    <2> QED BY <2>2, <2>3
  <1>29. ASSUME NEW s \in Servers, Serve(s) PROVE SessionInv' /\ LockInv'
    BY <1>29, IdleKeepsSession, IdleKeepsLock DEF Serve, mapVars
  <1>30. ASSUME NEW s \in Servers, ObserverFind(s) PROVE SessionInv' /\ LockInv'
    <2>1. SessionInv'
      BY <1>30, IdleKeepsSession DEF ObserverFind
    <2>2. /\ observer'[s].at # "idle"
          /\ observer'[s].at = "send"
               => connMap[s][observer'[s].chan] = observer'[s].tgt
          /\ \A t \in Servers \ {s} : observer'[t] = observer[t]
      BY <1>30 DEF ObserverFind, TypeInv, ObserverInv
    <2>3. LockInv'
      BY <1>30, <2>2, ObserverAcquires DEF ObserverFind
    <2> QED BY <2>1, <2>3
  <1>31. ASSUME NEW s \in Servers, ObserverSend(s) PROVE SessionInv' /\ LockInv'
    BY <1>31, IdleKeepsSession, ObserverReleases DEF ObserverSend
  <1>32. ASSUME NEW s \in Servers, ObserverStore(s)
         PROVE  SessionInv' /\ LockInv'
    BY <1>32, IdleKeepsSession, ObserverReleases DEF ObserverStore
  <1>33. ASSUME NEW s \in Servers, Quits(s) PROVE SessionInv' /\ LockInv'
    BY <1>33, IdleKeepsSession, IdleKeepsLock DEF Quits, mapVars
  <1>34. ASSUME NEW s \in Servers, SigInt(s) PROVE SessionInv' /\ LockInv'
    BY <1>34, IdleKeepsSession, IdleKeepsLock DEF SigInt, mapVars
  <1>35. ASSUME NEW s \in Servers, ProcessExit(s) PROVE SessionInv' /\ LockInv'
    BY <1>35, VanishKeeps DEF ProcessExit
  <1>36. ASSUME NEW s \in Servers, Crash(s) PROVE SessionInv' /\ LockInv'
    BY <1>36, VanishKeeps DEF Crash
  <1>37. ASSUME NEW s \in Servers, Restart(s) PROVE SessionInv' /\ LockInv'
    BY <1>37, IdleKeepsSession, IdleKeepsLock DEF Restart, mapVars
  <1>38. CASE UNCHANGED vars
    BY <1>38, IdleKeepsSession, IdleKeepsLock DEF vars, mapVars
  <1> QED
    BY <1>1, <1>2, <1>3, <1>4, <1>5, <1>6, <1>7, <1>8, <1>9, <1>10,
       <1>11, <1>12, <1>13, <1>14, <1>15, <1>16, <1>17, <1>18, <1>19,
       <1>20, <1>21, <1>22, <1>23, <1>24, <1>25, <1>26, <1>27, <1>28,
       <1>29, <1>30, <1>31, <1>32, <1>33, <1>34, <1>35, <1>36, <1>37,
       <1>38
    DEF Next, Handler, ClientCommand, ObserverLoop, Process

\* The initial state: empty maps, free mutexes.
LEMMA InitSafe == Init => SafeInv
  <1> SUFFICES ASSUME Init PROVE SafeInv
    OBVIOUS
  <1>1. TypeInv
    BY InitType
  <1>2. SessionInv
    BY SentinelAssumption
    DEF Init, SessionInv, ModeFits, NoClient, Idle, LoginSteps, CloseSteps
  <1>3. LockInv
    BY SentinelAssumption, ServerOfAssumption
    DEF Init, LockInv, MutexOwned, TargetKept, Idle, Asleep, LockedSteps
  <1> QED BY <1>1, <1>2, <1>3 DEF SafeInv

\* SafeInv holds in every reachable state.
LEMMA SafeInvariant == Spec => []SafeInv
  <1>1. SafeInv /\ [Next]_vars => SafeInv'
    BY SafeStep, TypeStep DEF SafeInv
  <1> QED BY <1>1, InitSafe, PTL DEF Spec

\* An entry is owned, and an owner is neither closed nor past its erase.
LEMMA SafeImpliesNoDeadEntry == SafeInv => NoDeadEntry
  <1> SUFFICES ASSUME SafeInv, NEW s \in Servers, NEW u \in Users,
                      connMap[s][u] # NoConn
               PROVE  /\ ServerOf[connMap[s][u]] = s
                      /\ client[connMap[s][u]].mode \notin {"down", "closing"}
    BY DEF NoDeadEntry
  <1>1. PICK c \in Conns : connMap[s][u] = c
    BY DEF SafeInv, TypeInv, MapInv
  <1> QED BY <1>1 DEF SafeInv, SessionInv, Owns

\* _connMutex is held exactly by the thread inside its critical section, on every
\* path through oneChat, groupChat, login, loginOut, clientCloseException and
\* handleRedisSubscribeMsg: it is never left locked, never released by another.
THEOREM MutexCorrect == Spec => []MutexOwned
  <1>1. SafeInv => MutexOwned
    BY DEF SafeInv, LockInv
  <1> QED BY <1>1, SafeInvariant, PTL

\* _userConnMap never keeps a connection whose close callback has run, however
\* logins, logouts, closes, failures and restarts interleave.
THEOREM NoDeadEntryCorrect == Spec => []NoDeadEntry
  BY SafeImpliesNoDeadEntry, SafeInvariant, PTL

\* The connection oneChat and handleRedisSubscribeMsg found under _connMutex is
\* still the registered one, and has not been closed, when they send to it.
THEOREM SendTargetCorrect == Spec => []SendTargetOpen
  <1>1. SafeInv => SendTargetOpen
    <2> SUFFICES ASSUME SafeInv PROVE SendTargetOpen
      OBVIOUS
    <2>1. ASSUME NEW c \in Conns, job[c].at = "chat_send"
          PROVE  /\ connMap[ServerOf[c]][job[c].id] = job[c].tgt
                 /\ client[job[c].tgt].mode \notin {"down", "closing"}
      <3>1. job[c].id \in Users /\ job[c].tgt \in Conns
        BY <2>1 DEF SafeInv, TypeInv, JobInv, JobFits
      <3>2. connMap[ServerOf[c]][job[c].id] = job[c].tgt
        BY <2>1 DEF SafeInv, LockInv, TargetKept
      <3> QED BY <3>1, <3>2, SafeImpliesNoDeadEntry, SentinelAssumption,
                 ServerOfAssumption DEF NoDeadEntry
    <2>2. ASSUME NEW s \in Servers, observer[s].at = "send"
          PROVE  /\ connMap[s][observer[s].chan] = observer[s].tgt
                 /\ client[observer[s].tgt].mode \notin {"down", "closing"}
      <3>1. observer[s].chan \in Users /\ observer[s].tgt \in Conns
        BY <2>2 DEF SafeInv, TypeInv, ObserverInv, ObserverFits
      <3>2. connMap[s][observer[s].chan] = observer[s].tgt
        BY <2>2 DEF SafeInv, LockInv, TargetKept
      <3> QED BY <3>1, <3>2, SafeImpliesNoDeadEntry, SentinelAssumption
              DEF NoDeadEntry
    <2> QED BY <2>1, <2>2 DEF SendTargetOpen
  <1> QED BY <1>1, SafeInvariant, PTL
==============================================================================
