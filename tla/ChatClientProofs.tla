--------------------------- MODULE ChatClientProofs ---------------------------
(***************************************************************************)
(* The client processes and the connections between them and the servers.  *)
(*                                                                         *)
(* Every step of the composition is a step of ChatService or leaves it     *)
(* alone, so its invariants hold here too (ServiceInvariants).  From them  *)
(* CStepKinds sorts the steps into two kinds: Read, and WireStep, where a  *)
(* server writes or queues something or nothing, and each connection sees  *)
(* one of the five kinds of WireKind.  Each property is then proved of the *)
(* kinds.  Two of them need a strengthening.  StoredInv: a text that is    *)
(* owed while a login is about to delete the rows of its user is in that   *)
(* login, or already on the wire.  AnswerFirst: while main waits for the   *)
(* answer to its login, nothing else is on the wire before that answer.    *)
(***************************************************************************)
EXTENDS ChatClient, ChatBusProofs, AesProofs

LoginRuns(c) == job[c].at \in LoginSteps

\* The client of c is connected after the step.
Stays(c) == client'[c].mode \in {"fresh", "menu", "left"}

\* A step in which no login of c begins or ends, nor does the client of c.
Settled(c) ==
    /\ LoginRuns(c)' <=> LoginRuns(c)
    /\ Stays(c) /\ Open(c) =>
         client'[c].mode = "fresh" <=> client[c].mode = "fresh"
    /\ Stays(c) /\ ~Open(c) => client'[c].mode = "fresh" /\ job'[c].at = "idle"
    /\ Stays(c) /\ client[c].mode = "fresh" /\ job[c].at = "idle" => job'[c].at = "idle"

Untouched(d) == job'[d] = job[d] /\ client'[d] = client[d]

OwnMove(c) == Settled(c) /\ \A d \in Conns \ {c} : Untouched(d)

\* Most handlers leave the client alone, and are in a login before and after.
LEMMA HandlerMove ==
  ASSUME NEW c \in Conns, UNCHANGED client, job[c].at # "idle" \/ client[c].mode # "fresh",
         LoginRuns(c)' <=> LoginRuns(c), \A d \in Conns \ {c} : job'[d] = job[d]
  PROVE  OwnMove(c)
  BY DEF OwnMove, Untouched, Settled, Stays, Open

\* A command of a client moves no other connection, and only a login begins one.
LEMMA CommandMoves ==
  ASSUME TypeInv, SessionInv, NEW c \in Conns, ClientCommand(c),
         \A u \in Users : ~LoginQuery(c, u)
  PROVE  OwnMove(c)
  <1> USE DEF TypeInv, ClientInv, JobInv
  <1>t. client[c] \in Client /\ job[c] \in Job /\ Idle.at = "idle"
    BY DEF Idle
  <1>1. ASSUME Connect(c) PROVE OwnMove(c)
    BY <1>1, <1>t
    DEF Connect, OwnMove, Untouched, Settled, Stays, Open, LoginRuns, SessionInv,
        ModeFits, Client
  <1>2. ASSUME Hangup(c) PROVE OwnMove(c)
    BY <1>2, <1>t
    DEF Hangup, OwnMove, Untouched, Settled, Stays, Open, LoginRuns, Client
  <1>3. ASSUME NEW g \in Groups, AddGroup(c, g) PROVE OwnMove(c)
    BY <1>3, HandlerMove DEF AddGroup, Commands, LoginRuns
  <1>4. ASSUME LogoutErase(c) PROVE OwnMove(c)
    <2>1. /\ job'[c].at = "logout_unsubscribe"
          /\ \A d \in Conns \ {c} : job'[d] = job[d] /\ client'[d] = client[d]
          /\ client'[c].mode = "left" /\ client[c].mode \in {"menu", "left"}
          /\ job[c].at = "idle"
      BY <1>4, <1>t, BeginMoves DEF LogoutErase, Commands, Client
    <2> QED BY <2>1 DEF OwnMove, Untouched, Settled, Stays, Open, LoginRuns, LoginSteps
  <1>5. ASSUME NEW m \in Msgs, NEW e \in Users, ChatFind(c, m, e) PROVE OwnMove(c)
    <2> DEFINE send == [Idle EXCEPT !.at = "chat_send", !.id = e, !.msg = m,
                                    !.tgt = connMap[ServerOf[c]][e]]
               query == [Idle EXCEPT !.at = "chat_query", !.id = e, !.msg = m]
    <2>1. send.at \notin LoginSteps /\ query.at \notin LoginSteps
      BY DEF Idle, LoginSteps
    <2>2. \/ job' = [job EXCEPT ![c] = send]
          \/ job' = [job EXCEPT ![c] = query]
      BY <1>5 DEF ChatFind
    <2> HIDE DEF send, query
    <2>3. job'[c].at \notin LoginSteps /\ \A d \in Conns \ {c} : job'[d] = job[d]
      BY <2>1, <2>2
    <2> QED BY <1>5, <2>3, HandlerMove DEF ChatFind, Commands, LoginRuns, LoginSteps
  <1>6. ASSUME NEW m \in Msgs, NEW g \in Groups, GroupQuery(c, m, g) PROVE OwnMove(c)
    <2>1. job'[c].at = "group_lock" /\ \A d \in Conns \ {c} : job'[d] = job[d]
      BY <1>6 DEF GroupQuery, Idle
    <2> QED BY <1>6, <2>1, HandlerMove DEF GroupQuery, Commands, LoginRuns, LoginSteps
  <1> QED
    BY <1>1, <1>2, <1>3, <1>4, <1>5, <1>6 DEF ClientCommand

\* So does a handler, and only the answer to a login ends one.
LEMMA HandlerMoves ==
  ASSUME TypeInv, SessionInv, NEW c \in Conns, Handler(c), ~LoginAck(c)
  PROVE  OwnMove(c)
  <1> USE DEF TypeInv, ClientInv, JobInv
  <1>t. client[c] \in Client /\ job[c] \in Job /\ Idle.at = "idle"
    BY DEF Idle
  <1>1. ASSUME LoginInsert(c) PROVE OwnMove(c)
    BY <1>1, GotoMoves, HandlerMove DEF LoginInsert, LoginRuns, LoginSteps
  <1>2. ASSUME LoginSubscribe(c) PROVE OwnMove(c)
    BY <1>2, GotoMoves, HandlerMove DEF LoginSubscribe, LoginRuns, LoginSteps
  <1>3. ASSUME LoginOnline(c) PROVE OwnMove(c)
    BY <1>3, GotoMoves, HandlerMove DEF LoginOnline, LoginRuns, LoginSteps
  <1>4. ASSUME LoginRemoveOffline(c) PROVE OwnMove(c)
    BY <1>4, GotoMoves, HandlerMove DEF LoginRemoveOffline, LoginRuns, LoginSteps
  <1>5. ASSUME LoginReadOffline(c) PROVE OwnMove(c)
    <2>1. /\ job'[c].at \in {"login_remove", "login_ack"}
          /\ \A d \in Conns \ {c} : job'[d] = job[d]
      <3>1. CASE Goto(c, "login_ack")
        BY <3>1, GotoMoves
      <3>2. CASE ~Goto(c, "login_ack")
        BY <1>5, <3>2, <1>t DEF LoginReadOffline, Job
      <3> QED BY <3>1, <3>2
    <2> QED BY <1>5, <2>1, HandlerMove DEF LoginReadOffline, LoginRuns, LoginSteps
  <1>6. ASSUME LogoutUnsubscribe(c) PROVE OwnMove(c)
    BY <1>6, GotoMoves, ReturnMoves, HandlerMove DEF LogoutUnsubscribe, LoginRuns, LoginSteps
  <1>7. ASSUME LogoutOffline(c) PROVE OwnMove(c)
    BY <1>7, GotoMoves, ReturnMoves, HandlerMove DEF LogoutOffline, LoginRuns, LoginSteps
  <1>8. ASSUME CloseErase(c) PROVE OwnMove(c)
    <2>1. job[c].at = "idle" /\ client[c].mode = "gone"
      BY <1>8 DEF CloseErase
    <2>2. CASE EntriesOf(c) = {}
      BY <1>8, <1>t, <2>1, <2>2
      DEF CloseErase, NoClient, OwnMove, Untouched, Settled, Stays, LoginRuns, LoginSteps
    <2>3. ASSUME NEW u \in EntriesOf(c),
                 client' = [client EXCEPT ![c].mode = "closing"],
                 job' = [job EXCEPT ![c] = [Idle EXCEPT !.at = "close_unsubscribe",
                                                        !.id = u]]
          PROVE  OwnMove(c)
      <3>1. /\ job'[c].at = "close_unsubscribe" /\ client'[c].mode = "closing"
            /\ \A d \in Conns \ {c} : job'[d] = job[d] /\ client'[d] = client[d]
        BY <1>t, <2>3, BeginMoves DEF Client
      <3> QED
        BY <2>1, <3>1
        DEF OwnMove, Untouched, Settled, Stays, LoginRuns, LoginSteps
    <2> QED BY <1>8, <2>2, <2>3 DEF CloseErase
  <1>9. ASSUME CloseUnsubscribe(c) PROVE OwnMove(c)
    BY <1>9, GotoMoves, HandlerMove DEF CloseUnsubscribe, LoginRuns, LoginSteps
  <1>10. ASSUME CloseOffline(c) PROVE OwnMove(c)
    <2>1. /\ job'[c].at = "idle" /\ client'[c].mode = "down"
          /\ \A d \in Conns \ {c} : job'[d] = job[d] /\ client'[d] = client[d]
      BY <1>10, ReturnMoves DEF CloseOffline, NoClient
    <2> QED
      BY <1>10, <2>1
      DEF CloseOffline, OwnMove, Untouched, Settled, Stays, LoginRuns, LoginSteps
  <1>11. ASSUME ChatSend(c) PROVE OwnMove(c)
    BY <1>11, ReturnMoves, HandlerMove DEF ChatSend, LoginRuns, LoginSteps
  <1>12. ASSUME ChatQuery(c) PROVE OwnMove(c)
    <2>1. /\ job'[c].at \in {"chat_publish", "chat_store"}
          /\ \A d \in Conns \ {c} : job'[d] = job[d]
      BY <1>12, RouteMoves DEF ChatQuery
    <2> QED BY <1>12, <2>1, HandlerMove DEF ChatQuery, LoginRuns, LoginSteps
  <1>13. ASSUME ChatPublish(c) PROVE OwnMove(c)
    BY <1>13, ReturnMoves, HandlerMove DEF ChatPublish, LoginRuns, LoginSteps
  <1>14. ASSUME ChatStore(c) PROVE OwnMove(c)
    BY <1>14, ReturnMoves, HandlerMove DEF ChatStore, LoginRuns, LoginSteps
  <1>15. ASSUME GroupLock(c) PROVE OwnMove(c)
    BY <1>15, GotoMoves, ReturnMoves, HandlerMove DEF GroupLock, LoginRuns, LoginSteps
  <1>16. ASSUME GroupDone(c) PROVE OwnMove(c)
    BY <1>16, GotoMoves, ReturnMoves, HandlerMove DEF GroupDone, LoginRuns, LoginSteps
  <1>17. ASSUME GroupPublish(c) PROVE OwnMove(c)
    BY <1>17, GotoMoves, ReturnMoves, HandlerMove DEF GroupPublish, LoginRuns, LoginSteps
  <1>18. ASSUME GroupStore(c) PROVE OwnMove(c)
    BY <1>18, GotoMoves, ReturnMoves, HandlerMove DEF GroupStore, LoginRuns, LoginSteps
  <1>19. ASSUME NEW u \in Users, GroupSend(c, u) PROVE OwnMove(c)
    BY <1>19, ReturnMoves, HandlerMove DEF GroupSend, LoginRuns, LoginSteps
  <1>20. ASSUME NEW u \in Users, GroupRoute(c, u) PROVE OwnMove(c)
    <2>1. /\ job'[c].at \in {"group_publish", "group_store"}
          /\ \A d \in Conns \ {c} : job'[d] = job[d]
      BY <1>20, RouteMoves DEF GroupRoute
    <2> QED BY <1>20, <2>1, HandlerMove DEF GroupRoute, LoginRuns, LoginSteps
  <1> QED
    BY <1>1, <1>2, <1>3, <1>4, <1>5, <1>6, <1>7, <1>8, <1>9, <1>10, <1>11,
       <1>12, <1>13, <1>14, <1>15, <1>16, <1>17, <1>18, <1>19, <1>20 DEF Handler

-----------------------------------------------------------------------------
(* The steps of the clients are steps of ChatService, or none *)

LEMMA ClientStep ==
  ASSUME CNext
  PROVE  Next \/ UNCHANGED vars
  <1>1. ASSUME NEW c \in Conns,
               \/ Start(c) \/ Quit(c) \/ MenuCommand(c)
               \/ SilentStep(c) \/ Answer(c) \/ DeliverLocal(c)
        PROVE  Next
    BY <1>1 DEF Start, Quit, MenuCommand, SilentStep, Answer, DeliverLocal, Next,
                Handler, ClientCommand
  <1>2. ASSUME NEW c \in Conns, NEW u \in Users,
               LoginRequest(c, u) \/ DeliverGroup(c, u)
        PROVE  Next
    BY <1>2 DEF LoginRequest, DeliverGroup, Next, Handler, ClientCommand
  <1>3. ASSUME NEW c \in Conns, Recv(c)
        PROVE  Next \/ UNCHANGED vars
    BY <1>3 DEF Recv, Read, ReadFails, Next, ClientCommand
  <1>4. ASSUME NEW s \in Servers,
               \/ DeliverRelayed(s) \/ Quietly(Serve(s))
               \/ Quietly(ObserverFind(s)) \/ Quietly(ObserverStore(s))
        PROVE  Next
    BY <1>4 DEF DeliverRelayed, Quietly, Next, ObserverLoop
  <1>5. ASSUME NEW c \in Conns, Flush(c)
        PROVE  UNCHANGED vars
    BY <1>5 DEF Flush
  <1> QED BY <1>1, <1>2, <1>3, <1>4, <1>5 DEF CNext

\* Composed with its clients, the server does nothing it does not do without
\* them: what is proved of ChatService holds of the composition.
THEOREM ClientsRefineService == CSpec => Spec
  <1>1. CInit => Init
    BY DEF CInit
  <1>2. [CNext]_cvars => [Next]_vars
    BY ClientStep DEF cvars
  <1> QED BY <1>1, <1>2, PTL DEF CSpec, Spec

\* No handler and no command ends or starts a process: that is for the
\* composition, where the processes live.
LEMMA ProcessesLive ==
  ASSUME CNext
  PROVE  UNCHANGED proc
  <1>1. ASSUME NEW c \in Conns, Handler(c) \/ ClientCommand(c)
        PROVE  UNCHANGED proc
    <2> USE DEF procVars
    <2>1. CASE \/ Connect(c)
              \/ Hangup(c)
              \/ LogoutErase(c)
      BY <2>1
      DEF Connect, Hangup, LogoutErase
    <2>2. CASE \/ \E u \in Users : LoginQuery(c, u)
              \/ \E g \in Groups : AddGroup(c, g)
      BY <2>2
      DEF LoginQuery, AddGroup
    <2>3. CASE \/ \E m \in Msgs, d \in Users : ChatFind(c, m, d)
              \/ \E m \in Msgs, g \in Groups : GroupQuery(c, m, g)
      BY <2>3
      DEF ChatFind, GroupQuery
    <2>4. CASE \/ LoginInsert(c)
              \/ LoginSubscribe(c)
              \/ LoginOnline(c)
              \/ LoginReadOffline(c)
              \/ LoginRemoveOffline(c)
              \/ LoginAck(c)
      BY <2>4
      DEF LoginInsert, LoginSubscribe, LoginOnline, LoginReadOffline, LoginRemoveOffline,
        LoginAck
    <2>5. CASE \/ LogoutUnsubscribe(c)
              \/ LogoutOffline(c)
              \/ CloseErase(c)
              \/ CloseUnsubscribe(c)
              \/ CloseOffline(c)
      BY <2>5
      DEF LogoutUnsubscribe, LogoutOffline, CloseErase, CloseUnsubscribe, CloseOffline
    <2>6. CASE \/ ChatSend(c)
              \/ ChatQuery(c)
              \/ ChatPublish(c)
              \/ ChatStore(c)
      BY <2>6
      DEF ChatSend, ChatQuery, ChatPublish, ChatStore
    <2>7. CASE \/ GroupLock(c)
              \/ GroupDone(c)
              \/ GroupPublish(c)
              \/ GroupStore(c)
              \/ \E u \in Users : GroupSend(c, u) \/ GroupRoute(c, u)
      BY <2>7
      DEF GroupLock, GroupDone, GroupPublish, GroupStore, GroupSend, GroupRoute
    <2> QED BY <1>1, <2>1, <2>2, <2>3, <2>4, <2>5, <2>6, <2>7 DEF Handler, ClientCommand
  <1>2. ASSUME NEW s \in Servers, Serve(s) \/ ObserverLoop(s)
        PROVE  UNCHANGED proc
    BY <1>2 DEF ObserverLoop, Serve, ObserverFind, ObserverSend, ObserverStore, procVars
  <1>3. ASSUME NEW c \in Conns,
               \/ Start(c) \/ Quit(c) \/ MenuCommand(c)
               \/ SilentStep(c) \/ Answer(c) \/ DeliverLocal(c)
        PROVE  UNCHANGED proc
    BY <1>1, <1>3 DEF Start, Quit, MenuCommand, SilentStep, Answer, DeliverLocal,
                      Handler, ClientCommand
  <1>4. ASSUME NEW c \in Conns, NEW u \in Users,
               LoginRequest(c, u) \/ DeliverGroup(c, u)
        PROVE  UNCHANGED proc
    BY <1>1, <1>4 DEF LoginRequest, DeliverGroup, Handler, ClientCommand
  <1>5. ASSUME NEW c \in Conns, Recv(c)
        PROVE  UNCHANGED proc
    BY <1>1, <1>5 DEF Recv, Read, ReadFails, ClientCommand, vars, procVars
  <1>6. ASSUME NEW s \in Servers,
               \/ DeliverRelayed(s) \/ Quietly(Serve(s))
               \/ Quietly(ObserverFind(s)) \/ Quietly(ObserverStore(s))
        PROVE  UNCHANGED proc
    BY <1>2, <1>6 DEF DeliverRelayed, Quietly, ObserverLoop
  <1>7. ASSUME NEW c \in Conns, Flush(c)
        PROVE  UNCHANGED proc
    BY <1>7 DEF Flush, vars, procVars
  <1> QED BY <1>3, <1>4, <1>5, <1>6, <1>7 DEF CNext

-----------------------------------------------------------------------------
(* A step of the server and what it writes, seen from the wire *)

Readers == {"none", "main", "thread"}

\* c may be found in a map: it is registered by its login, or logged in.
Listens(c) == client[c].mode \in {"menu", "gone"} \/ LoginRuns(c)

\* A chat for c is written, or waits in its loop.
Told(c, w, q) ==
    /\ Settled(c) /\ client'[c] = client[c] /\ Listens(c)
    /\ \E message \in Message :
         /\ message.kind \in {"onechat", "groupchat"}
         /\ \/ w = <<message>> /\ q = queued[c] /\ ~LoginRuns(c)
            \/ w = <<>> /\ q = Append(queued[c], message)

\* The loop of c writes what waited in it.
Flushed(c, w, q) ==
    /\ job[c].at = "idle" /\ Untouched(c)
    /\ queued[c] # <<>> /\ w = queued[c] /\ q = <<>>

\* The client of c sends a login, which is refused or goes on.
Requested(c, w, r) ==
    /\ client[c].mode = "fresh" /\ job[c].at = "idle" /\ client'[c] = client[c]
    /\ reader[c] = "none" /\ r = "main"
    /\ \/ w = <<Refused>> /\ job'[c] = job[c]
       \/ w = <<>> /\ LoginRuns(c)'

\* The login of c is answered, with the offline messages it has read.
Answered(c, w) ==
    /\ LoginRuns(c) /\ ~LoginRuns(c)' /\ (Stays(c) => Open(c))
    /\ \E n \in AnswerLens : w = <<Granted({m \in Msgs : job[c].batch[m] > 0}, n)>>

\* What a step writes to c (w), leaves in its loop (q) and lets read from it (r).
WireKind(c, w, q, r) ==
    \/ w = <<>> /\ q = queued[c] /\ r = reader[c] /\ Settled(c)
    \/ r = reader[c] /\ Told(c, w, q)
    \/ r = reader[c] /\ Flushed(c, w, q)
    \/ q = queued[c] /\ Requested(c, w, r)
    \/ q = queued[c] /\ r = reader[c] /\ Answered(c, w)

WireStep(w, q, r) ==
    /\ [Next]_vars /\ UNCHANGED proc
    /\ Writes(w, q, r)
    /\ w \in [Conns -> Seq(Message)]
    /\ q \in [Conns -> Seq(Message)]
    /\ r \in [Conns -> Readers]
    /\ \A c \in Conns : WireKind(c, w[c], q[c], r[c])
    /\ ended' \in [Conns -> Endings]

LEMMA NothingType ==
  /\ Nothing \in [Conns -> Seq(Message)]
  /\ \A c \in Conns : Nothing[c] = <<>>
  BY DEF Nothing

LEMMA ToType ==
  ASSUME NEW c \in Conns, NEW message \in Message
  PROVE  /\ To(c, message) \in [Conns -> Seq(Message)]
         /\ To(c, message)[c] = <<message>>
         /\ \A d \in Conns \ {c} : To(c, message)[d] = <<>>
  BY NothingType DEF To

LEMMA ChatType ==
  ASSUME NEW m \in Msgs, NEW kind \in {"onechat", "groupchat"}
  PROVE  /\ Chat(kind, m) \in Message /\ Chat(kind, m).kind = kind
         /\ Plain(m) \in Message /\ Plain(m).kind = "onechat"
  BY LengthAssumption DEF Chat, Plain, Message

LEMMA AnswerType ==
  ASSUME NEW msgs \in SUBSET Msgs, NEW n \in AnswerLens
  PROVE  /\ Granted(msgs, n) \in Message /\ Granted(msgs, n).kind = "granted"
         /\ Granted(msgs, n).msgs = msgs
  BY LengthAssumption DEF Granted, Message

LEMMA RefusedType == Refused \in Message /\ Refused.kind = "refused"
  BY DEF Refused, Message

\* What a step does not touch is settled.
LEMMA UntouchedSettled ==
  ASSUME NEW c \in Conns, Untouched(c)
  PROVE  Settled(c)
  BY DEF Untouched, Settled, Stays, Open, LoginRuns

\* A connection in the map, or found there, is not that of a logged out client.
LEMMA TargetsListen ==
  ASSUME SafeInv
  PROVE  /\ \A s \in Servers, u \in Users :
              connMap[s][u] # NoConn =>
                connMap[s][u] \in Conns /\ Listens(connMap[s][u])
         /\ \A c \in Conns :
              job[c].at = "chat_send" =>
                job[c].tgt \in Conns /\ Listens(job[c].tgt)
         /\ \A s \in Servers :
              observer[s].at = "send" =>
                observer[s].tgt \in Conns /\ Listens(observer[s].tgt)
  <1> USE ServerOfAssumption, SentinelAssumption
  <1>1. ASSUME NEW s \in Servers, NEW u \in Users, connMap[s][u] # NoConn
        PROVE  connMap[s][u] \in Conns /\ Listens(connMap[s][u])
    <2>1. connMap[s][u] \in Conns
      BY <1>1 DEF SafeInv, TypeInv, MapInv
    <2> QED
      BY <2>1 DEF SafeInv, SessionInv, Owns, Listens, LoginRuns, Inserted
  <1>2. ASSUME NEW c \in Conns, job[c].at = "chat_send"
        PROVE  job[c].tgt \in Conns /\ Listens(job[c].tgt)
    <2>1. job[c].tgt \in Conns /\ job[c].id \in Users
      BY <1>2 DEF SafeInv, TypeInv, JobInv, JobFits
    <2>2. connMap[ServerOf[c]][job[c].id] = job[c].tgt
      BY <1>2 DEF SafeInv, LockInv, TargetKept
    <2> QED BY <1>1, <2>1, <2>2
  <1>3. ASSUME NEW s \in Servers, observer[s].at = "send"
        PROVE  observer[s].tgt \in Conns /\ Listens(observer[s].tgt)
    <2>1. observer[s].tgt \in Conns /\ observer[s].chan \in Users
      BY <1>3 DEF SafeInv, TypeInv, ObserverInv, ObserverFits
    <2>2. connMap[s][observer[s].chan] = observer[s].tgt
      BY <1>3 DEF SafeInv, LockInv, TargetKept
    <2> QED BY <1>1, <2>1, <2>2
  <1> QED BY <1>1, <1>2, <1>3

\* A step that writes nothing and leaves the loops alone.
LEMMA StillWire ==
  ASSUME ClientTypeOK, [Next]_vars, UNCHANGED proc, \A d \in Conns : Settled(d),
         Writes(Nothing, queued, reader), ended' \in [Conns -> Endings]
  PROVE  WireStep(Nothing, queued, reader)
  BY NothingType DEF WireStep, WireKind, ClientTypeOK, Readers

\* A send writes one message to one connection, or queues it in its loop.
LEMMA SendWire ==
  ASSUME ClientTypeOK, [Next]_vars, UNCHANGED <<proc, client>>,
         \A d \in Conns : Settled(d),
         NEW thread, NEW tgt \in Conns, NEW message \in Message,
         message.kind \in {"onechat", "groupchat"},
         Listens(tgt), thread = tgt => ~LoginRuns(tgt),
         SendTo(thread, tgt, message)
  PROVE  \E w, q, r : WireStep(w, q, r)
  <1>t. /\ queued \in [Conns -> Seq(Message)]
        /\ reader \in [Conns -> Readers] /\ ended' \in [Conns -> Endings]
    BY DEF ClientTypeOK, Readers, SendTo, ServerStep
  <1>1. CASE thread = tgt
    <2> DEFINE w == To(tgt, message)
    <2>1. /\ w \in [Conns -> Seq(Message)]
          /\ w[tgt] = <<message>> /\ \A d \in Conns \ {tgt} : w[d] = <<>>
      BY ToType
    <2>2. Writes(w, queued, reader)
      BY <1>1 DEF SendTo, ServerStep
    <2> HIDE DEF w
    <2>3. WireStep(w, queued, reader)
      BY <1>t, <1>1, <2>1, <2>2 DEF WireStep, WireKind, Told
    <2> QED BY <2>3
  <1>2. CASE thread # tgt
    <2> DEFINE q == [queued EXCEPT ![tgt] = Append(@, message)]
    <2>1. /\ q \in [Conns -> Seq(Message)]
          /\ q[tgt] = Append(queued[tgt], message)
          /\ \A d \in Conns \ {tgt} : q[d] = queued[d]
      BY <1>t, AppendProperties
    <2>2. Writes(Nothing, q, reader)
      BY <1>2 DEF SendTo
    <2> HIDE DEF q
    <2>3. \A d \in Conns : WireKind(d, Nothing[d], q[d], reader[d])
      BY <2>1, NothingType DEF WireKind, Told
    <2>4. WireStep(Nothing, q, reader)
      BY <1>t, <2>1, <2>2, <2>3, NothingType DEF WireStep
    <2> QED BY <2>4
  <1> QED BY <1>1, <1>2

\* Every step is one on the wire, or the reading of a message.
LEMMA CStepKinds ==
  ASSUME SafeInv, ClientTypeOK, CNext
  PROVE  \/ \E w, q, r : WireStep(w, q, r)
         \/ \E c \in Conns : \E k \in 1 .. Len(down[c]) : Read(c, k)
  <1> DEFINE Goal == \/ \E w, q, r : WireStep(w, q, r)
                     \/ \E c \in Conns : \E k \in 1 .. Len(down[c]) : Read(c, k)
  <1> USE DEF SafeInv
  <1>n. [Next]_vars /\ UNCHANGED proc
    BY ClientStep, ProcessesLive
  <1>r. /\ reader \in [Conns -> Readers] /\ ended \in [Conns -> Endings]
        /\ queued \in [Conns -> Seq(Message)]
    BY DEF ClientTypeOK, Readers
  <1>s. ASSUME NEW c \in Conns, OwnMove(c)
        PROVE  \A d \in Conns : Settled(d)
    BY <1>s, UntouchedSettled DEF OwnMove
  <1>1. ASSUME NEW c \in Conns, Start(c) PROVE Goal
    <2>1. OwnMove(c)
      BY <1>1, CommandMoves DEF Start, Connect, LoginQuery, ClientCommand
    <2>2. Writes(Nothing, queued, reader) /\ ended' \in [Conns -> Endings]
      BY <1>1, <1>r DEF Start, Endings
    <2> QED BY <1>n, <1>s, <2>1, <2>2, StillWire
  <1>2. ASSUME NEW c \in Conns, Hangup(c), Writes(Nothing, queued, reader),
               ended' \in [Conns -> Endings]
        PROVE  Goal
    <2>1. \A u \in Users : ~LoginQuery(c, u)
      BY <1>2 DEF Hangup, Open, LoginQuery, TypeInv, ClientInv, Client
    <2>2. OwnMove(c)
      BY <1>2, <2>1, CommandMoves DEF ClientCommand
    <2> QED BY <1>n, <1>2, <1>s, <2>2, StillWire
  <1>3. ASSUME NEW c \in Conns, MenuCommand(c) PROVE Goal
    <2>1. OwnMove(c)
      BY <1>3, CommandMoves DEF MenuCommand, LoginQuery
    <2>2. Writes(Nothing, queued, reader) /\ ended' \in [Conns -> Endings]
      BY <1>3, <1>r DEF MenuCommand, ServerStep
    <2> QED BY <1>n, <1>s, <2>1, <2>2, StillWire
  <1>4. ASSUME NEW c \in Conns, Recv(c) PROVE Goal
    <2>1. PICK k \in 1 .. Len(down[c]) : Read(c, k) \/ ReadFails(c, k)
      BY <1>4 DEF Recv
    <2>2. CASE Read(c, k)
      BY <2>2
    <2>3. CASE ReadFails(c, k)
      BY <1>2, <1>r, <2>3 DEF ReadFails, Ending, Endings
    <2> QED BY <2>1, <2>2, <2>3
  <1>5. ASSUME NEW c \in Conns, NEW u \in Users, LoginRequest(c, u) PROVE Goal
    <2> DEFINE w == IF job' = job THEN Refusal(c) ELSE Nothing
               r == [reader EXCEPT ![c] = "main"]
    <2>1. /\ w \in [Conns -> Seq(Message)]
          /\ \A d \in Conns \ {c} : w[d] = <<>>
          /\ w[c] = IF job' = job THEN <<Refused>> ELSE <<>>
      BY NothingType, ToType, RefusedType DEF Refusal
    <2>2. /\ r \in [Conns -> Readers] /\ r[c] = "main"
          /\ \A d \in Conns \ {c} : r[d] = reader[d]
      BY <1>r DEF Readers
    <2>3. /\ client[c].mode = "fresh" /\ job[c].at = "idle" /\ UNCHANGED client
          /\ reader[c] = "none" /\ Writes(w, queued, r) /\ UNCHANGED ended
      BY <1>5 DEF LoginRequest, LoginQuery
    <2>4. job' = job \/ (/\ job'[c].at = "login_insert"
                         /\ \A d \in Conns \ {c} : job'[d] = job[d])
      <3>1. \/ UNCHANGED job
            \/ job' = [job EXCEPT ![c] = [Idle EXCEPT !.at = "login_insert", !.id = u]]
        BY <1>5 DEF LoginRequest, LoginQuery
      <3> QED BY <3>1, BeginMoves DEF TypeInv
    <2> HIDE DEF w, r
    <2>5. WireKind(c, w[c], queued[c], r[c])
      BY <2>1, <2>2, <2>3, <2>4 DEF WireKind, Requested, LoginRuns, LoginSteps
    <2>6. \A d \in Conns \ {c} : WireKind(d, w[d], queued[d], r[d])
      BY <2>1, <2>2, <2>3, <2>4, UntouchedSettled DEF WireKind, Untouched
    <2>7. WireStep(w, queued, r)
      BY <1>n, <1>r, <2>1, <2>2, <2>3, <2>5, <2>6 DEF WireStep
    <2> QED BY <2>7
  <1>6. ASSUME NEW c \in Conns, NEW u \in Users, DeliverGroup(c, u) PROVE Goal
    <2>1. PICK tgt \in Conns : tgt = connMap[ServerOf[c]][u] /\ Listens(tgt)
      BY <1>6, TargetsListen, ServerOfAssumption DEF DeliverGroup, GroupSend
    <2>2. PICK m \in Msgs : m = job[c].msg
      BY <1>6 DEF DeliverGroup, GroupSend, TypeInv, JobInv, JobFits, GroupSteps
    <2>3. SendTo(c, tgt, Chat("groupchat", m)) /\ UNCHANGED client
      BY <1>6, <2>1, <2>2 DEF DeliverGroup, GroupSend
    <2>4. ~LoginRuns(c) /\ OwnMove(c)
      BY <1>6, HandlerMoves
      DEF DeliverGroup, GroupSend, Handler, LoginAck, LoginRuns, LoginSteps
    <2> QED BY <1>n, <1>s, <2>1, <2>2, <2>3, <2>4, ChatType, SendWire
  <1>7. ASSUME NEW c \in Conns, SilentStep(c) PROVE Goal
    <2>1. OwnMove(c)
      BY <1>7, HandlerMoves DEF SilentStep, LoginAck
    <2>2. Writes(Nothing, queued, reader) /\ ended' \in [Conns -> Endings]
      BY <1>7, <1>r DEF SilentStep, ServerStep
    <2> QED BY <1>n, <1>s, <2>1, <2>2, StillWire
  <1>8. ASSUME NEW c \in Conns, Answer(c) PROVE Goal
    <2>1. PICK n \in AnswerLens :
            ServerStep(To(c, Granted({m \in Msgs : job[c].batch[m] > 0}, n)))
      BY <1>8 DEF Answer
    <2> DEFINE batch == {m \in Msgs : job[c].batch[m] > 0}
               w == To(c, Granted(batch, n))
    <2>2. Writes(w, queued, reader) /\ UNCHANGED ended
      BY <2>1 DEF ServerStep
    <2>3. /\ w \in [Conns -> Seq(Message)]
          /\ \A d \in Conns \ {c} : w[d] = <<>>
          /\ w[c] = <<Granted(batch, n)>>
      BY ToType, AnswerType
    <2>4. /\ job[c].at = "login_ack" /\ job'[c].at = "idle"
          /\ \A d \in Conns \ {c} : Untouched(d)
      BY <1>8, ReturnMoves DEF Answer, LoginAck, Untouched, TypeInv
    <2> HIDE DEF w
    <2>5. Stays(c) => Open(c)
      BY <1>8 DEF Answer, LoginAck, TypeInv, ClientInv, Stays, Open
    <2>k. WireKind(c, w[c], queued[c], reader[c])
      BY <2>3, <2>4, <2>5 DEF WireKind, Answered, LoginRuns, LoginSteps
    <2>6. \A d \in Conns \ {c} : WireKind(d, w[d], queued[d], reader[d])
      BY <2>3, <2>4, UntouchedSettled DEF WireKind
    <2>7. WireStep(w, queued, reader)
      BY <1>n, <1>r, <2>2, <2>3, <2>k, <2>6 DEF WireStep
    <2> QED BY <2>7
  <1>9. ASSUME NEW c \in Conns, DeliverLocal(c) PROVE Goal
    <2>1. PICK tgt \in Conns : tgt = job[c].tgt /\ Listens(tgt)
      BY <1>9, TargetsListen DEF DeliverLocal, ChatSend
    <2>2. PICK m \in Msgs : m = job[c].msg
      BY <1>9 DEF DeliverLocal, ChatSend, TypeInv, JobInv, JobFits, ChatSteps
    <2>3. SendTo(c, tgt, Chat("onechat", m)) /\ UNCHANGED client
      BY <1>9, <2>1, <2>2 DEF DeliverLocal, ChatSend
    <2>4. ~LoginRuns(c) /\ OwnMove(c)
      BY <1>9, HandlerMoves
      DEF DeliverLocal, ChatSend, Handler, LoginAck, LoginRuns, LoginSteps
    <2> QED BY <1>n, <1>s, <2>1, <2>2, <2>3, <2>4, ChatType, SendWire
  <1>10. ASSUME NEW s \in Servers, DeliverRelayed(s) PROVE Goal
    <2>1. PICK tgt \in Conns : tgt = observer[s].tgt /\ Listens(tgt)
      BY <1>10, TargetsListen DEF DeliverRelayed, ObserverSend
    <2>2. PICK m \in Msgs : m = observer[s].msg
      BY <1>10 DEF DeliverRelayed, ObserverSend, TypeInv, ObserverInv, ObserverFits
    <2>3. SendTo(ObserverThread, tgt, Plain(m)) /\ UNCHANGED <<client, job>>
      BY <1>10, <2>1, <2>2 DEF DeliverRelayed, ObserverSend
    <2>4. ObserverThread # tgt
      BY SentinelAssumption
    <2>5. \A d \in Conns : Settled(d)
      BY <2>3, UntouchedSettled DEF Untouched
    <2> QED BY <1>n, <2>1, <2>2, <2>3, <2>4, <2>5, ChatType, SendWire
  <1>11. ASSUME NEW s \in Servers,
                \/ Quietly(Serve(s)) \/ Quietly(ObserverFind(s))
                \/ Quietly(ObserverStore(s))
         PROVE  Goal
    <2>1. UNCHANGED <<client, job>> /\ ServerStep(Nothing)
      BY <1>11 DEF Quietly, Serve, ObserverFind, ObserverStore
    <2>2. \A d \in Conns : Settled(d)
      BY <2>1, UntouchedSettled DEF Untouched
    <2> QED BY <1>n, <1>r, <2>1, <2>2, StillWire DEF ServerStep
  <1>12. ASSUME NEW c \in Conns, Flush(c) PROVE Goal
    <2> DEFINE w == [Nothing EXCEPT ![c] = queued[c]]
               q == [queued EXCEPT ![c] = <<>>]
    <2>1. /\ w \in [Conns -> Seq(Message)] /\ w[c] = queued[c]
          /\ \A d \in Conns \ {c} : w[d] = <<>>
      BY <1>r, NothingType
    <2>2. /\ q \in [Conns -> Seq(Message)] /\ q[c] = <<>>
          /\ \A d \in Conns \ {c} : q[d] = queued[d]
      BY <1>r, EmptySeq
    <2>3. /\ job[c].at = "idle" /\ queued[c] # <<>> /\ UNCHANGED <<vars, ended>>
          /\ Writes(w, q, reader)
      BY <1>12 DEF Flush
    <2>4. \A d \in Conns : Untouched(d)
      BY <2>3 DEF Untouched, vars
    <2> HIDE DEF w, q
    <2>5. WireKind(c, w[c], q[c], reader[c])
      BY <2>1, <2>2, <2>3, <2>4 DEF WireKind, Flushed
    <2>6. \A d \in Conns \ {c} : WireKind(d, w[d], q[d], reader[d])
      BY <2>1, <2>2, <2>4, UntouchedSettled DEF WireKind
    <2>7. WireStep(w, q, reader)
      BY <1>n, <1>r, <2>1, <2>2, <2>3, <2>5, <2>6 DEF WireStep
    <2> QED BY <2>7
  <1>13. ASSUME NEW c \in Conns, Quit(c) PROVE Goal
    BY <1>2, <1>13, <1>r DEF Quit, ServerStep
  <1> QED
    BY <1>1, <1>3, <1>4, <1>5, <1>6, <1>7, <1>8, <1>9, <1>10, <1>11, <1>12, <1>13
    DEF CNext

-----------------------------------------------------------------------------
(* What the two kinds of steps do to the variables of the clients *)

\* A recv() that is understood has taken one message, the oldest.
LEMMA ReadMoves ==
  ASSUME ClientTypeOK, NEW c \in Conns, NEW k \in 1 .. Len(down[c]), Read(c, k)
  PROVE  /\ down'[c] \in Seq(Message)
         /\ Len(down[c]) \in Nat \ {0}
         /\ Len(down'[c]) = Len(down[c]) - 1
         /\ \A i \in 1 .. Len(down'[c]) : down'[c][i] = down[c][i + 1]
         /\ \A d \in Conns \ {c} : down'[d] = down[d]
         /\ owed' = owed \ ({client[c].user} \X down[c][1].msgs)
         /\ reader' \in [Conns -> Readers]
         /\ reader'[c] = IF down[c][1].kind = "refused" THEN "none" ELSE "thread"
         /\ \A d \in Conns \ {c} : reader'[d] = reader[d]
         /\ UNCHANGED <<vars, queued, ended>>
  <1> DEFINE q == down[c]
             got == SubSeq(q, 1, k)
             rest == SubSeq(q, k + 1, Len(q))
  <1>1. q \in Seq(Message) /\ Len(q) \in Nat /\ k \in 1 .. Len(q)
    BY LenProperties DEF ClientTypeOK
  <1>2. \A i \in 1 .. Len(q) : q[i] \in Message
    BY <1>1, ElementOfSeq
  <1>3. Len(got) = k /\ got[1] = q[1]
    BY <1>1, <1>2, SubSeqProperties
  <1>4. /\ Understood(c, got)
        /\ reader' = [reader EXCEPT
                        ![c] = IF got[1].kind = "refused" THEN "none" ELSE "thread"]
        /\ down' = [down EXCEPT ![c] = rest]
        /\ owed' = owed \ ({client[c].user} \X got[1].msgs)
        /\ UNCHANGED <<vars, queued, ended>>
    BY DEF Read
  <1> HIDE DEF got
  <1>5. k = 1
    BY <1>3, <1>4 DEF Understood
  <1>6. /\ rest \in Seq(Message)
        /\ Len(rest) = Len(q) - 1
        /\ \A i \in 1 .. Len(q) - 1 : rest[i] = q[i + 1]
    <2>1. \A i \in 2 .. Len(q) : q[i] \in Message
      BY <1>2
    <2>2. /\ SubSeq(q, 2, Len(q)) \in Seq(Message)
          /\ Len(SubSeq(q, 2, Len(q))) = IF 2 <= Len(q) THEN Len(q) - 2 + 1 ELSE 0
          /\ \A i \in 1 .. Len(q) - 2 + 1 : SubSeq(q, 2, Len(q))[i] = q[2 + i - 1]
      BY <1>1, <2>1, SubSeqProperties
    <2>3. rest = SubSeq(q, 2, Len(q))
      BY <1>5
    <2> HIDE DEF rest
    <2> QED BY <1>1, <2>2, <2>3
  <1> HIDE DEF rest
  <1>7. down'[c] = rest /\ \A d \in Conns \ {c} : down'[d] = down[d]
    BY <1>4 DEF ClientTypeOK
  <1>8. /\ reader' \in [Conns -> Readers]
        /\ reader'[c] = IF q[1].kind = "refused" THEN "none" ELSE "thread"
        /\ \A d \in Conns \ {c} : reader'[d] = reader[d]
    BY <1>3, <1>4 DEF ClientTypeOK, Readers
  <1> QED BY <1>1, <1>3, <1>4, <1>6, <1>7, <1>8

\* The pairs that are owed because of a step, and those that are lost in it.
InsertedNow ==
    {p \in Users \X Msgs :
       /\ offlineMsg'[p[1]][p[2]] > offlineMsg[p[1]][p[2]]
       /\ ~RowsRead(p[1])}

Unread(c, w) == UNION {message.msgs : message \in ToSet(down[c] \o w[c])}

LostNow(w) ==
    {p \in owed : \E c \in Conns :
       /\ ~Stays(c)
       /\ p[1] \in {client[c].user, job[c].id}
       /\ p[2] \in Unread(c, w)}

LEMMA WireMoves ==
  ASSUME NEW w, NEW q, NEW r, Writes(w, q, r)
  PROVE  /\ down' = [c \in Conns |-> IF Stays(c) THEN down[c] \o w[c] ELSE <<>>]
         /\ queued' = [c \in Conns |-> IF Stays(c) THEN q[c] ELSE <<>>]
         /\ reader' = [c \in Conns |-> IF Stays(c) THEN r[c] ELSE "none"]
         /\ owed' = (owed \cup InsertedNow) \ LostNow(w)
  BY DEF Writes, Stays, InsertedNow, LostNow, Unread

LEMMA WireAt ==
  ASSUME NEW w, NEW q, NEW r, WireStep(w, q, r), NEW d \in Conns
  PROVE  /\ down'[d] = IF Stays(d) THEN down[d] \o w[d] ELSE <<>>
         /\ queued'[d] = IF Stays(d) THEN q[d] ELSE <<>>
         /\ reader'[d] = IF Stays(d) THEN r[d] ELSE "none"
  <1>1. Writes(w, q, r)
    BY DEF WireStep
  <1>2. down'[d] = IF Stays(d) THEN down[d] \o w[d] ELSE <<>>
    BY <1>1 DEF Writes, Stays
  <1>3. queued'[d] = IF Stays(d) THEN q[d] ELSE <<>>
    BY <1>1 DEF Writes, Stays
  <1>4. reader'[d] = IF Stays(d) THEN r[d] ELSE "none"
    BY <1>1 DEF Writes, Stays
  <1> QED BY <1>2, <1>3, <1>4

\* What is on the wire, or is written now, is unread.
LEMMA UnreadIs ==
  ASSUME ClientTypeOK, NEW w \in [Conns -> Seq(Message)], NEW c \in Conns
  PROVE  /\ down[c] \o w[c] \in Seq(Message)
         /\ Len(down[c] \o w[c]) = Len(down[c]) + Len(w[c])
         /\ \A i \in DOMAIN down[c] :
              /\ i \in DOMAIN (down[c] \o w[c])
              /\ (down[c] \o w[c])[i] = down[c][i]
              /\ down[c][i].msgs \subseteq Unread(c, w)
         /\ \A message : w[c] = <<message>> =>
              /\ Len(down[c]) + 1 \in DOMAIN (down[c] \o w[c])
              /\ (down[c] \o w[c])[Len(down[c]) + 1] = message
              /\ message.msgs \subseteq Unread(c, w)
  <1> DEFINE q == down[c]
             all == down[c] \o w[c]
  <1>1. q \in Seq(Message) /\ w[c] \in Seq(Message)
    BY DEF ClientTypeOK
  <1>2. /\ all \in Seq(Message)
        /\ Len(all) = Len(q) + Len(w[c])
        /\ \A i \in 1 .. Len(q) + Len(w[c]) :
             all[i] = IF i <= Len(q) THEN q[i] ELSE w[c][i - Len(q)]
    BY <1>1, ConcatProperties
  <1>3. /\ Len(q) \in Nat /\ Len(w[c]) \in Nat
        /\ DOMAIN q = 1 .. Len(q)
        /\ DOMAIN all = 1 .. Len(q) + Len(w[c])
    BY <1>1, <1>2, LenProperties
  <1> HIDE DEF all
  <1>4. \A i \in DOMAIN all : all[i].msgs \subseteq Unread(c, w)
    BY DEF Unread, ToSet, all
  <1>5. \A i \in DOMAIN q : i \in DOMAIN all /\ all[i] = q[i]
    BY <1>2, <1>3
  <1>6. ASSUME NEW message, w[c] = <<message>>
        PROVE  Len(q) + 1 \in DOMAIN all /\ all[Len(q) + 1] = message
    <2>1. Len(w[c]) = 1 /\ w[c][1] = message
      BY <1>6
    <2> QED BY <1>2, <1>3, <2>1
  <1>7. ASSUME NEW message, w[c] = <<message>>
        PROVE  /\ Len(q) + 1 \in DOMAIN all
               /\ all[Len(q) + 1] = message
               /\ message.msgs \subseteq Unread(c, w)
    BY <1>4, <1>6, <1>7
  <1> USE DEF all
  <1> QED BY <1>2, <1>4, <1>5, <1>7

\* What is inserted is a text of a user that some command has sent.
LEMMA InsertedPosted ==
  ASSUME TypeInv, PostedInv, [Next]_vars
  PROVE  InsertedNow \subseteq Users \X posted
  <1> SUFFICES ASSUME NEW u \in Users, NEW m \in Msgs,
                      offlineMsg'[u][m] > offlineMsg[u][m]
               PROVE  m \in posted
    BY DEF InsertedNow
  <1>1. \A v \in Users : offlineMsg[v] \in [Msgs -> Nat]
    BY DEF TypeInv, DbTypeOK, Rows
  <1>2. offlineMsg \in [Users -> Rows]
    BY DEF TypeInv, DbTypeOK
  <1>3. CASE UNCHANGED offlineMsg
    BY <1>1, <1>3
  <1>4. ASSUME NEW c \in Conns,
               offlineMsg' = [offlineMsg EXCEPT ![job[c].id] = NoRows]
        PROVE  FALSE
    BY <1>1, <1>2, <1>4 DEF NoRows
  <1>5. ASSUME NEW v \in Users, NEW n \in posted,
               offlineMsg' = [offlineMsg EXCEPT ![v][n] = offlineMsg[v][n] + 1]
        PROVE  m \in posted
    BY <1>1, <1>2, <1>5
  <1> QED BY <1>3, <1>4, <1>5, RowsStepKinds DEF RowsStep

LEMMA WireTypes ==
  ASSUME SafeInv, PostedInv, ClientTypeOK, NEW w, NEW q, NEW r, WireStep(w, q, r)
  PROVE  ClientTypeOK'
  <1>1. /\ down' = [c \in Conns |-> IF Stays(c) THEN down[c] \o w[c] ELSE <<>>]
        /\ queued' = [c \in Conns |-> IF Stays(c) THEN q[c] ELSE <<>>]
        /\ reader' = [c \in Conns |-> IF Stays(c) THEN r[c] ELSE "none"]
        /\ owed' = (owed \cup InsertedNow) \ LostNow(w)
    BY WireMoves DEF WireStep
  <1>2. \A c \in Conns : down[c] \o w[c] \in Seq(Message)
    BY UnreadIs DEF WireStep
  <1>3. down' \in [Conns -> Seq(Message)] /\ queued' \in [Conns -> Seq(Message)]
    BY <1>1, <1>2, EmptySeq DEF WireStep
  <1>4. reader' \in [Conns -> {"none", "main", "thread"}]
    BY <1>1 DEF WireStep, Readers
  <1>5. owed' \subseteq Users \X posted'
    BY <1>1, InsertedPosted, PostedGrows DEF SafeInv, WireStep, ClientTypeOK
  <1> QED BY <1>3, <1>4, <1>5 DEF ClientTypeOK, WireStep

LEMMA ReadTypes ==
  ASSUME ClientTypeOK, NEW c \in Conns, NEW k \in 1 .. Len(down[c]), Read(c, k)
  PROVE  ClientTypeOK'
  <1>1. /\ down'[c] \in Seq(Message)
        /\ owed' \subseteq owed
        /\ reader' \in [Conns -> Readers]
        /\ UNCHANGED <<vars, queued, ended>>
    BY ReadMoves
  <1>2. down' = [down EXCEPT ![c] = down'[c]]
    BY DEF Read, ClientTypeOK
  <1>3. down' \in [Conns -> Seq(Message)]
    BY <1>1, <1>2 DEF ClientTypeOK
  <1> QED BY <1>1, <1>3 DEF ClientTypeOK, Readers, vars, chatVars

LEMMA ClientTypeStep ==
  ASSUME SafeInv, PostedInv, ClientTypeOK, [CNext]_cvars
  PROVE  ClientTypeOK'
  <1>1. CASE UNCHANGED cvars
    BY <1>1 DEF cvars, clientVars, vars, chatVars, ClientTypeOK
  <1>2. CASE CNext
    BY <1>2, CStepKinds, WireTypes, ReadTypes
  <1> QED BY <1>1, <1>2

\* What the invariants of ChatService say holds of the composition as well.
LEMMA ServiceInvariants == CSpec => [](SafeInv /\ PostedInv /\ BatchInv)
  BY ClientsRefineService, SafeInvariant, TextsInvariant, PTL

\* The variables of the clients have their types; what is written to a client
\* is a message it knows, and what is owed was sent.
THEOREM ClientTypeCorrect == CSpec => []ClientTypeOK
  <1>1. CInit => ClientTypeOK
    BY EmptySeq DEF CInit, ClientTypeOK, Endings
  <1>2. SafeInv /\ PostedInv /\ ClientTypeOK /\ [CNext]_cvars => ClientTypeOK'
    BY ClientTypeStep
  <1> QED BY <1>1, <1>2, ServiceInvariants, PTL DEF CSpec

-----------------------------------------------------------------------------
(* Silence after loginout *)

\* Nothing is sent to a client after its loginout: the critical section of
\* _connMutex keeps a handler that has found the connection from being overtaken
\* by the erase.  What grows on the wire then has waited in the loop.
THEOREM NothingSentAfterLogoutCorrect == CSpec => NothingSentAfterLogout
  <1> DEFINE Silent == \A c \in Conns :
                         client[c].mode = "left" =>
                           Len(queued'[c]) + Len(down'[c]) <= Len(queued[c]) + Len(down[c])
  <1>1. SafeInv /\ ClientTypeOK /\ [CNext]_cvars => [Silent]_cvars
    <2> SUFFICES ASSUME SafeInv, ClientTypeOK, [CNext]_cvars,
                        NEW c \in Conns, client[c].mode = "left"
                 PROVE  Len(queued'[c]) + Len(down'[c]) <= Len(queued[c]) + Len(down[c])
      OBVIOUS
    <2> DEFINE wait == Len(queued[c])
               wire == Len(down[c])
               waitNow == Len(queued'[c])
               wireNow == Len(down'[c])
    <2>t. down[c] \in Seq(Message) /\ queued[c] \in Seq(Message)
      BY DEF ClientTypeOK
    <2>n. wait \in Nat /\ wire \in Nat
      BY <2>t, LenProperties
    <2>1. CASE UNCHANGED cvars
      <3>1. waitNow = wait /\ wireNow = wire
        BY <2>1 DEF cvars, clientVars
      <3> HIDE DEF wait, wire, waitNow, wireNow
      <3>2. waitNow + wireNow <= wait + wire
        BY <2>n, <3>1
      <3> QED BY <3>2 DEF wait, wire, waitNow, wireNow
    <2>2. ASSUME NEW w, NEW q, NEW r, WireStep(w, q, r)
          PROVE  waitNow + wireNow <= wait + wire
      <3>1. ~Listens(c) /\ ~LoginRuns(c)
        BY DEF SafeInv, SessionInv, ModeFits, Listens, LoginRuns
      <3>2. \/ w[c] = <<>> /\ q[c] = queued[c]
            \/ w[c] = queued[c] /\ q[c] = <<>>
        BY <2>2, <3>1 DEF WireStep, WireKind, Told, Requested, Answered, Flushed
      <3>3. /\ down'[c] = IF Stays(c) THEN down[c] \o w[c] ELSE <<>>
            /\ queued'[c] = IF Stays(c) THEN q[c] ELSE <<>>
        BY <2>2, WireAt
      <3>4. Len(down[c] \o w[c]) = wire + Len(w[c])
        BY <2>2, <2>t, ConcatProperties DEF WireStep
      <3>5. Len(<<>>) = 0
        OBVIOUS
      <3>6. \/ waitNow = 0 /\ wireNow = 0
            \/ waitNow = wait /\ wireNow = wire + 0
            \/ waitNow = 0 /\ wireNow = wire + wait
        <4>1. CASE ~Stays(c)
          BY <3>3, <3>5, <4>1
        <4>2. CASE Stays(c) /\ w[c] = <<>> /\ q[c] = queued[c]
          BY <3>3, <3>4, <3>5, <4>2
        <4>3. CASE Stays(c) /\ w[c] = queued[c] /\ q[c] = <<>>
          BY <3>3, <3>4, <3>5, <4>3
        <4> QED BY <3>2, <4>1, <4>2, <4>3
      <3> HIDE DEF wait, wire, waitNow, wireNow
      <3> QED BY <2>n, <3>6
    <2>3. ASSUME NEW d \in Conns, NEW k \in 1 .. Len(down[d]), Read(d, k)
          PROVE  waitNow + wireNow <= wait + wire
      <3>1. /\ waitNow = wait
            /\ Len(down'[d]) = Len(down[d]) - 1
            /\ \A e \in Conns \ {d} : down'[e] = down[e]
        BY <2>3, ReadMoves
      <3>2. wireNow = wire \/ wireNow = wire - 1
        BY <3>1
      <3> HIDE DEF wait, wire, waitNow, wireNow
      <3> QED BY <2>n, <3>1, <3>2
    <2> QED BY <2>1, <2>2, <2>3, CStepKinds
  <1> QED BY <1>1, ServiceInvariants, ClientTypeCorrect, PTL
      DEF CSpec, NothingSentAfterLogout

-----------------------------------------------------------------------------
(* The answer to a login comes first *)

LoginAnswers == {"granted", "refused"}

\* What is on the wire to c, by who reads it.  A client that main reads for is
\* in a login, and nothing is on the wire, or has its answer there as the first
\* message: in the map from the insert on, c only gets chats that wait in its
\* loop until the answer is written.  A refused login has put nothing in the map.
AnswerFirst(c) ==
    /\ ~Open(c) => reader[c] = "none"
    /\ reader[c] = "none" => down[c] = <<>> /\ queued[c] = <<>>
    /\ Open(c) /\ LoginRuns(c) => reader[c] = "main" /\ down[c] = <<>>
    /\ client[c].mode \in {"menu", "left"} => reader[c] # "none"
    /\ reader[c] = "main" /\ ~LoginRuns(c) =>
         down[c] # <<>> /\ down[c][1].kind \in LoginAnswers
    /\ \A i \in 1 .. Len(queued[c]) : queued[c][i].kind \notin LoginAnswers
    /\ \A i \in 1 .. Len(down[c]) :
         down[c][i].kind = "refused" =>
           /\ reader[c] = "main" /\ Len(down[c]) = 1 /\ queued[c] = <<>>
           /\ client[c].mode = "fresh" /\ job[c].at = "idle"

AnswerInv == \A c \in Conns : AnswerFirst(c)

\* What has been written, and is written now.
LEMMA Appended ==
  ASSUME NEW p \in Seq(Message), NEW w \in Seq(Message)
  PROVE  /\ Len(p) \in Nat /\ Len(w) \in Nat
         /\ Len(p \o w) = Len(p) + Len(w)
         /\ p = <<>> => p \o w = w
         /\ w = <<>> => p \o w = p
         /\ p # <<>> => p \o w # <<>> /\ (p \o w)[1] = p[1]
  <1>1. /\ Len(p \o w) = Len(p) + Len(w)
        /\ \A i \in 1 .. Len(p) + Len(w) :
             (p \o w)[i] = IF i <= Len(p) THEN p[i] ELSE w[i - Len(p)]
    BY ConcatProperties
  <1>2. Len(p) \in Nat /\ Len(w) \in Nat
    BY LenProperties
  <1>3. (p = <<>> => p \o w = w) /\ (w = <<>> => p \o w = p)
    BY ConcatEmptySeq
  <1>4. p # <<>> => Len(p) > 0
    BY EmptySeq, <1>2
  <1>5. ASSUME p # <<>>
        PROVE  p \o w # <<>> /\ (p \o w)[1] = p[1]
    BY <1>1, <1>2, <1>4, <1>5, EmptySeq
  <1> QED BY <1>1, <1>2, <1>3, <1>5

LEMMA NoneAppended ==
  ASSUME NEW p \in Seq(Message), NEW w \in Seq(Message), NEW kind,
         \A j \in 1 .. Len(p) : p[j].kind # kind,
         \A j \in 1 .. Len(w) : w[j].kind # kind
  PROVE  \A i \in 1 .. Len(p \o w) : (p \o w)[i].kind # kind
  <1>1. /\ Len(p \o w) = Len(p) + Len(w)
        /\ \A i \in 1 .. Len(p) + Len(w) :
             (p \o w)[i] = IF i <= Len(p) THEN p[i] ELSE w[i - Len(p)]
    BY ConcatProperties
  <1>2. Len(p) \in Nat /\ Len(w) \in Nat
    BY LenProperties
  <1> TAKE i \in 1 .. Len(p \o w)
  <1>3. CASE i <= Len(p)
    BY <1>1, <1>2, <1>3
  <1>4. CASE ~(i <= Len(p))
    <2>1. i - Len(p) \in 1 .. Len(w) /\ (p \o w)[i] = w[i - Len(p)]
      BY <1>1, <1>2, <1>4
    <2> QED BY <2>1
  <1> QED BY <1>3, <1>4

LEMMA AnswerWire ==
  ASSUME SafeInv, ClientTypeOK, NEW w, NEW q, NEW r, WireStep(w, q, r),
         NEW c \in Conns, AnswerFirst(c)
  PROVE  AnswerFirst(c)'
  <1>m. /\ down'[c] = IF Stays(c) THEN down[c] \o w[c] ELSE <<>>
        /\ queued'[c] = IF Stays(c) THEN q[c] ELSE <<>>
        /\ reader'[c] = IF Stays(c) THEN r[c] ELSE "none"
    BY WireAt
  <1>t. down[c] \in Seq(Message) /\ queued[c] \in Seq(Message) /\ w[c] \in Seq(Message)
    BY DEF ClientTypeOK, WireStep
  <1>a. /\ Len(down[c]) \in Nat /\ Len(w[c]) \in Nat
        /\ Len(down[c] \o w[c]) = Len(down[c]) + Len(w[c])
        /\ down[c] = <<>> => down[c] \o w[c] = w[c]
        /\ w[c] = <<>> => down[c] \o w[c] = down[c]
        /\ down[c] # <<>> => /\ down[c] \o w[c] # <<>>
                             /\ (down[c] \o w[c])[1] = down[c][1]
        /\ (/\ \A i \in 1 .. Len(down[c]) : down[c][i].kind # "refused"
            /\ \A i \in 1 .. Len(w[c]) : w[c][i].kind # "refused")
           => \A i \in 1 .. Len(down[c] \o w[c]) : (down[c] \o w[c])[i].kind # "refused"
    <2> DEFINE p == down[c]
               v == w[c]
    <2>1. p \in Seq(Message) /\ v \in Seq(Message)
      BY <1>t
    <2> HIDE DEF p, v
    <2>2. /\ Len(p) \in Nat /\ Len(v) \in Nat
          /\ Len(p \o v) = Len(p) + Len(v)
          /\ p = <<>> => p \o v = v
          /\ v = <<>> => p \o v = p
          /\ p # <<>> => p \o v # <<>> /\ (p \o v)[1] = p[1]
          /\ (/\ \A i \in 1 .. Len(p) : p[i].kind # "refused"
              /\ \A i \in 1 .. Len(v) : v[i].kind # "refused")
             => \A i \in 1 .. Len(p \o v) : (p \o v)[i].kind # "refused"
      BY <2>1, Appended, NoneAppended
    <2> QED BY <2>2 DEF p, v
  <1>o. Open(c)' <=> Stays(c)
    BY DEF Open, Stays
  <1>e. Len(<<>>) = 0
    OBVIOUS
  <1>0. CASE ~Stays(c)
    BY <1>0, <1>m, <1>o, <1>e DEF AnswerFirst, Stays
  <1>1. CASE Stays(c) /\ w[c] = <<>> /\ q[c] = queued[c] /\ r[c] = reader[c] /\ Settled(c)
    <2>1. down'[c] = down[c] /\ queued'[c] = queued[c] /\ reader'[c] = reader[c]
      BY <1>1, <1>m, <1>a
    <2>2. CASE ~Open(c)
      BY <1>1, <1>o, <1>e, <2>1, <2>2
      DEF AnswerFirst, Settled, LoginRuns, LoginSteps
    <2>3. CASE Open(c)
      BY <1>1, <1>o, <2>1, <2>3 DEF AnswerFirst, Settled, Open, Stays
    <2> QED BY <2>2, <2>3
  <1>2. CASE Stays(c) /\ r[c] = reader[c] /\ Told(c, w[c], q[c])
    <2>1. PICK message \in Message :
            /\ message.kind \in {"onechat", "groupchat"}
            /\ \/ w[c] = <<message>> /\ q[c] = queued[c] /\ ~LoginRuns(c)
               \/ w[c] = <<>> /\ q[c] = Append(queued[c], message)
      BY <1>2 DEF Told
    <2>2. /\ Open(c) /\ Settled(c) /\ client'[c] = client[c]
          /\ client[c].mode = "menu" \/ LoginRuns(c)
          /\ reader'[c] = reader[c] /\ reader[c] # "none"
      BY <1>2, <1>m DEF Told, Stays, Open, Listens, AnswerFirst
    <2>3. \A i \in 1 .. Len(down[c]) : down[c][i].kind # "refused"
      BY <2>2 DEF AnswerFirst, LoginRuns, LoginSteps
    <2>4. CASE w[c] = <<message>> /\ q[c] = queued[c] /\ ~LoginRuns(c)
      <3>1. down'[c] = down[c] \o w[c] /\ queued'[c] = queued[c]
        BY <1>2, <1>m, <2>4
      <3>2. Len(w[c]) = 1 /\ w[c][1] = message
        BY <2>4
      <3>3. \A i \in 1 .. Len(down'[c]) : down'[c][i].kind # "refused"
        <4>1. \A i \in 1 .. Len(w[c]) : w[c][i].kind # "refused"
          BY <2>1, <3>2
        <4> QED BY <1>a, <2>3, <3>1, <4>1
      <3> QED
        BY <1>a, <2>2, <2>4, <3>1, <3>3 DEF AnswerFirst, Settled, Open
    <2>5. CASE w[c] = <<>> /\ q[c] = Append(queued[c], message)
      <3>1. down'[c] = down[c] /\ queued'[c] = Append(queued[c], message)
        BY <1>2, <1>a, <1>m, <2>5
      <3>2. \A i \in 1 .. Len(queued'[c]) : queued'[c][i].kind \notin LoginAnswers
        BY <1>t, <2>1, <3>1, AppendProperties, LenProperties DEF AnswerFirst, LoginAnswers
      <3> QED
        BY <2>2, <2>3, <3>1, <3>2 DEF AnswerFirst, Settled, Open
    <2> QED BY <2>1, <2>4, <2>5
  <1>3. CASE Stays(c) /\ r[c] = reader[c] /\ Flushed(c, w[c], q[c])
    <2>1. /\ down'[c] = down[c] \o w[c] /\ queued'[c] = <<>> /\ reader'[c] = reader[c]
          /\ Untouched(c) /\ job[c].at = "idle" /\ w[c] = queued[c] /\ queued[c] # <<>>
      BY <1>3, <1>m DEF Flushed
    <2>2. /\ reader[c] # "none"
          /\ \A i \in 1 .. Len(w[c]) : w[c][i].kind # "refused"
          /\ \A i \in 1 .. Len(down[c]) : down[c][i].kind # "refused"
      BY <2>1 DEF AnswerFirst, LoginAnswers
    <2>3. \A i \in 1 .. Len(down'[c]) : down'[c][i].kind # "refused"
      BY <1>a, <2>1, <2>2
    <2>4. ~LoginRuns(c) /\ ~LoginRuns(c)'
      BY <2>1 DEF Untouched, LoginRuns, LoginSteps
    <2>5. reader[c] = "main" => down'[c] # <<>> /\ down'[c][1].kind \in LoginAnswers
      BY <1>a, <2>1, <2>4 DEF AnswerFirst
    <2>6. Open(c)' <=> Open(c)
      BY <2>1 DEF Untouched, Open
    <2>7. /\ ~LoginRuns(c)' /\ reader'[c] # "none"
          /\ \A i \in 1 .. Len(queued'[c]) : queued'[c][i].kind \notin LoginAnswers
          /\ ~Open(c)' => reader'[c] = "none"
      BY <1>e, <2>1, <2>2, <2>4, <2>6 DEF AnswerFirst
    <2> QED
      BY <2>1, <2>3, <2>4, <2>5, <2>7 DEF AnswerFirst
  <1>4. CASE Stays(c) /\ q[c] = queued[c] /\ Requested(c, w[c], r[c])
    <2>1. /\ down[c] = <<>> /\ queued[c] = <<>> /\ reader'[c] = "main"
          /\ down'[c] = w[c] /\ queued'[c] = <<>>
          /\ client'[c] = client[c] /\ client[c].mode = "fresh" /\ job[c].at = "idle"
      BY <1>4, <1>a, <1>m DEF Requested, AnswerFirst
    <2>2. CASE w[c] = <<Refused>> /\ job'[c] = job[c]
      <3>1. /\ Len(w[c]) = 1 /\ w[c][1] = Refused /\ w[c] # <<>>
            /\ Refused.kind = "refused"
        BY <2>2, RefusedType
      <3> QED
        BY <1>e, <2>1, <2>2, <3>1
        DEF AnswerFirst, LoginAnswers, Open, LoginRuns, LoginSteps
    <2>3. CASE w[c] = <<>> /\ LoginRuns(c)'
      BY <1>e, <2>1, <2>3 DEF AnswerFirst, Open
    <2> QED BY <1>4, <2>2, <2>3 DEF Requested
  <1>5. CASE Stays(c) /\ q[c] = queued[c] /\ r[c] = reader[c] /\ Answered(c, w[c])
    <2>1. PICK n \in AnswerLens :
            w[c] = <<Granted({m \in Msgs : job[c].batch[m] > 0}, n)>>
      BY <1>5 DEF Answered
    <2> DEFINE batch == {m \in Msgs : job[c].batch[m] > 0}
    <2>2. /\ Len(w[c]) = 1 /\ w[c][1] = Granted(batch, n) /\ w[c] # <<>>
          /\ Granted(batch, n).kind = "granted"
      BY <2>1, AnswerType
    <2> HIDE DEF batch
    <2>3. Open(c) /\ LoginRuns(c) /\ ~LoginRuns(c)'
      BY <1>5 DEF Answered
    <2>4. /\ reader'[c] = "main" /\ down'[c] = w[c] /\ queued'[c] = queued[c]
      BY <1>5, <1>a, <1>m, <2>3 DEF AnswerFirst
    <2> QED BY <1>o, <1>5, <2>2, <2>3, <2>4 DEF AnswerFirst, LoginAnswers
  <1> QED BY <1>0, <1>1, <1>2, <1>3, <1>4, <1>5 DEF WireStep, WireKind

\* main reads the answer, the thread a message after it.
LEMMA AnswerRead ==
  ASSUME ClientTypeOK, AnswerInv,
         NEW c \in Conns, NEW k \in 1 .. Len(down[c]), Read(c, k)
  PROVE  AnswerInv'
  <1>m. /\ down'[c] \in Seq(Message)
        /\ Len(down[c]) \in Nat \ {0}
        /\ Len(down'[c]) = Len(down[c]) - 1
        /\ \A i \in 1 .. Len(down'[c]) : down'[c][i] = down[c][i + 1]
        /\ \A d \in Conns \ {c} : down'[d] = down[d] /\ reader'[d] = reader[d]
        /\ reader'[c] = IF down[c][1].kind = "refused" THEN "none" ELSE "thread"
        /\ UNCHANGED <<vars, queued>>
    BY ReadMoves
  <1>v. UNCHANGED <<job, client>>
    BY <1>m DEF vars
  <1>1. ASSUME NEW d \in Conns, d # c
        PROVE  AnswerFirst(d)'
    <2>1. /\ down'[d] = down[d] /\ queued'[d] = queued[d] /\ reader'[d] = reader[d]
          /\ job'[d] = job[d] /\ client'[d] = client[d] /\ AnswerFirst(d)
      BY <1>1, <1>m, <1>v DEF AnswerInv
    <2> QED BY <2>1 DEF AnswerFirst, Open, LoginRuns
  <1>2. AnswerFirst(c)'
    <2>1. AnswerFirst(c) /\ down[c] # <<>>
      BY <1>m DEF AnswerInv
    <2>2. Open(c) /\ ~LoginRuns(c)
      BY <2>1 DEF AnswerFirst
    <2>3. ASSUME down[c][1].kind = "refused"
          PROVE  Len(down[c]) = 1 /\ queued[c] = <<>> /\ client[c].mode = "fresh"
      BY <1>m, <2>1, <2>3 DEF AnswerFirst
    <2>4. ASSUME Len(down'[c]) = 0
          PROVE  down'[c] = <<>>
      BY <1>m, <2>4, EmptySeq
    <2>5. ASSUME NEW i \in 1 .. Len(down'[c])
          PROVE  down'[c][i].kind # "refused"
      <3>1. down'[c][i] = down[c][i + 1] /\ i + 1 \in 1 .. Len(down[c]) /\ Len(down[c]) # 1
        BY <1>m, <2>5
      <3> QED BY <2>1, <3>1 DEF AnswerFirst
    <2> QED
      BY <1>m, <1>v, <2>1, <2>2, <2>3, <2>4, <2>5 DEF AnswerFirst, Open, LoginRuns
  <1> QED BY <1>1, <1>2 DEF AnswerInv

\* While main waits for its answer, the first message on the wire is the answer.
LEMMA AnswerInvariant == CSpec => []AnswerInv
  <1>1. CInit => AnswerInv
    BY DEF CInit, Init, AnswerInv, AnswerFirst, Open, NoClient, LoginRuns, Idle, LoginSteps
  <1>2. SafeInv /\ ClientTypeOK /\ AnswerInv /\ [CNext]_cvars => AnswerInv'
    <2> SUFFICES ASSUME SafeInv, ClientTypeOK, AnswerInv, [CNext]_cvars
                 PROVE  AnswerInv'
      OBVIOUS
    <2>1. CASE UNCHANGED cvars
      BY <2>1 DEF cvars, clientVars, vars, AnswerInv, AnswerFirst, Open, LoginRuns
    <2>2. CASE CNext
      BY <2>2, CStepKinds, AnswerWire, AnswerRead DEF AnswerInv
    <2> QED BY <2>1, <2>2
  <1> QED BY <1>1, <1>2, ServiceInvariants, ClientTypeCorrect, PTL DEF CSpec

-----------------------------------------------------------------------------
(* A message that arrives alone can be read *)

\* What the reader of a message may take for granted: its fields are those the
\* reader gets, and a recv() takes it whole up to the length of the boundary.
LEMMA OneIsUnderstood ==
  ASSUME NEW c \in Conns, NEW message \in Message, reader[c] \in {"main", "thread"},
         reader[c] = "main" => message.kind \in LoginAnswers,
         NEW got, got[1] = message, Len(got) = 1
  PROVE  Understood(c, got) \/ Ending(got) \in {"plain", "long"}
  <1> SUFFICES ASSUME message.sealed, ~(message.len > 1023)
               PROVE  Understood(c, got)
    BY DEF Ending, Message
  <1>1. FitsRecv(message.len)
    BY RecvBoundary DEF Message
  <1>2. Readable(reader[c], message.kind)
    <2>1. CASE reader[c] = "main"
      <3>1. message.kind \in {"granted", "refused"}
        BY <2>1 DEF LoginAnswers
      <3>2. /\ ReaderGets["main"]["granted"] \subseteq MessageFields["granted"]
            /\ ReaderGets["main"]["refused"] \subseteq MessageFields["refused"]
        BY DEF ReaderGets, MessageFields
      <3> QED BY <2>1, <3>1, <3>2 DEF Readable
    <2>2. CASE reader[c] = "thread"
      <3>1. message.kind \in {"granted", "refused", "onechat", "groupchat"}
        BY DEF Message
      <3>2. /\ ReaderGets["thread"]["granted"] \subseteq MessageFields["granted"]
            /\ ReaderGets["thread"]["refused"] \subseteq MessageFields["refused"]
            /\ ReaderGets["thread"]["onechat"] \subseteq MessageFields["onechat"]
            /\ ReaderGets["thread"]["groupchat"] \subseteq MessageFields["groupchat"]
        BY DEF ReaderGets, MessageFields, RequestFields
      <3> QED BY <2>2, <3>1, <3>2 DEF Readable
    <2> QED BY <2>1, <2>2
  <1> QED BY <1>1, <1>2 DEF Understood

\* No step ends a client because of a message it cannot read.
LEMMA EndedStep ==
  ASSUME ClientTypeOK, AnswerInv, ReadableAlone, [CNext]_cvars
  PROVE  ReadableAlone'
  <1>1. ASSUME UNCHANGED ended
        PROVE  ReadableAlone'
    BY <1>1 DEF ReadableAlone
  <1>2. ASSUME NEW c \in Conns, Start(c)
        PROVE  ReadableAlone'
    BY <1>2 DEF Start, ReadableAlone, ClientTypeOK
  <1>3. ASSUME NEW c \in Conns, NEW k \in 1 .. Len(down[c]), reader[c] # "none",
               ReadFails(c, k)
        PROVE  ReadableAlone'
    <2> DEFINE q == down[c]
               got == SubSeq(q, 1, k)
    <2>1. q \in Seq(Message) /\ Len(q) \in Nat /\ k \in 1 .. Len(q)
      BY LenProperties DEF ClientTypeOK
    <2>2. \A i \in 1 .. Len(q) : q[i] \in Message
      BY <2>1, ElementOfSeq
    <2>3. Len(got) = k /\ got[1] = q[1] /\ q[1] \in Message
      BY <2>1, <2>2, SubSeqProperties
    <2>4. ~Understood(c, got) /\ ended' = [ended EXCEPT ![c] = Ending(got)]
      BY <1>3 DEF ReadFails
    <2> HIDE DEF got
    <2>5. Ending(got) # "unreadable"
      <3>1. CASE k = 1
        <4>1. reader[c] = "main" => q[1].kind \in LoginAnswers
          BY <2>1 DEF AnswerInv, AnswerFirst, Open
        <4> QED BY <1>3, <2>3, <2>4, <3>1, <4>1, OneIsUnderstood DEF ClientTypeOK
      <3>2. CASE k > 1
        BY <2>3, <3>2 DEF Ending
      <3> QED BY <2>1, <3>1, <3>2
    <2> QED BY <2>4, <2>5 DEF ReadableAlone, ClientTypeOK
  <1>4. CASE UNCHANGED cvars
    BY <1>1, <1>4 DEF cvars, clientVars
  <1>5. CASE CNext
    <2>1. ASSUME NEW c \in Conns,
                 \/ Quit(c) \/ MenuCommand(c) \/ SilentStep(c)
                 \/ Answer(c) \/ DeliverLocal(c) \/ Flush(c)
          PROVE  UNCHANGED ended
      BY <2>1
      DEF Quit, MenuCommand, SilentStep, Answer, DeliverLocal, Flush, SendTo, ServerStep
    <2>2. ASSUME NEW c \in Conns, NEW u \in Users,
                 LoginRequest(c, u) \/ DeliverGroup(c, u)
          PROVE  UNCHANGED ended
      BY <2>2 DEF LoginRequest, DeliverGroup, SendTo, ServerStep
    <2>3. ASSUME NEW s \in Servers,
                 \/ DeliverRelayed(s) \/ Quietly(Serve(s))
                 \/ Quietly(ObserverFind(s)) \/ Quietly(ObserverStore(s))
          PROVE  UNCHANGED ended
      BY <2>3 DEF DeliverRelayed, Quietly, SendTo, ServerStep
    <2>4. ASSUME NEW c \in Conns, Recv(c)
          PROVE  ReadableAlone'
      BY <1>1, <1>3, <2>4 DEF Recv, Read
    <2> QED BY <1>1, <1>2, <1>5, <2>1, <2>2, <2>3, <2>4 DEF CNext
  <1> QED BY <1>4, <1>5

\* A message that one recv() takes alone, encrypted and of at most 1023 bytes of
\* JSON, never ends the client, whatever the lengths of the other messages are:
\* it fits the buffer, it has every field its reader gets, and main, which waits
\* for the answer to its login, gets that answer and no chat before it.
THEOREM ReadableAloneCorrect == CSpec => []ReadableAlone
  <1>1. CInit => ReadableAlone
    BY DEF CInit, ReadableAlone
  <1>2. ClientTypeOK /\ AnswerInv /\ ReadableAlone /\ [CNext]_cvars => ReadableAlone'
    BY EndedStep
  <1> QED BY <1>1, <1>2, ClientTypeCorrect, AnswerInvariant, PTL DEF CSpec

-----------------------------------------------------------------------------
(* A stored text on its way to the screen *)

\* A login has read the text, or it is in an answer on the wire.
Held(u, m) ==
    \E c \in Conns :
      \/ job[c].id = u /\ job[c].batch[m] > 0
      \/ client[c].user = u /\ \E i \in DOMAIN down[c] : m \in down[c][i].msgs

\* StoredTextSurvives alone is not inductive: the deleting of the rows could
\* then take a text nobody has read.  A text that is owed while some login is
\* about to delete the rows of its user is held.
StoredInv ==
    \A u \in Users, m \in Msgs :
      <<u, m>> \in owed =>
        /\ offlineMsg[u][m] > 0 \/ Held(u, m)
        /\ RowsRead(u) => Held(u, m)

\* Who holds an owed text goes on holding it, or its loss is accounted for.
LEMMA HeldStays ==
  ASSUME SafeInv, BatchInv, ClientTypeOK, NEW w, NEW q, NEW r, WireStep(w, q, r),
         NEW u \in Users, NEW m \in Msgs, <<u, m>> \in owed, <<u, m>> \notin LostNow(w),
         Held(u, m)
  PROVE  Held(u, m)'
  <1> DEFINE all(c) == down[c] \o w[c]
  <1>1. PICK c \in Conns :
          \/ job[c].id = u /\ job[c].batch[m] > 0
          \/ client[c].user = u /\ \E i \in DOMAIN down[c] : m \in down[c][i].msgs
    BY DEF Held
  <1>2. BatchMoves(c) /\ UNCHANGED proc
    BY BatchStepKinds DEF BatchStep, WireStep
  <1>3. Stays(c) => down'[c] = all(c)
    BY WireAt
  <1>4. u \in {client[c].user, job[c].id} /\ m \in Unread(c, w) => Stays(c)
    BY DEF LostNow
  <1>5. CASE job[c].id = u /\ job[c].batch[m] > 0
    <2>1. job[c].at \in Reading
      BY <1>5 DEF BatchInv, NoRows
    <2>2. CASE job'[c].at \in Reading /\ job'[c].id = job[c].id
                                      /\ job'[c].batch = job[c].batch
      BY <1>5, <2>2 DEF Held
    <2>3. CASE LoginAck(c)
      <3> DEFINE batch == {n \in Msgs : job[c].batch[n] > 0}
      <3>1. job[c].at = "login_ack" /\ job'[c].at = "idle"
        BY <2>3, ReturnMoves DEF LoginAck, SafeInv, TypeInv
      <3>a. Answered(c, w[c])
        BY <3>1 DEF WireStep, WireKind, Told, Flushed, Requested, Settled, LoginRuns, LoginSteps
      <3>b. PICK n \in AnswerLens : w[c] = <<Granted(batch, n)>>
        BY <3>a DEF Answered
      <3> DEFINE answer == Granted(batch, n)
      <3>2. w[c] = <<answer>> /\ m \in answer.msgs
        BY <1>5, <3>b, AnswerType
      <3> HIDE DEF answer
      <3>3. /\ Len(down[c]) + 1 \in DOMAIN all(c)
            /\ all(c)[Len(down[c]) + 1] = answer
            /\ answer.msgs \subseteq Unread(c, w)
        BY <3>2, UnreadIs DEF WireStep
      <3>4. Stays(c)
        BY <1>4, <1>5, <3>2, <3>3
      <3>5. client'[c].user = u
        BY <1>5, <2>3 DEF LoginAck, SafeInv, TypeInv, ClientInv
      <3> QED BY <1>3, <3>2, <3>3, <3>4, <3>5 DEF Held
    <2> QED BY <1>2, <2>1, <2>2, <2>3 DEF BatchMoves
  <1>6. ASSUME client[c].user = u, NEW i \in DOMAIN down[c], m \in down[c][i].msgs
        PROVE  Held(u, m)'
    <2>1. /\ i \in DOMAIN all(c)
          /\ all(c)[i] = down[c][i]
          /\ down[c][i].msgs \subseteq Unread(c, w)
      BY UnreadIs, <1>6 DEF WireStep
    <2>2. Stays(c)
      BY <1>4, <1>6, <2>1
    <2>3. client'[c].user = u
      BY <1>2, <1>6, <2>2 DEF BatchMoves, Stays
    <2> QED BY <1>3, <1>6, <2>1, <2>2, <2>3 DEF Held
  <1> QED BY <1>1, <1>5, <1>6

\* A login that is about to delete the rows of u was so before, or has just read
\* them.
LEMMA RowsReadBegins ==
  ASSUME SafeInv, BatchInv, [Next]_vars, UNCHANGED proc,
         NEW u \in Users, RowsRead(u)', ~RowsRead(u)
  PROVE  /\ UNCHANGED offlineMsg
         /\ \E c \in Conns : job'[c].id = u /\ job'[c].batch = offlineMsg[u]
  <1>1. PICK c \in Conns : job'[c].id = u /\ job'[c].at = "login_remove"
    BY DEF RowsRead
  <1>2. BatchMoves(c)
    BY BatchStepKinds DEF BatchStep
  <1>3. job[c].at # "login_remove"
    <2> SUFFICES ASSUME job[c].at = "login_remove"
                 PROVE  job[c].id = u
      BY DEF RowsRead
    <2> QED BY <1>1, <1>2 DEF BatchMoves, Reading, LoginAck
  <1> QED BY <1>1, <1>2, <1>3 DEF BatchMoves

LEMMA StoredWire ==
  ASSUME SafeInv, PostedInv, BatchInv, ClientTypeOK, StoredInv,
         NEW w, NEW q, NEW r, WireStep(w, q, r)
  PROVE  StoredInv'
  <1> SUFFICES ASSUME NEW u \in Users, NEW m \in Msgs, (<<u, m>> \in owed)'
               PROVE  /\ offlineMsg'[u][m] > 0 \/ Held(u, m)'
                      /\ RowsRead(u)' => Held(u, m)'
    BY DEF StoredInv
  <1>t. offlineMsg \in [Users -> [Msgs -> Nat]] /\ offlineMsg[u][m] \in Nat
    BY DEF SafeInv, TypeInv, DbTypeOK, Rows
  <1>n. [Next]_vars /\ UNCHANGED proc
    BY DEF WireStep
  <1>1. <<u, m>> \in (owed \cup InsertedNow) \ LostNow(w)
    BY WireMoves DEF WireStep
  <1>2. CASE <<u, m>> \in owed /\ Held(u, m)
    BY <1>1, <1>2, HeldStays
  <1>3. CASE <<u, m>> \in owed /\ ~Held(u, m)
    <2>1. offlineMsg[u][m] > 0 /\ ~RowsRead(u)
      BY <1>3 DEF StoredInv
    <2>2. offlineMsg'[u][m] > 0
      <3>1. CASE UNCHANGED offlineMsg
        BY <2>1, <3>1
      <3>2. ASSUME NEW c \in Conns, job[c].at = "login_remove",
                   offlineMsg' = [offlineMsg EXCEPT ![job[c].id] = NoRows]
            PROVE  offlineMsg'[u][m] > 0
        BY <1>t, <2>1, <3>2 DEF RowsRead
      <3>3. ASSUME NEW v \in Users, NEW n \in posted,
                   offlineMsg' = [offlineMsg EXCEPT ![v][n] = offlineMsg[v][n] + 1]
            PROVE  offlineMsg'[u][m] > 0
        BY <1>t, <2>1, <3>3
      <3> QED BY <1>n, <3>1, <3>2, <3>3, RowsStepKinds DEF RowsStep, SafeInv
    <2>3. RowsRead(u)' => Held(u, m)'
      BY <1>n, <2>1, RowsReadBegins DEF Held
    <2> QED BY <2>2, <2>3
  <1>4. CASE <<u, m>> \in InsertedNow
    <2>1. offlineMsg'[u][m] > offlineMsg[u][m] /\ ~RowsRead(u)
      BY <1>4 DEF InsertedNow
    <2>2. offlineMsg'[u][m] > 0
      <3>1. TypeInv'
        BY <1>n, TypeStep DEF SafeInv
      <3>2. offlineMsg'[u][m] \in Nat
        BY <3>1 DEF TypeInv, DbTypeOK, Rows
      <3> QED BY <1>t, <2>1, <3>2
    <2>3. ~RowsRead(u)'
      BY <1>n, <1>t, <2>1, RowsReadBegins
    <2> QED BY <2>2, <2>3
  <1> QED BY <1>1, <1>2, <1>3, <1>4

\* What is displayed is owed no more; the other texts stay where they are.
LEMMA StoredRead ==
  ASSUME ClientTypeOK, StoredInv,
         NEW c \in Conns, NEW k \in 1 .. Len(down[c]), Read(c, k)
  PROVE  StoredInv'
  <1>m. /\ down'[c] \in Seq(Message)
        /\ Len(down[c]) \in Nat \ {0}
        /\ Len(down'[c]) = Len(down[c]) - 1
        /\ \A i \in 1 .. Len(down'[c]) : down'[c][i] = down[c][i + 1]
        /\ \A d \in Conns \ {c} : down'[d] = down[d]
        /\ owed' = owed \ ({client[c].user} \X down[c][1].msgs)
        /\ UNCHANGED vars
    BY ReadMoves
  <1>v. UNCHANGED <<offlineMsg, job, client>>
    BY <1>m DEF vars, dbVars
  <1>q. down[c] \in Seq(Message)
    BY DEF ClientTypeOK
  <1>d. DOMAIN down[c] = 1 .. Len(down[c]) /\ DOMAIN down'[c] = 1 .. Len(down'[c])
    BY <1>m, <1>q, LenProperties
  <1> SUFFICES ASSUME NEW u \in Users, NEW m \in Msgs, (<<u, m>> \in owed)', Held(u, m)
               PROVE  Held(u, m)'
    BY <1>m, <1>v DEF StoredInv, RowsRead
  <1>1. PICK d \in Conns :
          \/ job[d].id = u /\ job[d].batch[m] > 0
          \/ client[d].user = u /\ \E i \in DOMAIN down[d] : m \in down[d][i].msgs
    BY DEF Held
  <1>2. CASE job[d].id = u /\ job[d].batch[m] > 0
    BY <1>v, <1>2 DEF Held
  <1>3. CASE client[d].user = u /\ \E i \in DOMAIN down[d] : m \in down[d][i].msgs
    <2>1. CASE d # c
      BY <1>m, <1>v, <1>3, <2>1 DEF Held
    <2>2. CASE d = c
      <3>1. PICK i \in 1 .. Len(down[c]) : m \in down[c][i].msgs
        BY <1>3, <1>d, <2>2
      <3>2. i # 1
        BY <1>3, <1>m, <2>2, <3>1
      <3>3. i - 1 \in DOMAIN down'[c] /\ down'[c][i - 1] = down[c][i]
        BY <1>m, <1>d, <3>1, <3>2
      <3> QED BY <1>3, <1>v, <2>2, <3>1, <3>3 DEF Held
    <2> QED BY <2>1, <2>2
  <1> QED BY <1>1, <1>2, <1>3

\* A text found in the offline table is not lost on its way to the screen: it is
\* in the table, in the login that has read it or in its answer, until the client
\* displays it or ends.
THEOREM StoredTextCorrect == CSpec => []StoredTextSurvives
  <1>1. CInit => StoredInv
    BY DEF CInit, StoredInv
  <1>2. SafeInv /\ PostedInv /\ BatchInv /\ ClientTypeOK /\ StoredInv /\ [CNext]_cvars
          => StoredInv'
    <2> SUFFICES ASSUME SafeInv, PostedInv, BatchInv, ClientTypeOK, StoredInv,
                        [CNext]_cvars
                 PROVE  StoredInv'
      OBVIOUS
    <2>1. CASE UNCHANGED cvars
      BY <2>1 DEF cvars, clientVars, vars, dbVars, StoredInv, Held, RowsRead
    <2>2. CASE CNext
      BY <2>2, CStepKinds, StoredWire, StoredRead
    <2> QED BY <2>1, <2>2
  <1>3. StoredInv => StoredTextSurvives
    BY DEF StoredInv, StoredTextSurvives, Held
  <1> QED BY <1>1, <1>2, <1>3, ServiceInvariants, ClientTypeCorrect, PTL DEF CSpec
===============================================================================
