------------------------------ MODULE ChatClient ------------------------------
(***************************************************************************)
(* The client processes at the other end of the connections, composed with *)
(* ChatService: what the server writes to a connection travels in order,   *)
(* encrypted or not, and is read either by main, which waits for the       *)
(* answer to its login in one recv(), or, from the first successful login  *)
(* on, by the receive thread.  A recv() takes whatever has arrived, and    *)
(* what it took is decrypted and parsed as one message: an exception then  *)
(* ends the client process.  The server processes live: faults of theirs   *)
(* are in the runs of ChatService.                                         *)
(*                                                                         *)
(* The loop threads.  muduo gives each connection to one of the IO loops.  *)
(* conn->send writes at once when it is called on the loop of conn; called *)
(* on any other thread it queues the write in that loop, which does it     *)
(* when the callback it is running has returned.  Here each connection has *)
(* a loop of its own: a handler that sends to a connection of its own loop *)
(* is one whose write waits in the queue for no time.                      *)
(***************************************************************************)
EXTENDS ChatService, Protocol, SequencesExt

CONSTANTS
    TextLen,    \* TextLen[m]: the bytes of a chat with the text m, as JSON
    AnswerLens  \* the bytes of an answer to login may be any of these: its lists
                \* of friends, groups and offline messages have no limit

ASSUME LengthAssumption == TextLen \in [Msgs -> Nat] /\ AnswerLens \subseteq Nat

VARIABLES
    reader,     \* reader[c]: who reads the socket: "none", "main", "thread"
    queued,     \* queued[c]: sent to c by other threads, waits for the loop of c
    down,       \* down[c]: written to c by the server, not yet read
    ended,      \* ended[c]: why the client of c was ended by what it read
    owed        \* history: the pairs <<u, m>> inserted into OfflineMessage that
                \* u has not been shown since, but those lost on the wire

clientVars == <<reader, queued, down, ended, owed>>
cvars == <<vars, clientVars>>

Message == [kind : {"granted", "refused", "onechat", "groupchat"},
            sealed : BOOLEAN,       \* encrypted with aesEncrypt
            msgs : SUBSET Msgs,     \* the chat, or the offline messages
            len : Nat]              \* its bytes of JSON

Endings == {"no", "merged", "plain", "long", "unreadable"}

ClientTypeOK ==
    /\ reader \in [Conns -> {"none", "main", "thread"}]
    /\ queued \in [Conns -> Seq(Message)]
    /\ down \in [Conns -> Seq(Message)]
    /\ ended \in [Conns -> Endings]
    /\ owed \subseteq Users \X posted

CInit ==
    /\ Init
    /\ reader = [c \in Conns |-> "none"]
    /\ queued = [c \in Conns |-> <<>>]
    /\ down = [c \in Conns |-> <<>>]
    /\ ended = [c \in Conns |-> "no"]
    /\ owed = {}
-------------------------------------------------------------------------------
\* The answer of a login that is accepted, with the offline messages.
Granted(msgs, n) == [kind |-> "granted", sealed |-> TRUE, msgs |-> msgs, len |-> n]

\* {"errmsg":"...","errno":1,"msgid":5}, with one of two fixed texts.
Refused == [kind |-> "refused", sealed |-> TRUE, msgs |-> {}, len |-> 60]

Chat(kind, m) == [kind |-> kind, sealed |-> TRUE, msgs |-> {m}, len |-> TextLen[m]]

\* handleRedisSubscribeMsg sends what was published: the JSON text itself, be it
\* a chat or a group chat.
Plain(m) == [Chat("onechat", m) EXCEPT !.sealed = FALSE]

Nothing == [c \in Conns |-> <<>>]

To(c, message) == [Nothing EXCEPT ![c] = <<message>>]

\* The rows of u that are about to be deleted have been read.
RowsRead(u) == \E c \in Conns : job[c].id = u /\ job[c].at = "login_remove"

\* A step of the server that writes w, and after which q waits in the loops.
\* What has been written, or waits, for a client that is gone after the step is
\* lost, and nobody reads for it any more.
Writes(w, q, readers) ==
    LET alive(c) == client'[c].mode \in {"fresh", "menu", "left"}
        unread(c) == UNION {message.msgs : message \in ToSet(down[c] \o w[c])}
        inserted == {p \in Users \X Msgs :
                       /\ offlineMsg'[p[1]][p[2]] > offlineMsg[p[1]][p[2]]
                       /\ ~RowsRead(p[1])}
        lost == {p \in owed : \E c \in Conns :
                   ~alive(c) /\ p[1] \in {client[c].user, job[c].id} /\ p[2] \in unread(c)}
    IN  /\ down' = [c \in Conns |-> IF alive(c) THEN down[c] \o w[c] ELSE <<>>]
        /\ queued' = [c \in Conns |-> IF alive(c) THEN q[c] ELSE <<>>]
        /\ reader' = [c \in Conns |-> IF alive(c) THEN readers[c] ELSE "none"]
        /\ owed' = (owed \cup inserted) \ lost

ServerStep(w) == Writes(w, queued, reader) /\ UNCHANGED ended

\* Mutant: every send writes at once, whatever the loop of the connection does.
SendNow(thread, c, message) == ServerStep(To(c, message))

\* TcpConnection::send, called by the handler of a connection or the observer.
SendTo(thread, c, message) ==
    IF thread = c THEN ServerStep(To(c, message))
    ELSE /\ Writes(Nothing, [queued EXCEPT ![c] = Append(@, message)], reader)
         /\ UNCHANGED ended

\* doPendingFunctors: the loop of c runs no callback, and does what is queued.
Flush(c) ==
    /\ job[c].at = "idle"
    /\ queued[c] # <<>>
    /\ UNCHANGED <<vars, ended>>
    /\ Writes([Nothing EXCEPT ![c] = queued[c]], [queued EXCEPT ![c] = <<>>], reader)

Start(c) ==
    /\ Connect(c)
    /\ Writes(Nothing, queued, reader)
    /\ ended' = [ended EXCEPT ![c] = "no"]

\* Mutant: the refusals are not answered.
NoAnswer(c) == Nothing

\* Mutant: an answer of a kind the client does not know.
StrangeAnswer(c) == To(c, [Refused EXCEPT !.kind = "error"])

Refusal(c) == To(c, Refused)

\* main sends the request and blocks in recv(); a refusal is answered at once.
LoginRequest(c, u) ==
    /\ reader[c] = "none"
    /\ LoginQuery(c, u)
    /\ Writes(IF job' = job THEN Refusal(c) ELSE Nothing, queued,
              [reader EXCEPT ![c] = "main"])
    /\ UNCHANGED ended

\* Mutant: the offline messages are left out of the answer.
BareAnswer(c) ==
    /\ LoginAck(c)
    /\ \E n \in AnswerLens : ServerStep(To(c, Granted({}, n)))

Answer(c) ==
    /\ LoginAck(c)
    /\ \E n \in AnswerLens :
         ServerStep(To(c, Granted({m \in Msgs : job[c].batch[m] > 0}, n)))

DeliverLocal(c) ==
    /\ ChatSend(c)
    /\ SendTo(c, job[c].tgt, Chat("onechat", job[c].msg))

DeliverGroup(c, u) ==
    /\ GroupSend(c, u)
    /\ SendTo(c, connMap[ServerOf[c]][u], Chat("groupchat", job[c].msg))

DeliverRelayed(s) ==
    /\ ObserverSend(s)
    /\ SendTo(ObserverThread, observer[s].tgt, Plain(observer[s].msg))

\* The main menu is reached when main has read the answer.
MenuCommand(c) ==
    /\ reader[c] = "thread"
    /\ ClientCommand(c)
    /\ client'[c].mode \in {"menu", "left"}
    /\ ServerStep(Nothing)

Quit(c) == Hangup(c) /\ ServerStep(Nothing)

SilentStep(c) ==
    /\ job[c].at \notin {"login_ack", "chat_send"}
    /\ Handler(c)
    /\ sends' = sends
    /\ ServerStep(Nothing)
-------------------------------------------------------------------------------
Understood(c, got) ==
    /\ Len(got) = 1
    /\ got[1].sealed
    /\ FitsRecv(got[1].len)
    /\ Readable(reader[c], got[1].kind)

\* Why got ended its reader; "long" is what no recv() takes whole.
Ending(got) ==
    IF Len(got) > 1 THEN "merged"
    ELSE IF ~got[1].sealed THEN "plain"
    ELSE IF got[1].len > 1023 THEN "long"
    ELSE "unreadable"

\* main takes up the answer; the receive thread shows a chat and goes on.
Read(c, k) ==
    LET got == SubSeq(down[c], 1, k)
    IN  /\ Understood(c, got)
        /\ reader' = [reader EXCEPT
                        ![c] = IF got[1].kind = "refused" THEN "none" ELSE "thread"]
        /\ down' = [down EXCEPT ![c] = SubSeq(@, k + 1, Len(@))]
        /\ owed' = owed \ ({client[c].user} \X got[1].msgs)
        /\ UNCHANGED <<vars, queued, ended>>

\* An exception nobody catches: the process ends and its socket is closed.
ReadFails(c, k) ==
    LET got == SubSeq(down[c], 1, k)
    IN  /\ ~Understood(c, got)
        /\ Hangup(c)
        /\ Writes(Nothing, queued, reader)
        /\ ended' = [ended EXCEPT ![c] = Ending(got)]

\* recv(): as many of the messages written to c as have arrived.
Recv(c) ==
    /\ reader[c] # "none"
    /\ \E k \in 1 .. Len(down[c]) : Read(c, k) \/ ReadFails(c, k)
-------------------------------------------------------------------------------
Quietly(A) == A /\ ServerStep(Nothing)

CNext ==
    \/ \E c \in Conns :
         \/ Start(c) \/ Quit(c) \/ MenuCommand(c) \/ Recv(c)
         \/ \E u \in Users : LoginRequest(c, u) \/ DeliverGroup(c, u)
         \/ SilentStep(c) \/ Answer(c) \/ DeliverLocal(c) \/ Flush(c)
    \/ \E s \in Servers :
         \/ DeliverRelayed(s)
         \/ Quietly(Serve(s)) \/ Quietly(ObserverFind(s))
         \/ Quietly(ObserverStore(s))

CSpec == CInit /\ [][CNext]_cvars

\* ChatService's Fairness; a loop comes round to what is queued in it; a client
\* that waits in recv() gets what arrives.
CFairSpec ==
    /\ CSpec
    /\ \A c \in Conns :
         /\ WF_cvars(Recv(c)) /\ WF_cvars(Flush(c))
         /\ WF_cvars(\/ SilentStep(c) \/ Answer(c) \/ DeliverLocal(c)
                     \/ \E u \in Users : DeliverGroup(c, u))
         /\ SF_cvars(Quietly(LoginSubscribe(c) \/ LogoutUnsubscribe(c)
                             \/ CloseUnsubscribe(c)))
    /\ \A s \in Servers :
         /\ WF_cvars(Quietly(Serve(s)))
         /\ WF_cvars(\/ DeliverRelayed(s) \/ Quietly(ObserverFind(s))
                     \/ Quietly(ObserverStore(s)))
-------------------------------------------------------------------------------
(* Properties *)

\* After loginout has unregistered a client nothing more is sent to it: no
\* handler that had found its connection before is still about to send.  What
\* was sent before, by another thread, may still be written after the logout.
NothingSentAfterLogout ==
    [][\A c \in Conns :
         client[c].mode = "left" =>
           Len(queued'[c]) + Len(down'[c]) <= Len(queued[c]) + Len(down[c])]_cvars

\* A text in the offline table is not lost on its way to the screen: it stays in
\* the table, in the login that has read it or in the answer on the wire, until
\* it is displayed.  It is lost with a client that ends before it has read the
\* answer, for the rows are deleted before that; a text inserted between the
\* reading and the deleting of the rows is deleted unread, and is not counted either.
StoredTextSurvives ==
    \A u \in Users, m \in Msgs :
      <<u, m>> \in owed =>
        \/ offlineMsg[u][m] > 0
        \/ \E c \in Conns :
             \/ job[c].id = u /\ job[c].batch[m] > 0
             \/ /\ client[c].user = u
                /\ \E i \in DOMAIN down[c] : m \in down[c][i].msgs

\* What ends a client is a message that arrives joined to another, or not
\* encrypted, or of more than 1023 bytes of JSON.  Any other message can be read
\* by whoever reads it: it fits the recv() buffer after encryption, it has the
\* fields the reader gets, and no chat overtakes the answer main waits for,
\* although a user is in the map long before its login is answered.
ReadableAlone == \A c \in Conns : ended[c] # "unreadable"

\* A text taken from the Redis queue for a user who is connected here is sent
\* so that the client can show it.
RelayReadable == \A c \in Conns : ended[c] # "plain"

\* A client that waits for the answer to its login gets one, or ends: refused
\* logins are answered, and no handler before the answer waits for ever.
LoginReturns == \A c \in Conns : reader[c] = "main" ~> reader[c] # "main"
==============================================================================
