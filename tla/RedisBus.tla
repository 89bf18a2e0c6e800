------------------------------- MODULE RedisBus -------------------------------
(***************************************************************************)
(* Redis as class Redis uses it.  A server process has two connections:    *)
(* the publish context, on which PUBLISH waits for its reply, and the      *)
(* subscribe context, on which SUBSCRIBE and UNSUBSCRIBE are written       *)
(* without waiting: Redis executes them some time later, in the order they *)
(* were written, and pushes the messages of the subscribed channels to the *)
(* observer thread.  The two connections of one process, and those of      *)
(* different processes, are not ordered with respect to each other.        *)
(***************************************************************************)
EXTENDS ChatTypes

CONSTANTS
    MaxPending,     \* bound: unexecuted commands a subscribe connection holds
    MaxBusFaults    \* bound: how many Redis failures may happen

ASSUME BusAssumption == MaxPending \in Nat \ {0} /\ MaxBusFaults \in Nat

VARIABLES
    subCmds,    \* subCmds[s]: commands written but not yet executed by Redis
    subs,       \* subs[s]: the channels Redis has s subscribed to
    inbox,      \* inbox[s]: pushed messages the observer of s has not read
    linked,     \* linked[s]: the observer of s still reads its connection
    busFaults

busVars == <<subCmds, subs, inbox, linked, busFaults>>

Cmd == [op : {"SUBSCRIBE", "UNSUBSCRIBE"}, chan : Users]
Push == [chan : Users, msg : Msgs]

BusTypeOK ==
    /\ subCmds \in [Servers -> Seq(Cmd)]
    /\ \A s \in Servers : Len(subCmds[s]) <= MaxPending
    /\ subs \in [Servers -> SUBSET Users]
    /\ inbox \in [Servers -> Seq(Push)]
    /\ linked \in [Servers -> BOOLEAN]
    /\ busFaults \in 0 .. MaxBusFaults

BusInit ==
    /\ subCmds = [s \in Servers |-> <<>>]
    /\ subs = [s \in Servers |-> {}]
    /\ inbox = [s \in Servers |-> <<>>]
    /\ linked = [s \in Servers |-> TRUE]
    /\ busFaults = 0

BusFail ==
    /\ busFaults < MaxBusFaults
    /\ busFaults' = busFaults + 1

\* redisAppendCommand and redisBufferWrite; fails silently (the result is
\* ignored) once the context is in error.  Waiting for room is the bound of the
\* model: the output buffer of the context grows without one.
WriteCmd(s, op, u) ==
    /\ \/ /\ linked[s]
          /\ Len(subCmds[s]) < MaxPending
          /\ subCmds' = [subCmds EXCEPT ![s] = Append(@, [op |-> op, chan |-> u])]
       \/ ~linked[s] /\ UNCHANGED subCmds
    /\ UNCHANGED <<subs, inbox, linked, busFaults>>

subscribe(s, u) == WriteCmd(s, "SUBSCRIBE", u)

unsubscribe(s, u) == WriteCmd(s, "UNSUBSCRIBE", u)

\* PUBLISH: one push per subscribed process, none when nobody is subscribed;
\* or the command fails and the message is dropped, the result being ignored.
publish(u, m) ==
    /\ \/ /\ inbox' = [s \in Servers |->
                         IF u \in subs[s]
                         THEN Append(inbox[s], [chan |-> u, msg |-> m])
                         ELSE inbox[s]]
          /\ UNCHANGED busFaults
       \/ UNCHANGED inbox /\ BusFail
    /\ UNCHANGED <<subCmds, subs, linked>>

\* Redis executes the oldest command of s's subscribe connection.
RedisServe(s) ==
    /\ subCmds[s] # <<>>
    /\ LET cmd == Head(subCmds[s])
       IN  subs' = [subs EXCEPT ![s] = IF cmd.op = "SUBSCRIBE"
                                       THEN @ \cup {cmd.chan}
                                       ELSE @ \ {cmd.chan}]
    /\ subCmds' = [subCmds EXCEPT ![s] = Tail(@)]
    /\ UNCHANGED <<inbox, linked, busFaults>>

\* The connection is gone: Redis forgets its subscriptions and what it had
\* not delivered.
Unlink(s) ==
    /\ subCmds' = [subCmds EXCEPT ![s] = <<>>]
    /\ subs' = [subs EXCEPT ![s] = {}]
    /\ inbox' = [inbox EXCEPT ![s] = <<>>]

\* The subscribe connection breaks while the process lives: redisGetReply
\* returns REDIS_ERR, the observer loop ends, and nothing reconnects.
ObserverQuits(s) ==
    /\ linked[s]
    /\ BusFail
    /\ Unlink(s)
    /\ linked' = [linked EXCEPT ![s] = FALSE]
==============================================================================
