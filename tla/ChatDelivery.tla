----------------------------- MODULE ChatDelivery -----------------------------
(***************************************************************************)
(* What becomes of a chat text.  The code keeps no record of deliveries,   *)
(* so history variables are added to ChatService: they are never read by   *)
(* its actions, only by the properties below.                              *)
(*                                                                         *)
(* The code makes no promise to a recipient whose session begins, ends or  *)
(* breaks while the text travels: the routing decision (map, User.state,   *)
(* subscription) is taken in several steps and can be stale when used.     *)
(* Such texts are recorded as disturbed; the first two properties say that *)
(* nothing else goes wrong, the others what the documentation promises.    *)
(***************************************************************************)
EXTENDS ChatService

VARIABLES
    intended,   \* intended[m]: the users the server accepted m for
    disturbed,  \* the pairs <<u, m>> that met a change of the session of u
    hungUp      \* some client has closed its socket

historyVars == <<intended, disturbed, hungUp>>
dvars == <<vars, historyVars>>

\* The text is on its way to u: in a handler, in Redis, or in the observer.
InFlight(u, m) ==
    \/ \E c \in Conns :
         /\ job[c].msg = m
         /\ \/ job[c].id = u
               /\ job[c].at \in ChatSteps \cup {"group_publish", "group_store"}
            \/ u \in job[c].todo
    \/ \E s \in Servers :
         \/ \E i \in 1 .. Len(inbox[s]) : inbox[s][i] = [chan |-> u, msg |-> m]
         \/ /\ observer[s].at # "idle"
            /\ observer[s].chan = u
            /\ observer[s].msg = m

\* No login, logout or close of u is going on, and Redis has executed what the
\* earlier ones wrote.
Settled(u) ==
    /\ \A c \in Conns :
         /\ job[c].at \in LoginSteps \cup LogoutSteps \cup CloseSteps
              => job[c].id # u
         /\ client[c].mode = "gone" => client[c].user # u
    /\ \A s \in Servers : \A i \in 1 .. Len(subCmds[s]) : subCmds[s][i].chan # u

InBatch(u, m) ==
    \E c \in Conns : /\ job[c].at \in {"login_remove", "login_ack"}
                     /\ job[c].id = u
                     /\ job[c].batch[m] > 0

\* A step of the system that disturbs the delivery of m to u: its session is
\* not settled before or after the step, the process that holds the text dies,
\* or the client of a login dies before the answer with the text is sent.
Disturbs(u, m) ==
    \/ InFlight(u, m) /\ ~Settled(u)
    \/ InFlight(u, m)' /\ ~Settled(u)'
    \/ InFlight(u, m) /\ (crashes' # crashes \/ sigints' # sigints)
    \/ InBatch(u, m) /\ \E c \in Conns : /\ job[c].id = u
                                         /\ client'[c].mode \in {"gone", "down"}

DInit ==
    /\ Init
    /\ intended = [m \in Msgs |-> {}]
    /\ disturbed = {}
    /\ hungUp = FALSE

DNext ==
    /\ Next
    /\ intended' = [m \in Msgs |->
                      IF m \in posted' \ posted
                      THEN {u \in Users : InFlight(u, m)'}
                      ELSE intended[m]]
    /\ disturbed' = disturbed \cup {p \in Users \X Msgs : Disturbs(p[1], p[2])}
    /\ hungUp' = (hungUp \/ \E c \in Conns : client'[c].mode = "gone")

DSpec == DInit /\ [][DNext]_dvars
-------------------------------------------------------------------------------
\* The copies of m that u has, or will have at its next login.  While a login
\* holds a batch it has not deleted yet, batch and rows are the same copies.
Copies(u, m) ==
    LET logins == {c \in Conns : /\ job[c].at \in {"login_remove", "login_ack"}
                                 /\ job[c].id = u}
        held(c) == job[c].batch[m]
        rows == IF \E c \in logins : job[c].at = "login_remove" /\ held(c) > 0
                THEN 0 ELSE offlineMsg[u][m]
    IN  sends[u][m] + rows
        + (IF \E c \in logins : held(c) > 0 THEN 1 ELSE 0)

\* A one-to-one text whose recipient's session did not change while the text
\* travelled is delivered exactly once: written to the connection of the
\* recipient, or stored until its next login, never both, never neither,
\* whatever happened to the sender and however many logins come later.
UndisturbedExactlyOnce ==
    \A m \in Msgs : \A u \in intended[m] :
      <<u, m>> \notin disturbed /\ ~InFlight(u, m) => Copies(u, m) = 1

\* A user who is logged in has nothing waiting in table OfflineMessage (it is
\* read at login only, so such a text would stay unseen), except what arrived
\* while a session of the user changed.
StoredOnlyWhileAway ==
    \A c \in Conns, m \in Msgs :
      LET u == client[c].user
      IN  /\ client[c].mode = "menu"
          /\ Settled(u)
          /\ <<u, m>> \notin disturbed
          => offlineMsg[u][m] = 0

\* No text is duplicated or lost without a failure: as long as no client has
\* broken its connection, what was accepted is delivered or stored.
EveryChatKept ==
    \A m \in Msgs : \A u \in intended[m] :
      ~hungUp /\ ~InFlight(u, m) => Copies(u, m) >= 1

\* A group text reaches every member queryGroupUsers returned, those after the
\* first member of the sender's own server included.
GroupReachesEveryMember ==
    \A m \in Msgs : \A u, v \in intended[m] :
      u # v /\ <<u, m>> \notin disturbed /\ ~InFlight(u, m) => Copies(u, m) >= 1
==============================================================================
