----------------------------- MODULE ChatSessions -----------------------------
(***************************************************************************)
(* ChatService implements SessionSpec: the owner of a user is the          *)
(* connection that some _userConnMap of the cluster holds for it, its      *)
(* presence is User.state, and a server is up while its process is.        *)
(***************************************************************************)
EXTENDS ChatService

\* What the code needs to keep one session per user: logins of a user one at a
\* time, no request after loginout, no ctrl+c, which sets users of the other
\* servers offline, and no failure of MySQL.
Orderly ==
    /\ SerialLogins
    /\ SingleLogout
    /\ MaxSigints = 0
    /\ MaxDbFaults = 0

\* The connection registered for u anywhere in the cluster.
Owner(u) ==
    IF \E c \in Conns : Registered(c, u)
    THEN CHOOSE c \in Conns : Registered(c, u)
    ELSE NoConn

Abstract == INSTANCE SessionSpec WITH
    owner <- [u \in Users |-> Owner(u)],
    presence <- userState,
    up <- [s \in Servers |-> proc[s] = "up"]

\* Every step of the handlers is one step of an abstract session, or none: a
\* login enters at its insert and is announced by its updateState, a logout or
\* a close callback leaves at its erase and is withdrawn by its updateState; a
\* process that ends takes the sessions of its own map with it and no others.
SessionsRefine == Abstract!Spec

\* With fair handlers, and no crash, a session that has entered is announced
\* and one that has left is withdrawn: User.state never stays wrong.
PresenceCatchesUp == Abstract!FairSpec
==============================================================================
