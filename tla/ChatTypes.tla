------------------------------ MODULE ChatTypes ------------------------------
(***************************************************************************)
(* The parameters shared by every module of the chat cluster: the server   *)
(* processes behind nginx, the TCP connections nginx handed to each of     *)
(* them, and the keys of the MySQL tables.                                 *)
(***************************************************************************)
EXTENDS Naturals, Sequences

CONSTANTS
    Servers,        \* the ChatServer processes of the cluster
    Users,          \* ids of the rows of table User
    Groups,         \* ids of the rows of table AllGroup
    Msgs,           \* chat texts; each is sent by at most one command
    Conns,          \* TCP connections (slots: a closed one may be opened again)
    ServerOf,       \* the server process nginx chose for each connection
    NoUser,         \* the id -1 of a default-constructed User
    NoConn,         \* no entry in _userConnMap; also: _connMutex is free
    NoMsg,
    ObserverThread  \* holder of _connMutex when the Redis observer owns it

ASSUME ServerOfAssumption == ServerOf \in [Conns -> Servers]

ASSUME SentinelAssumption ==
    /\ NoUser \notin Users
    /\ NoConn \notin Conns
    /\ NoMsg \notin Msgs
    /\ ObserverThread \notin Conns \cup {NoConn}

\* The rows of one user in table OfflineMessage: how many copies of each text.
Rows == [Msgs -> Nat]

NoRows == [m \in Msgs |-> 0]
==============================================================================
