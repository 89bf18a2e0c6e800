----------------------------- MODULE SessionSpec ------------------------------
(***************************************************************************)
(* What the cluster promises about sessions, without handlers, maps or     *)
(* Redis: a user has one owner at a time, the connection that logged in as *)
(* it, and a presence that the whole cluster reads.  A user may enter only *)
(* while nobody owns it and its presence says "offline"; presence follows  *)
(* the owner, in a step of its own.  A session ends alone, after it was    *)
(* announced, or with all the others of its server.                        *)
(***************************************************************************)
CONSTANTS Users, Conns, NoConn, Servers, ServerOf

VARIABLES
    owner,      \* owner[u]: the connection whose session u is in, or NoConn
    presence,   \* presence[u]: "online" or "offline"
    up          \* up[s]: the server s runs

sessionVars == <<owner, presence, up>>

SessionInit ==
    /\ owner = [u \in Users |-> NoConn]
    /\ presence = [u \in Users |-> "offline"]
    /\ up = [s \in Servers |-> TRUE]

Enter(u, c) ==
    /\ up[ServerOf[c]]
    /\ owner[u] = NoConn
    /\ presence[u] = "offline"
    /\ \A v \in Users : owner[v] # c
    /\ owner' = [owner EXCEPT ![u] = c]
    /\ UNCHANGED <<presence, up>>

Announce(u) ==
    /\ owner[u] # NoConn
    /\ presence[u] = "offline"
    /\ presence' = [presence EXCEPT ![u] = "online"]
    /\ UNCHANGED <<owner, up>>

\* Only a session that was announced ends while its server lives.
Leave(u) ==
    /\ owner[u] # NoConn
    /\ presence[u] = "online"
    /\ owner' = [owner EXCEPT ![u] = NoConn]
    /\ UNCHANGED <<presence, up>>

Withdraw(u) ==
    /\ owner[u] = NoConn
    /\ presence[u] = "online"
    /\ presence' = [presence EXCEPT ![u] = "offline"]
    /\ UNCHANGED <<owner, up>>

\* A server dies with all its sessions and no others; their presence stays.
Lose(s) ==
    /\ up[s]
    /\ up' = [up EXCEPT ![s] = FALSE]
    /\ owner' = [u \in Users |->
                   IF owner[u] \in {c \in Conns : ServerOf[c] = s}
                   THEN NoConn
                   ELSE owner[u]]
    /\ UNCHANGED presence

\* It starts again without sessions, and corrects no presence.
Start(s) ==
    /\ ~up[s]
    /\ up' = [up EXCEPT ![s] = TRUE]
    /\ UNCHANGED <<owner, presence>>

SessionNext ==
    \/ \E u \in Users :
         \/ \E c \in Conns : Enter(u, c)
         \/ Announce(u) \/ Leave(u) \/ Withdraw(u)
    \/ \E s \in Servers : Lose(s) \/ Start(s)

Spec == SessionInit /\ [][SessionNext]_sessionVars

\* While no server dies, whoever has entered is announced, and whoever has left
\* is withdrawn.
FairSpec ==
    /\ SessionInit
    /\ [][SessionNext]_sessionVars
    /\ \A u \in Users : WF_sessionVars(Announce(u)) /\ WF_sessionVars(Withdraw(u))
==============================================================================
