------------------------------- MODULE MCChat --------------------------------
(***************************************************************************)
(* Values for the runs of ChatService: up to two servers, with c1 and c2   *)
(* on the first and c3 on the second, so that the sessions of one user     *)
(* meet on one server as well as across servers.                           *)
(***************************************************************************)
EXTENDS ChatSessions, TLC

CONSTANTS s1, s2, c1, c2, c3

MCServerOf == [c \in Conns |-> IF c = c3 THEN s2 ELSE s1]

\* Connections of one server are interchangeable, and so are the users.
Symmetry == Permutations(Conns \ {c3}) \cup Permutations(Users)

\* At most one fault, of whatever kind, in a behaviour.
OneFault == dbFaults + busFaults + crashes + sigints <= 1
==============================================================================
