------------------------------- MODULE MCClient -------------------------------
(***************************************************************************)
(* Values for the runs of ChatClient: c1 and c2 on s1, c3 on s2.           *)
(***************************************************************************)
EXTENDS ChatClient, TLC

CONSTANTS s1, s2, c1, c2, c3

MCServerOf == [c \in Conns |-> IF c = c3 THEN s2 ELSE s1]

\* The longest chat that a recv() takes whole.
MCTextLen == [m \in Msgs |-> 1023]
==============================================================================
