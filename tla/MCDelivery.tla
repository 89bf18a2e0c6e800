------------------------------ MODULE MCDelivery ------------------------------
(***************************************************************************)
(* Values for the runs of ChatDelivery: a recipient that moves between two *)
(* servers and the sender on one of them.                                  *)
(***************************************************************************)
EXTENDS ChatDelivery, TLC

CONSTANTS s1, s2, c1, c2, c3

MCServerOf == [c \in Conns |-> IF c = c3 THEN s2 ELSE s1]

Symmetry == Permutations(Conns \ {c3}) \cup Permutations(Users)
==============================================================================
