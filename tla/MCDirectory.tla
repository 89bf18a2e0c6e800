----------------------------- MODULE MCDirectory ------------------------------
(***************************************************************************)
(* Values for the runs of Directory: the connections are interchangeable,  *)
(* and so are the names.                                                   *)
(***************************************************************************)
EXTENDS Directory, TLC

CONSTANTS c1, c2, ann, bob

Symmetry == Permutations(Conns) \cup Permutations(Names)
==============================================================================
