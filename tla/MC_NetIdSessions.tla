--------------------------- MODULE MC_NetIdSessions ---------------------------
(***************************************************************************)
(* Small instances of NetIdSessions.                                       *)
(***************************************************************************)
EXTENDS NetIdSessions, TLC

ObjSymmetry == Permutations(Objs)
=============================================================================
