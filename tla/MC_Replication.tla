--------------------------- MODULE MC_Replication ---------------------------
(***************************************************************************)
(* Small instances of Replication.                                         *)
(***************************************************************************)
EXTENDS Replication

=============================================================================
