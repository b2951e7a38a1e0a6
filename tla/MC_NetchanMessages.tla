------------------------- MODULE MC_NetchanMessages -------------------------
(***************************************************************************)
(* Small instances of NetchanMessages: one end calls at a time, the two    *)
(* directions being alike but for the moments their maps are cleared.      *)
(***************************************************************************)
EXTENDS NetchanMessagesProofs, TLC

KeySymmetry == Permutations(Keys)
ServerSends == {"server"}
ClientSends == {"client"}
=============================================================================
