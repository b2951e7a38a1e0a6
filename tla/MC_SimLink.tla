----------------------------- MODULE MC_SimLink -----------------------------
(***************************************************************************)
(* A small instance of SimLink: the send leg off, slow, lossy and slow, or *)
(* capped; the receive leg off, slow, or lossy.                            *)
(***************************************************************************)
EXTENDS SimLink

MCSendConfigs == {{}, {"loss", "delay"}, {"cap"}}
MCRecvConfigs == {{}, {"loss", "delay"}}
=============================================================================
