--------------------------- MODULE ClientHelpers ---------------------------
(***************************************************************************)
(* What a client may do with the snapshots it took: follow the server's    *)
(* clock, and show the node between two of them.                           *)
(***************************************************************************)
EXTENDS StateStream, ServerClock, InterpolationBuffer

(***************************************************************************)
(* Whatever the delays and the order of the snapshots, ServerClock's       *)
(* estimate is never ahead of the server, nor behind it by more than the   *)
(* longest delay of an observation that was not overtaken; and from frame  *)
(* to frame it goes on by the time that passed, give or take the slew, but *)
(* for a snap to the least delayed sample kept.                            *)
(***************************************************************************)
EstimateFollows == Latest # 0 => ClockTrails /\ ClockGoesOn

(***************************************************************************)
(* Snapshots late or twice do not change what InterpolationBuffer has: the *)
(* newest ones in the order of their times, since the last teleport.  As   *)
(* the render time goes on with nothing pushed, a node is shown between    *)
(* two of them next to each other, so never on the way of a teleport, or   *)
(* at most extrap_max past the last one, and holds when that is over.  A   *)
(* push changes nothing of what is shown at a time up to the last snapshot *)
(* there was, which is where a render time far enough behind the server's  *)
(* is; what was shown past that jumps to what came, and a teleport is      *)
(* shown at once.                                                          *)
(***************************************************************************)
ShownFromNewest == Latest # 0 => BufferIsNewest /\ BufferIsSmooth /\ BufferIsSteady
=============================================================================
