--------------------------- MODULE NetchanMessages ---------------------------
(***************************************************************************)
(* RPCs on the netchan: how one end names the target of a call to the      *)
(* other (_send_message and _deliver_message in goldnet_multiplayer.cpp).  *)
(*                                                                         *)
(* A call is named by a small id.  The sender registers the id (a node     *)
(* path and a method: here one member of Keys) on the reliable stream the  *)
(* first time it uses it with a peer, and remembers the index the          *)
(* registration has in that stream.  A reliable call follows its           *)
(* registration, so it names the bare id.  An unreliable one may overtake  *)
(* the stream: it carries the registration in front until the peer has     *)
(* acknowledged the registration, and names the bare id after that.        *)
(*                                                                         *)
(* The model has one server process and one client process that connect,   *)
(* lose the connection and connect again.  Each connection gives the       *)
(* client a peer id the server has not used before (ENet draws them at     *)
(* random), so the server's per-peer maps are those of the current id.     *)
(*                                                                         *)
(* The goldnet core is external: a reliable stream delivered in order, a   *)
(* set of datagrams that may be lost or overtaken, the two counters        *)
(* messages_queued and messages_delivered, and the overflow flag.          *)
(***************************************************************************)
EXTENDS Naturals, Sequences, FiniteSets

CONSTANTS
    Keys,        \* the "path::method" strings the game calls
    Senders,     \* the ends that make calls, a subset of End
    StreamLimit, \* more unacknowledged reliable messages than this overflow
    MaxStream,   \* bound: reliable messages queued in one session
    MaxAir       \* bound: unreliable messages in flight at once

End == {"server", "client"}
Other(e) == IF e = "server" THEN "client" ELSE "server"

ASSUME SendersAssumption == Senders \subseteq End
ASSUME BoundsAssumption  == /\ StreamLimit \in Nat /\ MaxStream \in Nat
                            /\ MaxAir \in Nat

VARIABLES
    msg_ids,        \* end -> key -> its id at that end, 0 if it has none
    msg_next_id,    \* end -> the next id it hands out
    msg_registered, \* end -> id -> index of its registration in the stream
    msg_targets,    \* end -> id -> the key the other end named
    stream,         \* end -> the reliable messages it queued, this session
    delivered,      \* end -> how many of them the other end has received
    acked,          \* end -> how many of them it knows were received
    air,            \* end -> its unreliable messages in flight
    core,           \* end -> the core holds a channel to the other end
    link,           \* end -> its view of the connection
    wire            \* TRUE while the transport joins the two ends

adapter == <<msg_ids, msg_next_id, msg_registered, msg_targets>>
channel == <<stream, delivered, acked, air>>
vars == <<adapter, channel, core, link, wire>>

(***************************************************************************)
(* A message: does it carry the registration, does it carry a call, which  *)
(* id it names and (for a bare call, a ghost) which key the sender meant.  *)
(***************************************************************************)
Message == [reg : BOOLEAN, call : BOOLEAN, id : Nat, key : Keys]

Registration(k, id) == [reg |-> TRUE,  call |-> FALSE, id |-> id, key |-> k]
BareCall(k, id)     == [reg |-> FALSE, call |-> TRUE,  id |-> id, key |-> k]
NamedCall(k, id)    == [reg |-> TRUE,  call |-> TRUE,  id |-> id, key |-> k]

\* How long a call is: it fits in the datagram with its registration in front,
\* only without it, or not at all (MAX_UNRELIABLE_MESSAGE).
Sizes == {"small", "edge", "big"}
FitsDatagram(size, bare) == \/ size = "small"
                            \/ size = "edge" /\ bare

Empty == [x \in {} |-> x]
Put(f, x, y) == [z \in DOMAIN f \cup {x} |-> IF z = x THEN y ELSE f[z]]

\* f is a function from some of D into R.
IsMap(f, D, R) == /\ f = [x \in DOMAIN f |-> f[x]]
                  /\ DOMAIN f \subseteq D
                  /\ \A x \in DOMAIN f : f[x] \in R

-----------------------------------------------------------------------------
Init ==
    /\ msg_ids = [e \in End |-> [k \in Keys |-> 0]]
    /\ msg_next_id = [e \in End |-> 1]
    /\ msg_registered = [e \in End |-> Empty]
    /\ msg_targets = [e \in End |-> Empty]
    /\ stream = [e \in End |-> << >>]
    /\ delivered = [e \in End |-> 0]
    /\ acked = [e \in End |-> 0]
    /\ air = [e \in End |-> {}]
    /\ core = [e \in End |-> e = "client"]
    /\ link = [e \in End |-> "down"]
    /\ wire = FALSE

(***************************************************************************)
(* Sending.                                                                *)
(***************************************************************************)

\* The id of a key: the one it has, or the next.  Ids outlive sessions.
IdOf(e, k) == IF msg_ids[e][k] # 0 THEN msg_ids[e][k] ELSE msg_next_id[e]

AssignId(e, k) ==
    /\ msg_ids' = [msg_ids EXCEPT ![e][k] = IdOf(e, k)]
    /\ msg_next_id' = [msg_next_id EXCEPT
                          ![e] = IF msg_ids[e][k] # 0 THEN @ ELSE @ + 1]

\* The core's counters for the peer; zero when it holds no channel to it.
QueuedOneLate(e)  == IF core[e] THEN Len(stream[e]) + 1 ELSE 0
QueuedOneEarly(e) == IF core[e] THEN Len(stream[e]) - 1 ELSE 0

Queued(e)       == IF core[e] THEN Len(stream[e]) ELSE 0
DeliveredAck(e) == IF core[e] THEN acked[e] ELSE 0

KnownOneEarly(e, id) == /\ id \in DOMAIN msg_registered[e]
                        /\ DeliveredAck(e) >= msg_registered[e][id]

\* The peer has acknowledged the id's registration.
Known(e, id) == /\ id \in DOMAIN msg_registered[e]
                /\ DeliveredAck(e) > msg_registered[e][id]

NewRegistrationsAlways(e, k, id) == <<Registration(k, id)>>

\* What the call puts on the reliable stream in front of itself: its
\* registration, the first time the id is used with this peer.
NewRegistrations(e, k, id) ==
    IF id \in DOMAIN msg_registered[e] THEN << >> ELSE <<Registration(k, id)>>

\* queue_reliable: appended, unless the core holds no channel to the peer.
Enqueue(e, msgs) ==
    stream' = [stream EXCEPT ![e] = IF core[e] THEN @ \o msgs ELSE @]

Overflowed(e, msgs) == core[e] /\ Len(stream[e] \o msgs) - acked[e] > StreamLimit

\* _check_overflow.  The server's core drops the peer, and the transport is
\* told to disconnect it; the client's core starts over, and its own peer is
\* closed.  Either way the adapter's maps stay until the inner reports it.
CheckOverflow(e, msgs) ==
    IF ~Overflowed(e, msgs)
    THEN Enqueue(e, msgs) /\ UNCHANGED <<delivered, acked, core, link, wire>>
    ELSE /\ stream' = [stream EXCEPT ![e] = << >>]
         /\ delivered' = [delivered EXCEPT ![e] = 0]
         /\ acked' = [acked EXCEPT ![e] = 0]
         /\ core' = [core EXCEPT ![e] = e = "client"]
         /\ link' = [link EXCEPT ![e] = IF e = "client" THEN "closing" ELSE @]
         /\ wire' = FALSE

\* _send_message, and the _check_overflow every call of it that returns true
\* is followed by: a reliable call.
SendReliable(e, k) ==
    LET id == IdOf(e, k)
        msgs == NewRegistrations(e, k, id) \o <<BareCall(k, id)>>
    IN /\ e \in Senders /\ link[e] = "up"
       /\ Len(stream[e]) + Len(msgs) <= MaxStream
       /\ AssignId(e, k)
       /\ msg_registered' = [msg_registered EXCEPT ![e] =
              IF id \in DOMAIN @ THEN @ ELSE Put(@, id, Queued(e))]
       /\ CheckOverflow(e, msgs)
       /\ air' = IF Overflowed(e, msgs) THEN [x \in End |-> {}] ELSE air
       /\ UNCHANGED msg_targets

\* An unreliable call the datagram can hold.
SendUnreliable(e, k, size) ==
    LET id == IdOf(e, k)
        known == Known(e, id)
        msgs == NewRegistrations(e, k, id)
        m == IF known THEN BareCall(k, id) ELSE NamedCall(k, id)
    IN /\ e \in Senders /\ link[e] = "up"
       /\ FitsDatagram(size, known)
       /\ Len(stream[e]) + Len(msgs) <= MaxStream
       /\ Cardinality(air[e]) < MaxAir
       /\ AssignId(e, k)
       /\ msg_registered' = [msg_registered EXCEPT ![e] =
              IF id \in DOMAIN @ THEN @ ELSE Put(@, id, Queued(e))]
       /\ CheckOverflow(e, msgs)
       /\ air' = IF Overflowed(e, msgs) THEN [x \in End |-> {}]
                 ELSE IF core[e] /\ wire THEN [air EXCEPT ![e] = @ \cup {m}]
                 ELSE air
       /\ UNCHANGED msg_targets

\* An unreliable call too long for it goes through the inner: the id it was
\* given stays, and nothing is registered.
SendOversized(e, k, size) ==
    /\ e \in Senders /\ link[e] = "up"
    /\ ~FitsDatagram(size, Known(e, IdOf(e, k)))
    /\ AssignId(e, k)
    /\ UNCHANGED <<msg_registered, msg_targets, channel, core, link, wire>>

(***************************************************************************)
(* Receiving: _deliver_message up to the lookup of the target.             *)
(***************************************************************************)
Joined(e) == wire /\ link[e] = "up" /\ link[Other(e)] = "up"

LearnTarget(e, m) ==
    msg_targets' = [msg_targets EXCEPT ![Other(e)] =
                       IF m.reg THEN Put(@, m.id, m.key) ELSE @]

\* The next reliable message e queued reaches the other end.
DeliverReliable(e) ==
    /\ Joined(e) /\ core[e]
    /\ delivered[e] < Len(stream[e])
    /\ LearnTarget(e, stream[e][delivered[e] + 1])
    /\ delivered' = [delivered EXCEPT ![e] = @ + 1]
    /\ UNCHANGED <<msg_ids, msg_next_id, msg_registered, stream, acked, air,
                   core, link, wire>>

\* A datagram of e's arrives, in any order,
DeliverUnreliable(e, m) ==
    /\ Joined(e)
    /\ m \in air[e]
    /\ LearnTarget(e, m)
    /\ air' = [air EXCEPT ![e] = @ \ {m}]
    /\ UNCHANGED <<msg_ids, msg_next_id, msg_registered, stream, delivered,
                   acked, core, link, wire>>

\* or does not.
LoseUnreliable(e, m) ==
    /\ m \in air[e]
    /\ air' = [air EXCEPT ![e] = @ \ {m}]
    /\ UNCHANGED <<adapter, stream, delivered, acked, core, link, wire>>

\* An acknowledgement reaches e: the core's messages_delivered moves up.
Ack(e) ==
    /\ Joined(e) /\ core[e]
    /\ \E n \in acked[e] + 1 .. delivered[e] : acked' = [acked EXCEPT ![e] = n]
    /\ UNCHANGED <<adapter, stream, delivered, air, core, link, wire>>

(***************************************************************************)
(* Sessions.                                                               *)
(***************************************************************************)
FreshChannel(e) ==
    /\ stream' = [stream EXCEPT ![e] = << >>]
    /\ delivered' = [delivered EXCEPT ![e] = 0]
    /\ acked' = [acked EXCEPT ![e] = 0]

ForgetMaps(e) ==
    /\ msg_registered' = [msg_registered EXCEPT ![e] = Empty]
    /\ msg_targets' = [msg_targets EXCEPT ![e] = Empty]

KeepMaps == UNCHANGED <<msg_registered, msg_targets>>

\* The transport joins the two ends.
Connect ==
    /\ ~wire /\ \A e \in End : link[e] = "down"
    /\ wire' = TRUE
    /\ UNCHANGED <<adapter, channel, core, link>>

\* _relay_peer_connected on the server: the core adds the peer.  The peer id
\* is new, so nothing is kept under it.
ServerConnected ==
    /\ wire /\ link["server"] = "down"
    /\ link' = [link EXCEPT !["server"] = "up"]
    /\ core' = [core EXCEPT !["server"] = TRUE]
    /\ FreshChannel("server")
    /\ ForgetMaps("server")
    /\ UNCHANGED <<msg_ids, msg_next_id, air, wire>>

ClientConnectedKeepsMaps ==
    /\ wire /\ link["client"] = "down"
    /\ link' = [link EXCEPT !["client"] = "up"]
    /\ FreshChannel("client")
    /\ KeepMaps
    /\ UNCHANGED <<msg_ids, msg_next_id, air, core, wire>>

\* _relay_connected_to_server: _reset_client_state.
ClientConnected ==
    /\ wire /\ link["client"] = "down"
    /\ link' = [link EXCEPT !["client"] = "up"]
    /\ FreshChannel("client")
    /\ ForgetMaps("client")
    /\ UNCHANGED <<msg_ids, msg_next_id, air, core, wire>>

\* The connection is lost: what is in flight goes with it.
Break ==
    /\ wire /\ wire' = FALSE
    /\ air' = [e \in End |-> {}]
    /\ UNCHANGED <<adapter, stream, delivered, acked, core, link>>

\* _relay_peer_disconnected: _forget_peer.
ServerHearsLoss ==
    /\ ~wire /\ link["server"] = "up"
    /\ link' = [link EXCEPT !["server"] = "down"]
    /\ core' = [core EXCEPT !["server"] = FALSE]
    /\ ForgetMaps("server")
    /\ UNCHANGED <<msg_ids, msg_next_id, channel, wire>>

\* _end_server_session forgets the peers the core still knows.
EndServerSession ==
    /\ core' = [core EXCEPT !["server"] = FALSE]
    /\ IF core["server"] THEN ForgetMaps("server") ELSE KeepMaps

\* _set_multiplayer_peer on the host: another peer, or none, in place of the
\* one its session runs on.  The inner drops its peers and says nothing.
ServerSwapsPeer ==
    /\ link["server"] = "up"
    /\ link' = [link EXCEPT !["server"] = "down"]
    /\ EndServerSession
    /\ wire' = FALSE
    /\ air' = [e \in End |-> {}]
    /\ UNCHANGED <<msg_ids, msg_next_id, stream, delivered, acked>>

\* The host's own peer closes: _relay_server_disconnected ends the session
\* and resets the client side too, every peer's maps among it.
ServerCloses ==
    /\ link["server"] = "up"
    /\ link' = [link EXCEPT !["server"] = "down"]
    /\ core' = [core EXCEPT !["server"] = FALSE]
    /\ ForgetMaps("server")
    /\ wire' = FALSE
    /\ air' = [e \in End |-> {}]
    /\ UNCHANGED <<msg_ids, msg_next_id, stream, delivered, acked>>

\* _relay_server_disconnected on a client: the server went away, or the client
\* closed its own peer.
ClientHearsLoss ==
    /\ link["client"] = "closing" \/ (link["client"] = "up" /\ ~wire)
    /\ link' = [link EXCEPT !["client"] = "down"]
    /\ FreshChannel("client")
    /\ ForgetMaps("client")
    /\ UNCHANGED <<msg_ids, msg_next_id, air, core, wire>>

\* The game swaps its peer for another: no signal, so no reset before the new
\* connection is up.
ClientSwapsPeer ==
    /\ link["client"] # "down"
    /\ link' = [link EXCEPT !["client"] = "down"]
    /\ wire' = FALSE
    /\ air' = [e \in End |-> {}]
    /\ UNCHANGED <<adapter, stream, delivered, acked, core>>

\* The process at one end is another one: a server started again, or the other
\* server a client joins; a player who joins in place of one who left.
Restart(e) ==
    /\ ~wire /\ link[e] = "down"
    /\ msg_ids' = [msg_ids EXCEPT ![e] = [k \in Keys |-> 0]]
    /\ msg_next_id' = [msg_next_id EXCEPT ![e] = 1]
    /\ ForgetMaps(e)
    /\ UNCHANGED <<channel, core, link, wire>>

Transfer == \E e \in End :
    \/ DeliverReliable(e)
    \/ Ack(e)
    \/ \E m \in air[e] : DeliverUnreliable(e, m) \/ LoseUnreliable(e, m)

Session ==
    \/ Connect \/ ServerConnected \/ ClientConnected \/ Break
    \/ ServerHearsLoss \/ ServerSwapsPeer \/ ServerCloses
    \/ ClientHearsLoss \/ ClientSwapsPeer
    \/ \E e \in End : Restart(e)

Send == \E e \in End, k \in Keys :
    \/ SendReliable(e, k)
    \/ \E size \in Sizes : SendUnreliable(e, k, size) \/ SendOversized(e, k, size)

Next == Transfer \/ Session \/ Send

\* The core goes on resending and acknowledging while the connection lasts,
\* and the inner reports every change of it at a later poll.
Fairness ==
    /\ \A e \in End : WF_vars(DeliverReliable(e)) /\ WF_vars(Ack(e))
    /\ WF_vars(ServerConnected) /\ WF_vars(ClientConnected)
    /\ WF_vars(ServerHearsLoss) /\ WF_vars(ClientHearsLoss)

Spec == Init /\ [][Next]_vars
FairSpec == Spec /\ Fairness

-----------------------------------------------------------------------------
TypeOK ==
    /\ msg_ids \in [End -> [Keys -> Nat]]
    /\ msg_next_id \in [End -> Nat \ {0}]
    /\ msg_registered = [e \in End |-> msg_registered[e]]
    /\ \A e \in End : IsMap(msg_registered[e], Nat, Nat)
    /\ msg_targets = [e \in End |-> msg_targets[e]]
    /\ \A e \in End : IsMap(msg_targets[e], Nat, Keys)
    /\ stream \in [End -> Seq(Message)]
    /\ delivered \in [End -> Nat]
    /\ acked \in [End -> Nat]
    /\ air \in [End -> SUBSET Message]
    /\ core \in [End -> BOOLEAN]
    /\ link \in [End -> {"down", "up", "closing"}]
    /\ wire \in BOOLEAN

Resolves(e, m) == /\ m.id \in DOMAIN msg_targets[Other(e)]
                  /\ msg_targets[Other(e)][m.id] = m.key

(***************************************************************************)
(* A call that names its target by the bare id resolves, whenever it       *)
(* arrives: the receiver knows the id by then, and as the very path and    *)
(* method the sender meant.  This holds for the next reliable message, and *)
(* for every datagram in flight although datagrams overtake the stream     *)
(* (_send_message's "known" against _deliver_message's lookup), through    *)
(* overflows, swaps of the peer and restarts of either process.            *)
(***************************************************************************)
CallsResolve == \A e \in End : Joined(e) =>
    /\ \A m \in air[e] : ~m.reg => Resolves(e, m)
    /\ delivered[e] < Len(stream[e]) =>
          LET m == stream[e][delivered[e] + 1] IN ~m.reg => Resolves(e, m)

(***************************************************************************)
(* The path and method of a target go over the reliable stream once a      *)
(* session: a registration is never queued again while the first one, or   *)
(* its acknowledgement, is still on the way.                               *)
(***************************************************************************)
RegisteredOnce == \A e \in End : Joined(e) =>
    \A i, j \in 1..Len(stream[e]) :
        /\ stream[e][i].reg /\ stream[e][j].reg
        /\ stream[e][i].id = stream[e][j].id
        => i = j

(***************************************************************************)
(* An unreliable call stops carrying its path: once an end has registered  *)
(* a target with its peer, either the peer's acknowledgement of exactly    *)
(* that registration is seen or the connection ends.  The index            *)
(* _send_message keeps is the one the delivered counter passes.            *)
(***************************************************************************)
LearnsTarget == \A e \in Senders, k \in Keys :
    (link[e] = "up" /\ IdOf(e, k) \in DOMAIN msg_registered[e])
        ~> (Known(e, IdOf(e, k)) \/ ~wire)

(***************************************************************************)
(* "Everything kept for one peer goes with it" (_forget_peer's comment):   *)
(* once the host's session is over, no map holds an entry of its peer.     *)
(***************************************************************************)
PeerStateGoesWithIt == link["server"] = "down" =>
    msg_registered["server"] = Empty /\ msg_targets["server"] = Empty
=============================================================================
