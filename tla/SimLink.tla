------------------------------- MODULE SimLink -------------------------------
(***************************************************************************)
(* The simulated network between the calls a process makes through the     *)
(* inner API and the inner API of the process that reads them.             *)
(*                                                                         *)
(* On the sending end (_sim_send) a call is dropped, sent at once, or held *)
(* until a later poll releases it, along the link of the peer it is for; a *)
(* broadcast is a link of its own, unless the simulated link is capped,    *)
(* when it is sent to each peer apart.  A client receives through a        *)
(* GoldNetSimPeer, which holds what arrives, by the peer it is from.       *)
(*                                                                         *)
(* role says which end sends: the host, to a client behind a               *)
(* GoldNetSimPeer; or the client, to a host, which has none.  "mesh" is    *)
(* another peer that reaches the same client, on transports that let one.  *)
(*                                                                         *)
(* The goldnet core's NetSim is external.  It releases what one link holds *)
(* in the order it took it: a time to release is never before the last one *)
(* given to that link.  So it may answer 0 while the link holds calls that *)
(* are due and wait for a poll.                                            *)
(***************************************************************************)
EXTENDS Naturals, Sequences, SequencesExt, FiniteSets

CONSTANTS
    Objects,      \* nodes of the sending end that calls are made on
    SendConfigs,  \* sim_config values the game sets: subsets of Knobs
    RecvConfigs,  \* and recv_sim_config values
    MaxSends,     \* bound: calls made
    MaxSessions   \* bound: connections

Knobs == {"loss", "delay", "cap"}
Sources == {"peer", "mesh"}    \* who a packet is from
HeldLinks == {"one", "all"}    \* one peer, by its id; everyone, by 0
Links == HeldLinks \cup {"mesh"}

\* Both simulations are off until the game sets one.
ASSUME ConfigsAssumption ==
    /\ SendConfigs \cup RecvConfigs \subseteq SUBSET Knobs
    /\ {} \in SendConfigs \cap RecvConfigs
ASSUME BoundsAssumption == MaxSends \in Nat /\ MaxSessions \in Nat

VARIABLES
    role,      \* which end sends
    alive,     \* objects not freed
    sent,      \* history: the calls, in order; a packet is an index of it
    sess,      \* history: the session this is
    heard,     \* history: calls a client had made when it last heard of an end
    left,      \* history: of each link, calls it is too late for by now
    sim,       \* sending end: sim_config
    held,      \* sending end: link -> the PendingSends its NetSim holds
    conn,      \* the connection is up
    parted_s,  \* the sending end has been told it is not
    parted_r,  \* and the receiving one
    stream,    \* transport: source -> reliable packets on their way
    loose,     \* transport: unreliable packets on their way
    arrived,   \* receiving end: packets of the transport not taken yet
    recv_sim,  \* recv_sim_config
    peer_sim,  \* the configuration of the wrapper in use
    late,      \* the wrapper: source -> packets its NetSim holds
    ready,     \* the wrapper: packets the inner has not read
    got        \* history: packets the inner read

vars == <<role, alive, sent, sess, heard, left, sim, held, conn, parted_s,
          parted_r, stream, loose, arrived, recv_sim, peer_sim, late, ready, got>>
sending == <<alive, sent, sim, held>>
air     == <<stream, loose>>
wrapper == <<peer_sim, late, ready>>
session == <<sess, heard, left>>

Configs == <<sim, recv_sim>>

\* A mutated form: every packet may be lost.
ReliableNever(i) == FALSE

Reliable(i) == sent[i].rel
From(i) == IF sent[i].link = "mesh" THEN "mesh" ELSE "peer"

\* What of s is in S, as it lies in s: SelectSeq as a recursive function.
Sift(s, S) ==
    LET f[n \in 0 .. Len(s)] ==
            IF n = 0 THEN <<>>
            ELSE IF s[n] \in S THEN Append(f[n - 1], s[n])
            ELSE f[n - 1]
    IN  f[Len(s)]

Only(s, src) == Sift(s, {i \in Range(s) : From(i) = src})
Without(s, src) == Sift(s, {i \in Range(s) : From(i) # src})

Seqs == Seq(1 .. MaxSends)

TypeOK ==
    /\ role \in {"host", "client"}
    /\ alive \subseteq Objects
    /\ sent \in Seq([link : Links, rel : BOOLEAN, obj : Objects \cup {"link", "none"},
                     at : 0 .. MaxSessions, over : SUBSET (1 .. MaxSends)])
    /\ sess \in 0 .. MaxSessions
    /\ heard \in 0 .. MaxSends
    /\ left \in [Links -> 0 .. MaxSends]
    /\ sim \in SendConfigs
    /\ {recv_sim, peer_sim} \subseteq RecvConfigs
    /\ held \in [HeldLinks -> Seqs]
    /\ {conn, parted_s, parted_r} \subseteq BOOLEAN
    /\ stream \in [Sources -> Seqs]
    /\ loose \subseteq 1 .. MaxSends
    /\ {arrived, ready, got} \subseteq Seqs
    /\ late \in [Sources -> Seqs]

Init ==
    /\ role \in {"host", "client"}
    /\ alive = Objects
    /\ sent = <<>> /\ got = <<>>
    /\ sess = 0 /\ heard = 0 /\ left = [l \in Links |-> 0]
    /\ sim = {} /\ recv_sim = {} /\ peer_sim = {}
    /\ held = [l \in HeldLinks |-> <<>>]
    /\ conn = FALSE /\ parted_s = TRUE /\ parted_r = TRUE
    /\ stream = [s \in Sources |-> <<>>] /\ loose = {}
    /\ arrived = <<>>
    /\ late = [s \in Sources |-> <<>>] /\ ready = <<>>

-----------------------------------------------------------------------------
\* The sending end.

\* inner->rpc of these calls, over a transport that takes them only while
\* the connection lasts.
InnerRpc(s, calls) ==
    IF conn
    THEN /\ stream' = [stream EXCEPT !["peer"] =
                         @ \o Sift(s, {i \in Range(s) : calls[i].rel})]
         /\ loose' = loose \cup {i \in Range(s) : ~calls[i].rel}
    ELSE UNCHANGED air

\* The link _sim_send puts a call on: under a cap a broadcast is split.
LinkOf(l) == IF "cap" \in sim THEN "one" ELSE l

Made(k, rel, o, over) ==
    sent' = Append(sent, [link |-> k, rel |-> rel, obj |-> o, at |-> sess,
                          over |-> over])

Lost(k, rel, o) == Made(k, rel, o, {}) /\ UNCHANGED <<held, stream, loose>>

\* _sim_send, past the split: no room for it, sent at once, or held.
SimSend(k, rel, o) ==
    LET i == Len(sent) + 1
    IN  \/ ~rel /\ "cap" \in sim /\ Lost(k, rel, o)
        \/ /\ Made(k, rel, o, Range(held[k]))
           /\ InnerRpc(<<i>>, sent')
           /\ UNCHANGED held
        \/ /\ sim \cap {"delay", "cap"} # {} \/ held[k] # <<>>
           /\ Made(k, rel, o, {})
           /\ held' = [held EXCEPT ![k] = Append(@, i)]
           /\ UNCHANGED air

\* What every send leaves alone, and may not exceed.
Sending ==
    /\ Len(sent) < MaxSends
    /\ UNCHANGED <<role, alive, session, sim, conn, parted_s, parted_r, arrived,
                   recv_sim, wrapper, got>>

\* _rpc of a call that neither a command stream nor the netchan takes: a
\* simulated loss takes an unreliable one, told by the cached @rpc mode.  A
\* call is taken with or without a session; a broadcast that is split goes
\* to the peers there are.
Rpc(l, rel, o) ==
    /\ o \in alive
    /\ LinkOf(l) # l => ~parted_s
    /\ Sending
    /\ \/ ~rel /\ "loss" \in sim /\ Lost(LinkOf(l), rel, o)
       \/ SimSend(LinkOf(l), rel, o)

\* goldnet's own packets, always unreliable and to one peer, called on the
\* GoldNetLink, which stays: a host's snapshot, a client's uplink.
Packet ==
    /\ Sending
    /\ \/ "loss" \in sim /\ Lost("one", FALSE, "link")
       \/ SimSend("one", FALSE, "link")

SendSnapshot == role = "host" /\ ~parted_s /\ Packet

SendUplink == role = "client" /\ conn /\ Packet

\* _poll: sim.pump sends what is due, of what has its object still.
SendPoll ==
    \E due \in [HeldLinks -> 0 .. MaxSends] :
        /\ \A l \in HeldLinks : due[l] <= Len(held[l])
        /\ \E l \in HeldLinks : due[l] > 0
        /\ LET out == SubSeq(held["one"], 1, due["one"])
                      \o SubSeq(held["all"], 1, due["all"])
               there == {i \in Range(out) : sent[i].obj \in alive \cup {"link"}}
           IN  InnerRpc(Sift(out, there), sent)
        /\ held' = [l \in HeldLinks |-> SubSeq(held[l], due[l] + 1, Len(held[l]))]
        /\ UNCHANGED <<role, alive, sent, session, Configs, conn, parted_s, parted_r,
                       arrived, wrapper, got>>

\* The game frees a node calls are waiting on.
Free(o) ==
    /\ o \in alive
    /\ alive' = alive \ {o}
    /\ UNCHANGED <<role, sent, session, Configs, held, conn, parted_s, parted_r, air,
                   arrived, wrapper, got>>

SetSim(c) ==
    /\ sim' = c /\ sim' # sim
    /\ UNCHANGED <<role, alive, sent, session, held, conn, parted_s, parted_r, air,
                   arrived, recv_sim, wrapper, got>>

\* A mutated form: the link's entry goes as well.
ForgetLinkEntry == held' = [l \in {"all"} |-> held[l]]

\* sim.forget_link of the peer this end talks to: a host's for the peer that
\* went (_forget_peer), a client's for 1 (_relay_server_disconnected).
ForgetLink == held' = [held EXCEPT !["one"] = <<>>]

SenderHears ==
    /\ ~conn /\ ~parted_s
    /\ ForgetLink
    /\ parted_s' = TRUE /\ heard' = IF role = "client" THEN Len(sent) ELSE heard
    /\ UNCHANGED <<role, alive, sent, sess, left, Configs, conn, parted_r, air, arrived,
                   wrapper, got>>

\* A host ends its session itself: _end_server_session, then a new peer or none.
HostCloses ==
    /\ role = "host" /\ conn /\ ~parted_s
    /\ ForgetLink
    /\ conn' = FALSE /\ parted_s' = TRUE
    /\ stream' = [stream EXCEPT !["peer"] = <<>>]
    /\ loose' = {i \in loose : From(i) # "peer"}
    /\ UNCHANGED <<role, alive, sent, session, Configs, parted_r, arrived, wrapper,
                   got>>

-----------------------------------------------------------------------------
\* The transport.

\* A mutated form: the new wrapper is not set up.
NewWrapperPlain ==
    /\ peer_sim' = {}
    /\ late' = [s \in Sources |-> <<>>] /\ ready' = <<>>

\* _set_multiplayer_peer: a client's peer goes in behind a new wrapper, set
\* up as the old one was.
NewWrapper ==
    /\ peer_sim' = recv_sim
    /\ late' = [s \in Sources |-> <<>>] /\ ready' = <<>>

\* A new connection, at any time: nothing asks that the last one's end was
\* heard of.  Of what the old one carried, nothing is followed further.  A
\* client's peer is 1 again, so its link keeps what it holds; to a host the
\* client is another peer, whose link is new.
Connect ==
    /\ sess < MaxSessions
    /\ sess' = sess + 1
    /\ left' = [l \in Links |-> IF l = "all" THEN 0
                              ELSE IF role = "host" THEN Len(sent) ELSE heard]
    /\ held' = IF role = "host" THEN [held EXCEPT !["one"] = <<>>] ELSE held
    /\ conn' = TRUE /\ parted_s' = FALSE /\ parted_r' = FALSE
    /\ stream' = [s \in Sources |-> <<>>] /\ loose' = {}
    /\ arrived' = <<>>
    /\ NewWrapper
    /\ UNCHANGED <<role, alive, sent, heard, Configs, got>>

Break ==
    /\ conn /\ conn' = FALSE
    /\ stream' = [stream EXCEPT !["peer"] = <<>>]
    /\ loose' = {i \in loose : From(i) # "peer"}
    /\ UNCHANGED <<role, sending, session, parted_s, parted_r, arrived, recv_sim,
                   wrapper, got>>

Arrive(s) ==
    /\ ~parted_r /\ stream[s] # <<>>
    /\ arrived' = Append(arrived, Head(stream[s]))
    /\ stream' = [stream EXCEPT ![s] = Tail(@)]
    /\ UNCHANGED <<role, sending, session, conn, parted_s, parted_r, loose, recv_sim,
                   wrapper, got>>

\* An unreliable packet comes at any time, or not at all.
ArriveLoose(i) ==
    /\ ~parted_r
    /\ arrived' \in {arrived, Append(arrived, i)}
    /\ loose' = loose \ {i}
    /\ UNCHANGED <<role, sending, session, conn, parted_s, parted_r, stream, recv_sim,
                   wrapper, got>>

\* The other peer sends the client a reliable packet.
MeshSends ==
    LET i == Len(sent) + 1
    IN  /\ role = "host" /\ ~parted_r /\ i <= MaxSends
        /\ Made("mesh", TRUE, "none", {})
        /\ stream' = [stream EXCEPT !["mesh"] = Append(@, i)]
        /\ UNCHANGED <<role, alive, session, Configs, held, conn, parted_s, parted_r, loose,
                       arrived, wrapper, got>>

-----------------------------------------------------------------------------
\* The receiving end.

\* A mutated form: what is held is not looked at.
ThroughPastHeld == peer_sim = {}

\* Off, and nothing held that a packet could overtake.
Through == peer_sim = {} /\ \A s \in Sources : late[s] = <<>>

\* GoldNetSimPeer::_poll: what the transport has, through or by way of the
\* simulation, which may lose an unreliable packet; then what is due.
WrapperPoll ==
    /\ role = "host" /\ ~parted_r
    /\ \/ /\ Through
          /\ ready' = ready \o arrived
          /\ UNCHANGED late
       \/ /\ ~Through
          /\ \E lost \in SUBSET {i \in Range(arrived) : ~Reliable(i)},
                due \in [Sources -> 0 .. MaxSends] :
                LET kept == Sift(arrived, Range(arrived) \ lost)
                    all  == [s \in Sources |-> late[s] \o Only(kept, s)]
                IN  /\ peer_sim \cap {"loss", "cap"} = {} => lost = {}
                    /\ \A s \in Sources : due[s] <= Len(all[s])
                    /\ late' = [s \in Sources |-> SubSeq(all[s], due[s] + 1, Len(all[s]))]
                    /\ ready' = ready \o SubSeq(all["peer"], 1, due["peer"])
                                      \o SubSeq(all["mesh"], 1, due["mesh"])
    /\ arrived' = <<>>
    /\ UNCHANGED <<role, sending, session, conn, parted_s, parted_r, air, recv_sim,
                   peer_sim, got>>

\* The inner reads one packet: _get_packet, or a host's own peer's.
InnerReads ==
    LET queue == IF role = "host" THEN ready ELSE arrived
    IN  /\ ~parted_r /\ queue # <<>>
        /\ got' = Append(got, Head(queue))
        /\ IF role = "host"
           THEN ready' = Tail(ready) /\ UNCHANGED arrived
           ELSE arrived' = Tail(arrived) /\ UNCHANGED ready
        /\ UNCHANGED <<role, sending, session, conn, parted_s, parted_r, air, recv_sim,
                       peer_sim, late>>

\* GoldNetSimPeer::_on_peer_disconnected: what the peer had in flight goes
\* with it, here and in the transport.
PeerGone(s) ==
    /\ late' = [late EXCEPT ![s] = <<>>]
    /\ ready' = Without(ready, s)

\* The receiving end hears of the break.
ReceiverHears ==
    /\ ~conn /\ ~parted_r
    /\ PeerGone("peer")
    /\ arrived' = <<>>
    /\ parted_r' = TRUE
    /\ UNCHANGED <<role, sending, session, conn, parted_s, air, recv_sim, peer_sim, got>>

\* The other peer leaves.
MeshLeaves ==
    /\ role = "host" /\ ~parted_r
    /\ PeerGone("mesh")
    /\ arrived' = Without(arrived, "mesh")
    /\ stream' = [stream EXCEPT !["mesh"] = <<>>]
    /\ left' = [left EXCEPT !["mesh"] = Len(sent)]
    /\ UNCHANGED <<role, sending, sess, heard, conn, parted_s, parted_r, loose,
                   recv_sim, peer_sim, got>>

SetRecvSim(c) ==
    /\ role = "host" /\ recv_sim' = c /\ recv_sim' # recv_sim
    /\ peer_sim' = c
    /\ UNCHANGED <<role, sending, session, conn, parted_s, parted_r, air, arrived, late,
                   ready, got>>

-----------------------------------------------------------------------------
Next ==
    \/ \E l \in HeldLinks, rel \in BOOLEAN, o \in Objects : Rpc(l, rel, o)
    \/ SendSnapshot
    \/ SendUplink
    \/ SendPoll
    \/ \E o \in Objects : Free(o)
    \/ \E c \in SendConfigs : SetSim(c)
    \/ SenderHears
    \/ HostCloses
    \/ Connect
    \/ Break
    \/ \E s \in Sources : Arrive(s)
    \/ \E i \in loose : ArriveLoose(i)
    \/ MeshSends
    \/ WrapperPoll
    \/ InnerReads
    \/ ReceiverHears
    \/ MeshLeaves
    \/ \E c \in RecvConfigs : SetRecvSim(c)

Spec == Init /\ [][Next]_vars

\* Polls go on, and release in the end what is due in the end.
Fairness ==
    /\ WF_vars(SendPoll)
    /\ WF_vars(\E s \in Sources : Arrive(s))
    /\ WF_vars(WrapperPoll /\ ready' # ready)
    /\ WF_vars(InnerReads)

FairSpec == Spec /\ Fairness

-----------------------------------------------------------------------------
(***************************************************************************)
(* The promise of the chain, whatever is configured and changed on either  *)
(* leg, and whenever a connection breaks, is replaced or is heard to be    *)
(* gone: reliable calls of one link are read in the order they were made,  *)
(* once, and a call is read in a later session only if nothing forgot it.  *)
(* A call to a peer known to be gone comes to no later one, nor does a     *)
(* host's call to any client but the one it was for.  A client that        *)
(* replaces its peer hears of no end: what it holds for 1, and what it     *)
(* calls with no session, may come to the next host.  A broadcast held     *)
(* without a cap is no peer's: nothing forgets it.  And a call sent at     *)
(* once passes those that are held, since _sim_send does not look at what  *)
(* its link holds; `over` names them.                                      *)
(***************************************************************************)
Order == INSTANCE CallOrder WITH gone <- Objects \ alive

CallsKeepOrder == Order!Spec

(***************************************************************************)
(* set_recv_sim_config holds for the session's end and beyond it: the      *)
(* wrapper a client receives through is set up as the game said last.      *)
(***************************************************************************)
RecvSimHolds == ~parted_r => peer_sim = recv_sim

(***************************************************************************)
(* A reliable call held at either end comes: it is read, unless its object *)
(* is freed or its session ends.  A behavior has MaxSends calls at most,   *)
(* so that all are settled again and again says this of each.              *)
(***************************************************************************)
Settled(i) ==
    \/ i \in Range(got)
    \/ ~conn
    \/ i \in DOMAIN sent /\ (sent[i].at # sess \/ i <= left[sent[i].link])
    \/ i \in DOMAIN sent /\ sent[i].link # "mesh" /\ sent[i].obj \notin alive

ReliableComes ==
    []<>(\A i \in DOMAIN sent : sent[i].rel => Settled(i))
=============================================================================
