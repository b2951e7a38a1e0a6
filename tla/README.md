# goldnet-godot in TLA+

Specifications of the parts of goldnet-godot whose correctness depends on the
order things happen in, the TLC runs that check them on small instances and the
TLAPS proofs that hold for every instance. Paths below are relative to `src/`.

    tlc  -workers 2 -config messages_down.cfg MC_NetchanMessages.tla
    tlapm NetchanMessagesProofs.tla

## 1. Inventory

`GoldNetMultiplayer` (`src/goldnet_multiplayer.cpp`) replaces Godot's
`SceneMultiplayer`, which it keeps as its *inner*. It replicates the state of
MultiplayerSynchronizers in snapshots, builds spawned nodes on the clients, and
carries RPCs on a *netchan* inside those snapshots; what it does not take goes
through the inner. The wire protocol is the `goldnet` core (`extern/goldnet`, a
submodule without sources here), which calls back into the adapter. Everything
runs on the main thread: the concurrency is between processes, between the
signals and polls of one, and between a handler and what the handlers it calls
do before it goes on.

| part | state | operations | what makes it hard | correct when |
|---|---|---|---|---|
| messages | `msg_ids`, `msg_next_id`, `msg_registered`, `msg_targets`, the core's two counters | `_send_message`, `_deliver_message`, `_check_overflow`, the session relays | unreliable calls overtake the stream that introduces their target; overflow in mid-call; swaps of the peer say nothing | a bare id always means what its sender meant, and is used as soon as it may be |
| net ids | `NetIds::{by_id, by_obj, next}` | assign, bind, release, drop, forget_learned | one map serves a process as client and as host, over many sessions | ids and nodes one to one; none of another server's survives |
| replication | `owned`, `entities_to_add`, `pending_spawns`, `server_spawned`, `bind_ids`; the client's `client_spawned` and map | tree hooks, `_drain_pending_spawns`, `_detect_despawns`, `_add_entities`, `_apply_bind/spawn/despawn` | both trees change while records travel; records refused, lost, repeated; a record is made once | both ends give a node the same id; spawned nodes come, freed ones go |
| RPC routing | `command_sender` | `_netchan_rpc`, `_rpc`, call_local, `_charge_rpc` | nested calls, sends inside a handler | each recipient once, the local copy once, the right sender seen |
| commands | `command_targets`, `command_scan_ms`, signatures | `_command_target`, `_scan_command_targets`, `command_from_args`, `_deliver_command`; `command_stream.gd` | lazily scanned, throttled cache; two builds that differ | a marked method is found and called with what was given |
| push replication | `dirty_route` | `mark_dirty` | a memo of the tree | a marked node's state is read |
| entity state | the core's baselines; `slot_plan`, `client_slot_codings` | `ServerHost::read`, `encode`; `ClientHost::entity`, `slot` | baselines that differ by rounding, lost snapshots, scenes that differ | the client holds what the host read, each slot at its property |
| send clock | `last_send_us`, `cached_min_interval_us` | `_poll`, rate setters | uneven polls, stalls | the nominal rate, no bursts |
| slot codings | none | `put_slot`, `get_slot`, `slot_kind_*` | rounding, wrapping | the reader gets the writer's quantised value |
| send simulation | `sim` links, deferred sends | `_sim_send`, `goldnet_link.*` | a deferred send fires in a later state | no overtaking, nothing into another session |
| receive simulation | `ready`, `sim` of `GoldNetSimPeer` | `_poll`, `_get_packet`, `_close` | held packets against switching it off and disconnects | reliable order kept |
| session lifecycle | what each part above keeps of a session | `_relay_*`, `_set_multiplayer_peer`, `_reset_client_state`, `_forget_peer`, `_end_server_session` | seven ways a session ends or is replaced, each clearing something else | nothing leaks from one session into another |
| server clock | `_offset_ms`, `_samples` (`server_clock.gd`) | sample, advance, now, reset | window, slew, snap | converges, never jumps below the snap threshold |
| interpolation buffer | entries by time (`interpolation_buffer.gd`) | push, sample | late and repeated entries, trimming | ordered; samples between its neighbours |
| sync spec | none (`sync_spec.gd`) | builds replication configs | - | - |
| stats, configuration | counters, environment variables | setters, printing | - | - |

The tree hooks and the relays are called by Godot, `_poll` by the SceneTree every
frame; they meet in the maps. The adapter and the core meet in `server.*`
(`add_entity`, `spawn`, `despawn`, `queue_reliable`, `take_payload`), `client.*`
and the host callbacks `ServerHost`/`ClientHost`.

`PROJECT.json` lists the hazards at their lines, with the property that covers
each or the reason none does yet.

## 2. Modules

| module | about | run by | proved in |
|---|---|---|---|
| `NetchanMessages` | two processes, RPCs on the netchan | `MC_NetchanMessages` | `NetchanMessagesProofs` |
| `NetIds` | the id map as operators (`goldnet_net_ids.h`) | the two below | `NetIdsProofs` |
| `NetIdSessions` | one process's id map through its roles | `MC_NetIdSessions` | `NetIdSessionsProofs` |
| `Replication` | a server and a client: tree, registry, records | `MC_Replication` | `ReplicationProofs` |
| `SharedNodes` | the abstract promise of replication | `Replication` implements it | `ReplicationProofs` |
| `CallOrder` | the abstract promise of a chain of simulated links | `SimLink` implements it | `SimLinkProofs` |
| `SimLink` | calls through the send simulation, the transport, the receive simulation | `MC_SimLink` | `SimLinkProofs` |
| `RpcDispatch` | which way a call goes, which node it is called on, whom it sees | `MC_RpcDispatch` | `RpcDispatchProofs` |
| `CallArguments` | arguments in messages and commands | `MC_RpcDispatch` | `RpcDispatchProofs` |
| `RpcArguments` | the two together | `MC_RpcDispatch` | `RpcDispatchProofs` |
| `SlotCodings` | the kinds of slots and their codings | `StateStream`, `CallArguments` | `StateStreamProofs` |
| `SendClock` | when `_poll` runs a tick | `StateStream` | `StateStreamProofs` |
| `StateStream` | one synchronizer's state from host to client | `MC_StateStream` | `StateStreamProofs` |
| `ServerClock`, `InterpolationBuffer` | the client helpers of those names | `MC_StateStream` | `StateStreamProofs` |
| `ClientHelpers` | what they promise once snapshots come | `MC_StateStream` | `StateStreamProofs` |
| `OrderFacts` | least elements, and queues that keep an order | - | used by `SimLinkProofs`, `StateStreamProofs` |

### NetchanMessages

Both ends run the same code, so every variable is a function of the end.
`SendReliable`, `SendUnreliable` and `SendOversized` are the three ways through
`_send_message` (reliable; unreliable and it fits the datagram; too long, through
the inner), each with the `_check_overflow` that follows. `LearnTarget` is
`_deliver_message` up to the lookup of the target. The relays are
`ServerConnected`, `ClientConnected`, `ServerHearsLoss`, `ClientHearsLoss`,
`ServerCloses` and the two `...SwapsPeer`; `Restart` puts a fresh process at an
end. A path and method is one key; a call's length is one of three sizes, as
its bare form and its named form do or do not fit.

External: the stream is delivered in order, a datagram at any time or never, an
acknowledgement moves `messages_delivered` up to what the other end has received,
`messages_queued` counts what was put on the stream (and is read as 0 for a peer
the core does not hold), and more than `StreamLimit` unacknowledged messages
overflow. Each connection gives the client a peer id not used before, as ENet
draws them; the server's per-peer maps are those of the current one.

### NetIds and NetIdSessions

`NetIds` has each operation of the map, and in closed form the loops over it
that one call of the adapter makes (`AssignEach` over a numbering, `BindEach`,
`DropEach`). `NetIdSessions` runs them as the adapter does over a process's life:
`Register`/`Unregister` are the tree hooks, `HostTick` is `_detect_despawns` and
`_add_entities`, `LearnId`/`UnlearnId` are `_apply_bind` and `_apply_despawn`, the
rest the relays and `_set_multiplayer_peer`. `SwapsPeer` says whether a game may
set a peer in place of a connected one, `HostJoins` whether a process that has
hosted may join a server later; the code allows both, and the two violation runs
show what each does.

### Replication

The server's `PlacedEnters/PlacedExits/Spawn/Free/FreeSync/Reparent` are the tree
hooks and `_spawn_trampoline` as a game can provoke them. `Poll` is `_poll` when no
send is due (`_drain_pending_spawns`, then `_detect_despawns`), `Tick` adds
`_add_entities` and the core's send. `Apply` is a snapshot on the client: bind and
spawn records, then despawns, the snapshot acknowledged only when no record was
refused. A synchronizer is named by the one thing that stands for its path, so a
node that leaves and returns is the same object at a new id, as the code sees it
through the path. The order in which one snapshot's records reach the client is
not known here, so a spawn whose spawner is bound by the same snapshot may or
may not be taken.

External: the core sends every record and despawn not acknowledged in each
snapshot, drops snapshots older than the last, takes a record once, and owes a
peer a despawn whether or not it has acknowledged the spawn. Transport loses
anything; at most the latest snapshot and acknowledgement are in flight.

Two history variables are not the code's: `moved` (nodes the game reparented)
and `unloaded` (the client unloaded a bound node this session). They delimit
properties the code keeps only otherwise, and are said in the properties.

`SharedNodes` says what is promised of all that, as pairs of an id and its node: a
pair is offered under an id never given before, for a node that is there, and
withdrawn only when the node is gone; what the client has came from the server,
it loses only what is not offered any more (or what it unloads itself), and a
session begins with nothing of another's. `Replication` is shown to implement
it (`ClientShares`, `INSTANCE SharedNodes WITH ...`): the records, the snapshot on its
way and the client's map are read as pairs.

### CallOrder and SimLink

`SimLink` is one chain of sender and receiver. `role` says whether the host sends
to a client, which receives through a `GoldNetSimPeer`, or the client to a host,
which has none. The sending end's links are "one" (the peer it talks to) and "all"
(0, a broadcast); "mesh" is another peer that reaches the same client. `Rpc`,
`SendSnapshot` and `SendUplink` are the three callers of `_sim_send`, `SendPoll` the
pump in `_poll`, `ForgetLink` the `sim.forget_link` of the relays, `WrapperPoll`,
`InnerReads`, `PeerGone` the wrapper's `_poll`, `_get_packet` and
`_on_peer_disconnected`. Both configurations change at any time, also while calls
are held; losses, delays and a cap are each a choice the configuration allows.

`CallOrder` says what is promised of all that: a call is read at most once, a
reliable one after every earlier reliable one of its link and session that still
lives, and none once its link has been left (`left` counts the calls each link is too
late for). A call names those it passes (`over`: one sent at once passes what its link
holds). `SimLink` is shown to implement it (`CallsKeepOrder`, `INSTANCE CallOrder WITH
...`), and says when a link is left: `Connect` may come at any time, as
`_set_multiplayer_peer` may, also in place of a connection whose end nobody heard
of. A host's link to a client is left by every new connection, which is another
peer's; a client's, which is always 1, only by a disconnect it hears (`heard`, set where
`forget_link(1)` is called); a broadcast's never. So what a client holds when its peer
is replaced comes to the next host in the model as in the code, and what it held at
a disconnect must not.

External: the core's NetSim releases what a link holds in the order it took it;
the transport loses unreliable packets, never a reliable one while the connection
lasts.

### RpcDispatch, CallArguments and RpcArguments

One process. `stack` is what runs on its one thread: the inner calls the link
("link"), which delivers messages and commands, and any called method may make a
call_local call ("local"); each frame keeps the `command_sender` to put back. While
it runs, the game moves, frees and marks nodes, so that the node in `msg_targets`
and the scanned `command_targets` are of an older tree. `DeliverMessage` and
`DeliverCommand` are the whole handlers, from the lookup to the call; the checks of
mode and authority are the choice `permitted`. `RpcRoute` is `_rpc` and `_netchan_rpc`
as one function of the target, the method and whether the call fits, compared with
what the inner does with the same call. History: `home`, `moved`, `newer`.

`CallArguments` has `put_arg`/`get_arg` and a command's way from the caller's
arguments over the signature to the method's, over any two declarations of it.
`RpcArguments` says its properties of the states in which a message or a command
runs.

External: the inner's answer to get_remote_sender_id and the recipients of its rpc.

### SlotCodings, SendClock and StateStream

`SlotCodings` has the choice of a slot's kind from type, hints and metas, each
kind's coding against a baseline and its inverse, and the check both ends compare,
over integers: an int is one of `IntRange` and wraps, a float is a multiple of a unit
that an f32 keeps to `Single` and a half to `Half`, a turn has `Turn` units, of which
an angle goes in `Steps16` or `Steps8` steps. `AngleQuanta` cuts an angle short and
`AngleOf` narrows a step to an f32, which may be short of it: cut again, as a base is,
it is one step less. A frame's `chain` (history) counts the baselines it takes back to
a whole one, each of which may lose a step so.

`SendClock` is the part of `_poll` that decides whether to tick, with everything that
changes the cadence. The synchronizers' intervals are variables: the game sets one
(`SetReplicationInterval`), also of a registered synchronizer, and the cached interval
stays until something refreshes it. `StateStream` runs it with the state of one synchronizer:
`Tick` is `_add_entities`, `ServerHost::read` and the core's send, `Encoded` is
`ServerHost::encode`, `Receive` is `ClientHost::entity` and `slot` over what the core hands
them, `MarkNode` and `MarkSync` are `mark_dirty`. `game` is chosen at the start: what the
two scenes declare, the values written and what else the game does (marks,
predicts, frees the node, sets rates, enters late).

External: the core stamps what a tick reads and codes, against the newest
snapshot acknowledged, every slot stamped since, also one that is back at its
baseline's value; it hands each end the values it holds of the baseline, passes
over updates against a baseline it has no values of, and takes a snapshot whose
entity was refused for its coding as taken (`ENTITY_SKIP`).

`ServerClock` and `InterpolationBuffer` are the GDScript helpers as functions, run
over every history of a few frames or snapshots with any delays and orders, and
compared with what the history says of itself: the observations not overtaken, the
snapshots newer than all before; of the buffer also what a push does to what was
shown before it (`Steady`). `Observe` is one frame's `sample` and `advance`, `Push`
one snapshot's `push`, and a recursive function of the history strings them together.
`ClientHelpers` states the two promises beside `StateStream`'s.

## 3. Runs

| run | shows | bounds |
|---|---|---|
| `messages_down` | the server calls: `TypeOK`, the inductive `RegistrationInv`, `CallsResolve`, `RegisteredOnce` | 2 keys, `StreamLimit` 3, 6 reliable messages a session, 2 datagrams |
| `messages_up` | the client calls: `LearnsTarget` under fairness | the same, 4 messages |
| `messages_forget` | **violation** of `PeerStateGoesWithIt` | the same |
| `ids_roles` | `TypeOK`, `IdsOneToOne`, `HostsOwnStay`, `LearnedOnlyInSession` | 3 synchronizers, ids to 6 |
| `ids_swap` | **violation** of `IdsOneToOne` when a client becomes a host without closing | 3 synchronizers, ids to 4 |
| `ids_host_joins` | **violation** of `HostsOwnStay` when a host joins and hosts again | the same |
| `repl` | `TypeOK`, `SameNode`, `OneToOne`, `EntitiesNamed`, `AckedIsPlaced`, `BuiltAreSpawned`, the refinement `ClientShares` | one placed synchronizer, one spawned node, ids to 5 |
| `repl_live` | `FreedGoes`, `SpawnedComes`, `PlacedComes` under fairness | the same, ids to 3 |
| `repl_reparent` | **violation** of `EveryEntityNamed` | as `repl` |
| `sim_link` | `TypeOK`, `RecvSimHolds`, the refinement `CallsKeepOrder`, `ReliableComes` under fairness | 1 object, 2 calls, 2 connections, the second at any time; sends plain, with losses and delay or capped, receives plain or with both |
| `rpc_dispatch` | `TypeOK`, `MessagesReach`, `CommandsReach`, `SenderAnswered`, `RouteAsInner`; `ArgumentsExact`, `CommandsCarry` | 2 nodes, 2 paths, 3 calls deep; 11 arguments, 14 declarations of at most 3 fields, limit 2 |
| `state_stream` | `TypeOK`, `HeldIsClose`, `ShownInPlace`, `OtherCodingIgnored`, `MarkedIsRead`, `TurnsAreShort`, `Paced`; `EstimateFollows`, `ShownFromNewest` | 22 games of at most 3 snapshots; intervals 2, 3, 4 (`Longest`), set at any time, polls up to 7 apart; a turn of 64 in 16 or 8 steps, `Single` 3; histories of 5 frames and of 4 snapshots |

Why the bounds are enough. Messages: the second key is what a wrong id would be mistaken
for; the overflow needs three unacknowledged messages and happens in the middle of a
two-message call; six messages let a registration be followed by another and by calls of
both; two datagrams let one overtake the other. The two directions differ in where maps
are cleared: the safety run has the server call and the proofs have any end call, the
liveness run has the client call; since the maps of the two directions share no state
but the session, running both at once adds only the product. Ids: three synchronizers,
so that a learned id, an own id and a replaced one are about at once. Replication: five
ids let the placed synchronizer be loaded twice beside a spawn (spawner, node,
synchronizer), or the spawned node be moved; with three, the liveness run sees the spawn
alone, or the placed synchronizer come and go three times, and not the two together.
Only the server's id counter, `MaxStream` and `MaxAir` limit behaviour; all are in
guards.

Simulated links: order is about two calls, and two sessions are what a held call
could cross; a third call adds nothing that two of the same link, of two links or
of two peers do not show, and calls made before the first connection, in one and
in the next are all among them. Dispatch: a remembered node and the one now at its path,
the path it is remembered for and the one it was moved to; three frames are the
link, a message in it and the local copy it calls, and the proofs have any depth.
State: three snapshots are a baseline, one lost or taken against it and one
against the next baseline; of the 8 ints a step may wrap, angles cross 0, an f32 keeps
some steps of a turn and is short of others, so that an angle loses up to two, and
each kind of slot has a game of its own, so that games do not multiply. Polls go
to 7 apart, past three intervals. Histories: five frames fill and leave the
window of three; four snapshots fill the buffer of three.

`ArgumentsExact`, `CommandsCarry` and the two of the helpers are about
functions and not about a run's states: they are said of the states where the
function is used (a message or a command runs; a snapshot was taken) and range
over all inputs of the bounds.

Deadlock is checked in every run. `rpc_dispatch`, `messages_down`, `messages_forget` and
the `ids_*` runs treat nodes, paths, keys and synchronizers as symmetric; runs with a
liveness property use no symmetry.

### Fairness

`messages_up`: the core keeps resending and acknowledging while the connection
lasts (weak fairness of `DeliverReliable` and `Ack`), and the inner reports a
change of the connection at one of the following polls (weak fairness of the
relays). Nothing makes a game call or a connection break, and lost datagrams
have no fairness at all.

`repl_live`: `_poll` runs every frame, so `Poll` and `Tick` are weakly fair. `Apply`
and `AckArrives` are strongly fair: they are enabled only while a snapshot or an
acknowledgement is in flight and the link may lose any of them, so what is
assumed is that a link over which infinitely many go does not lose them all.
The game's own actions, and sessions, have none; each property lets the
session's end discharge it.

`sim_link`: both ends poll every frame, so what is due is released in the end
(`SendPoll`, and `WrapperPoll` when it releases something, are weakly fair), the
transport brings a reliable packet while the connection lasts (`Arrive`) and the
inner reads what is there (`InnerReads`). `ReliableComes` excuses a call whose object
the game frees, whose connection breaks or whose session ends.

## 4. Proofs

All are checked by `tlapm` from the assumptions the modules name, for any
constants those allow. Each inductive invariant was first an invariant of the
component's run, where TLC found it kept; the last two components' (`ClockHas`, `BufferHas`)
speak of histories and of no state, and there TLC checks what they carry.

**NetchanMessages.** `TypeCorrect`, `Registrations`, `CallsAlwaysResolve` and
`TargetsRegisteredOnce`: for any keys, calling ends, stream limit and bounds.
`CallsResolve` is not inductive: that a datagram's bare id resolves depends on an
acknowledgement seen before it was sent, of a message delivered before that, in
a stream whose index the sender noted before queueing it. `RegistrationInv` is
the conjunction that carries it. `IdsInv` (ids name one key), `LinkInv` (what the
connection says of core and air), `NamesInv` (every message names its key's id),
`StreamInv` (`msg_registered` holds exactly the index of the id's one
registration, bare calls come after it, and datagrams with a bare id are covered
by the acknowledgement) and `TargetsInv` (the receiver knows every registration
up to `delivered`, by the sender's names). Each action has a lemma.

**NetIds.** Facts about what `DropEach`, `PutId`, `Bind`, `BindEach`, `Release` and
`AssignEach` do to the types, the domains and the inverse, cited by the next two.

**NetIdSessions.** `SessionTypes`, `IdsStayOneToOne` and `LearnedGoWithSession` assume
a process that closes a session before it starts the next (`SwapsPeer = FALSE`);
`HostsOwnNamed` also that it joins no server once it has hosted. The inductive
`MapInv` adds to the types and the inverse that own ids lie below `next`
(`OwnBelowNext`: else assigning would meet one) and that only a client holds
learned ids (`LearnedByClient`: else a host's counter would). `OwnNamed` adds that
every synchronizer handed to the core has an id with a bind record; a role
other than host only before the first hosting makes the client's binds harmless
to it. The runs `ids_swap` and `ids_host_joins` show that neither assumption can go.

**Replication.** All six invariants of `repl`, for any placed synchronizers, spawned
nodes, number of ids, streams and snapshots, losses and sessions: `TypesHold`,
`MapsStayOneToOne`, `IdsNameTheSameNode`, `SentIdsAreNamed`, `AcknowledgedIsPlaced` and
`BuiltNodesAreSpawned`. None is inductive but together, in `IInv`:

- `NamesInv`. `Claims` is everything that says an id of a node: both maps, the
  server's records, those of the snapshot on its way, with the synchronizer a
  spawn record brings. An id once handed out names one node, whoever says so
  (`OneName`); a spawned node has one id for good (`OneId`; its synchronizer may
  get another, which is what `repl_reparent` shows); nothing names a node before
  it is drained (`Undrained`); and all ids about lie below the counter
  (`HandedOut`), so that a new one meets none of them. `SameNode` is `OneName` for
  the two maps.
- `ServerInv`. Records are of nodes in the map, one of each (`RecordsInv`); a
  synchronizer has an id only in the tree (`TreeInv`); what the core was handed
  has a bind record or is named by its node's spawn record, unless the node was
  moved (`EntitiesInv`). This is `EntitiesNamed`, with what it needs.
- `ClientInv`. A record on its way is the server's or dead (`SnapshotInv`), a
  despawn on its way is of no live record (`DespawnsInv`), and what the client
  took of the live ones is where it belongs, with no older record of its node
  still to come that would move it (`TakenInv`). `AckedIsPlaced` is `TakenInv` for what
  was acknowledged, and needs that the client unloads no bound node.

`ClientHasWhatServerOffers` is the refinement. Tree hooks are `Move`, polls `Offer`,
`Apply` `Take`, an unload `Unload`, relays and swaps `NextSession`. Most of it is
`IInv`; two more invariants carry the rest (`SharedInv`). `HeldAgrees`: where the client
holds what the server offers, nothing on its way names that node by another id, so that
a record taken puts nothing out that is still offered. `AllLearned`: the client never
hands out an id, so its map has only what it was told, and a reset leaves nothing.
`ApplyTakes` follows the records of one snapshot in their order, then the despawns.

**RpcDispatch.** `SenderAlwaysAnswered`, for any peers and depth: `Nesting` is what makes
it inductive. A message or command is the second thing that runs, under the
link; the frames above it put the remote peer back and the ones below it 0, so
that `command_sender` is the peer exactly while one runs; and an override of the inner's
sender is only set while a local copy is on the stack, so that the link is read
with none. `MessagesAlwaysReach` and `CommandsAlwaysReach`, for any nodes and paths: `Homes`
(a node is where it was last put, and was remembered for that path unless it was
moved since) and `Scanned` (a recent scan found every node that is not newer).
`TypesHold` follows from both. `CallsRouteAsInner` is a fact about `RpcRoute` and no
state: by the cases of the route, a call goes to the inner with its own target
(`ByInner`), or to each peer of a set apart and the rest by message (`ByPeers`), and
either way each recipient gets it once (`EveryCallRouted`). `ArgumentsAlwaysExact` and
`CommandsAlwaysCarry` are facts about `CallArguments`, for any arguments and
declarations: `ArgumentKept` by the types of a Variant, `FieldKept` by the forms of a
field, and `CommandComes` one field at a time, a table's by its name, which no other
field of it has.

**SimLink.** `ChainKeepsOrder`: every behaviour of the chain is one of `CallOrder`, for any
objects, configurations and number of calls and sessions. The places a call may
stand at are read by the inner in the order got, ready, late, arrived, stream,
held; `ChainInv` says that every call at one of them may come before every call at
a later one, `SortedInv` that the queue at each is in order, where `InOrder` is what
`CallOrder` asks for: of reliable calls of one link the earlier first, but for those
it passed (`over`). As this is no total order, `OrderFacts` has what putting, taking,
joining and splitting do to queues under any relation. `PlacesInv` says that the calls at a place
are of its link, and none among those the link was left at; `LeftInv` carries that over
a client's new connection, which empties nothing that is held: what it holds is no
older than the last end it `heard` of, which is what the link is left at.
Order alone would hold of a chain that loses calls: `ComingInv` says that
the reliable calls of a link and session that are due have been read or stand on
the chain while the connection lasts, and after it, that what is still to be
read waits for none that went with it. `RecvSimAlwaysHolds`: every step that changes
one side of the equation changes the other. `Sift` is a recursive function, and
that it exists and what it returns is proved by a least length that fails.

**SendClock.** `TicksArePaced`, for any intervals and gaps. `TimerInv` is about the
deadline: while polls come no further apart than the interval, it stays less
than one interval behind the clock, and each tick it goes by moves it by exactly
one. So a tick *n* before the last was *n* intervals before it, give or take how
late the two polls were, which is less than one (`OnTime`, for the last three). It is
about the interval in use, `cached`, which a change of a registered synchronizer's
does not touch.

**SlotCodings and StateStream.** `MarkedIsAlwaysRead` is inductive with the types, and
`OtherCodingAlwaysIgnored` with `NothingTaken`: a client coded otherwise has taken nothing,
so no snapshot against one it took is of use to it either.

`HeldIsAlwaysClose` and `ShownAlwaysInPlace`, for any widths, grids, games and chain of
baselines. *Close to what was read* is not inductive: close to a baseline that is itself
only close, errors would add up. What carries it is that the client has *exactly one
rounding* of what was read of every snapshot it took (`HeldInv`), in the slots that were
not coded too, as these have not changed since a baseline it has. That rests on
`SlotRoundTrip`, by the kinds of slots: rounding twice is rounding once
(`NearestAgain`), so both ends step from the same quanta although one has the value and
the other its rounding; and a wrapped step added with the same width gives the value
(`WrappedAgain`). `RoundedClose` bounds the one rounding. An angle that goes in steps is
the exception: its rounding may be cut to one step less, so the client has the rounding
of some number of steps behind, at most the frame's `chain` (`Has`, `ChainInv`), and
`Loss` grows with it. `ShownInv` says the same of what is shown of the last snapshot,
and `ReadInv` that what was read is of the slot's own property, which both scenes list
at one place. `TurnsAlwaysShort` is `StepShort`: `angle_step` is no longer than any way
round.

**ServerClock and InterpolationBuffer.** `EstimateAlwaysFollows` and `ShownAlwaysFromNewest`, for
any delays, window, gain, slew and snap threshold, any sizes and thresholds of the
buffer, and histories of any length. That the recursive functions exist is proved, as
for `Sift`, by a least length that fails; then the clock and the buffer after
each frame and snapshot are steps, and an invariant of them speaks of the part of
the history gone by. `ClockHas`, of the clock: every sample kept is of an observation
that overtook all before it, the last one's is among them whatever the window, and
the estimate lies between the delays of two such observations. The last carries
over since the target is one of the samples and a correction, by the gain or the
slew, is never larger than the difference and never the other way
(`GoesFollows`): the estimate does not pass the target.
`BufferHas`, of the buffer: its entries are, by a list of their places in the
history (`Lists`), the snapshots that were newer than all before, one after the other
with none left out, no two neighbours further apart than a teleport, and it
begins at the last teleport or is full (`Starts`). `LaterCount` counts what came after
an entry of such a list, so that these are the `MaxSize` last. From neighbours that are
no teleport apart, `RunsSmooth` follows: a render time that goes on by one
is in the same gap or the next, and rounding a part of a gap neither leaves it nor goes
further than it is long (`PartOfWay`, `BetweenFacts`). `PushSteady` is about two
buffers, before and after a snapshot: unless it is late or a teleport the new one is
the old one with it behind and perhaps without the first (`PutIs`), so at a time up to
the old last one the same snapshot is found (`ShownOn`). Past that nothing is promised,
and the code promises nothing: what was extrapolated jumps to what comes.

### What is assumed

`WidthsAssumption`: the widths are positive, the number of ints is even, a turn divides
into each kind's steps, and an f32 is no coarser than a step; that it keeps each step is
not assumed, as it does not of a turn of 2 pi. `GamesAssumption`: a game's values fit an
int's width and are of the types named; a grid is a number; a scene lists a property
once, and both scenes list what they share at the same places ("Both ends build it from
the same scene", `goldnet_multiplayer.cpp:1534`): the code compares kinds, not names, so
of scenes that list two properties of one kind in another order each would get the
other's value. `IntervalAssumption`: what intervals and rates are set to lies between 0,
not set, and `Longest`, the default between 1 and that; it bounds the code's floats and
nothing else. `ArgumentsAssumption`: an argument is a Variant, a bool is 0 or 1 and a
Vector3 is of single floats, as Godot has them. `ClockAssumption`: the window and
thresholds are not negative, a gain closes a whole part of the difference, and no
observation is of a server time before 0, which an unsigned tick count never is.
`BufferAssumption`: the buffer holds at least one entry, distances and times are not
negative. `DeclarationsAssumption`: a declaration is a sequence of fields, no two with
one name. Of the simulated link, that no simulation is among what either end may be set
to.

### What is only model-checked

Of the properties the runs check, only liveness. Every invariant, action property
and refinement of a passing run is a theorem.

- `LearnsTarget`, `FreedGoes`, `SpawnedComes`, `PlacedComes`, `ReliableComes`: liveness under
  fairness, and ENABLED, are outside what the prover treats.

## 5. Disagreements found

- `messages_forget`. `_end_server_session` forgets `server.peers()`; a peer
  `_check_overflow` has already removed from the core is not among them, so a host
  that swaps its peer before the transport reports the disconnect keeps that
  peer's maps ("Everything kept for one peer goes with it",
  `goldnet_multiplayer.cpp:592`).
- `ids_swap`. `_set_multiplayer_peer` resets nothing of a client's: a client that
  sets a server peer directly hands out ids that still name nodes ("counting from
  1 and never twice in a session", `goldnet_net_ids.h:3`).
- `ids_host_joins`. "A host's own, its server's, stay" (`goldnet_net_ids.h:56`) does
  not survive the host joining a server in between: binds replace its ids, and
  forget_learned then drops those.
- `repl_reparent`. A drained spawned node's synchronizer that leaves and re-enters
  the tree gets a new id, and no bind record since "its spawn record names it"
  (`goldnet_multiplayer.cpp:1724`); the spawn record names the old one.

Found while modelling, and not runs; the models follow the code:

- The header's comment on `msg_registered` (`goldnet_multiplayer.h:237`) says an
  unreliable call to an unacknowledged target goes reliable; the code sends it in
  the datagram with the registration in front.
- A broadcast with call_local that goes by the inner under a simulated link cap
  loses its local copy: `_sim_send` (`goldnet_multiplayer.cpp:1283`) calls the inner
  for each peer apart. `RouteAsInner` says so.
- A call_local copy made in a method called off a message sees the outer sender:
  `_get_remote_sender_id` (`goldnet_multiplayer.cpp:2669`) prefers `command_sender` to the
  override the inner sets. `SenderAnswered` says nothing of such a copy.
- A call sent at once passes those its link still holds past their time, since
  `_sim_send` asks NetSim for a delay and not for what it holds: the field `over`
  of `SimLink` is exactly those.
- A held broadcast, and what a client holds when its peer is replaced without a
  disconnect, outlast the session and go to the next: `forget_link` is called for
  peers, not for 0, and by `_set_multiplayer_peer` (`goldnet_multiplayer.cpp:2526`) not at
  all. `SimLink.Connect` follows the code, and `CallsKeepOrder` promises of these calls
  their order and that they come once.
- An angle that goes in steps may drift by a step for each baseline it is coded
  against: both ends cut the base to a step again (`goldnet_multiplayer.cpp:345` and `:380`),
  the reader one that was narrowed to an f32. The encoder cuts short ("one step",
  `tests/integration/cases/case_types.gd:32`); whether the core's `angle_quanta` loses the
  step of such a value cannot be seen here, so the model lets it, and `HeldIsClose`
  bounds it.
- A `replication_interval` that is set on a registered synchronizer counts from the next
  registration, removal or change of the rate on; "intervals are set before the sync
  enters the tree" (`goldnet_multiplayer.cpp:2703`).
- `mark_dirty` of a node remembers its first answer, also that there is none
  (`goldnet_multiplayer.cpp:1356`): `MarkedIsRead` holds by the node only while that
  answer is the synchronizer there.
- `goldnet_multiplayer.h:69` calls a net id a hash of the scene path; it is a counter.
- "An entity whose every slot equals the baseline is skipped entirely"
  (`README.md:122`) is the core's to decide and cannot be seen in this repository;
  the model has the core code every slot that changed since the baseline, also
  one that is back at its value there.

## 6. Not modelled

In the modules above: warnings; visibility and authority of synchronizers; several
entities sharing a packet and their priorities, which the core decides; a spawner
that is freed, a refused spawn the core gives up on, several synchronizers under
one node (a record names one), and `_object_configuration_add`'s choice of what to
intercept. A client that unloads a bound node and loads it again in the session:
the id is forgotten on both sides of the adapter, and what the server's core does
then is not in this repository, so `AckedIsPlaced` and `PlacedComes` end there.
`_command_stream`'s answer, kept for good once given (`command_stream.gd` says to mark
a method before its first call). A called method that polls the inner itself. The
relative precision of floats: an f32 keeps multiples of `Single` wherever it is, a
binary16 of `Half`. Collisions of the hashes that name codings and command streams; the
check of a coding is one byte of FNV-1a (`goldnet_multiplayer.cpp:1609`), so two scenes
coded differently agree on it in one case of 256, and `OtherCodingIgnored` ends there.
Of `ClientHost::entity`, the synchronizer that is unknown or freed (`:1791`, `ENTITY_SKIP`) and a
payload that ends early (`:1822`), neither of which sets anything. Of `_add_entities`, the checks
of authority and `is_inside_tree` (`:1701`), since the model's synchronizers are the server's and
leave the tree through the hooks. What a connection that is replaced still carries or has
delivered unread is not followed past `Connect`, nor a client that holds calls and turns
host. Rotations in
the interpolation buffer, and a 32-bit server time that wraps.

Of the system: `sync_spec.gd`, which writes a replication config before anything
runs; stats, debugging and the plumbing of settings; registration and build files;
and the core, whose sources are not in this repository.

## 7. Plan

- Visibility in `Replication`: records withheld from a peer and given later.
- Rotations in `InterpolationBuffer`, the short way round between two angles.
