----------------------------- MODULE Replication -----------------------------
(***************************************************************************)
(* How a client comes to know which of its nodes each of the server's ids  *)
(* names, and builds and frees the nodes the server spawns.                *)
(*                                                                         *)
(* The server's synchronizers register as they enter the tree.  One placed *)
(* in the scene is handed to the core with a bind record, which tells each *)
(* peer the path of the node its id names.  A node spawned through a       *)
(* spawner gets a spawn record, which names the ids of the synchronizers   *)
(* it brings; its spawner has a bind record of its own.                    *)
(*                                                                         *)
(* The goldnet core is external.  Each tick it sends the peer one snapshot *)
(* with every record and despawn the peer has not acknowledged; the client *)
(* takes each record once, asks the host to apply it, and acknowledges the *)
(* snapshot only when none was refused.  Snapshots and acknowledgements    *)
(* are lost, delayed and, when older than the last one, dropped.           *)
(***************************************************************************)
EXTENDS NetIds

CONSTANTS
    Placed,   \* the synchronizers placed in the scene, on both ends
    Nodes,    \* the nodes the server's game may spawn
    MaxId     \* bound: ids the server hands out

ASSUME MaxIdAssumption  == MaxId \in Nat
ASSUME SetsAssumption   == IsFiniteSet(Placed) /\ IsFiniteSet(Nodes)

\* A node, by what stands for its path.  A spawned node has one synchronizer.
Spawner == <<"spawner", "spawner">>
NodeOf(n) == <<"node", n>>
SyncOf(n) == <<"sync", n>>
PlacedSyncs == {<<"placed", p>> : p \in Placed}
Syncs   == PlacedSyncs \cup {SyncOf(n) : n \in Nodes}
Objects == {Spawner} \cup Syncs \cup {NodeOf(n) : n \in Nodes}

ASSUME NoObjectAssumption == NoObject \notin Objects

VARIABLES
    born,            \* spawned nodes the server's game has made
    freed,           \* and those of them it has freed
    owned,           \* server: synchronizers in its tree
    entities_to_add, \* server: those the core has not been handed yet
    pending_spawns,  \* server: spawned nodes without a record yet
    ids,             \* server: the id map
    server_spawned,  \* server: ids of the nodes behind spawn records
    bind_ids,        \* server: ids with a bind record
    entities,        \* core: ids whose state is replicated
    records,         \* core: id -> its record
    peer,            \* the session with the client is up
    spawn_acked,     \* core: records the peer has acknowledged
    owed,            \* core: despawns the peer has not acknowledged
    snapshot,        \* the last snapshot in flight
    ack,             \* what the last acknowledgement in flight acknowledges
    c_owned,         \* client: synchronizers in its tree
    c_ids,           \* client: the id map
    client_spawned,  \* client: ids of nodes it built
    taken,           \* client core: records it has taken
    moved,           \* history: spawned nodes moved in the server's tree
    unloaded         \* history: the client unloaded a bound node this session

game   == <<born, freed>>
server == <<owned, entities_to_add, pending_spawns, ids, server_spawned, bind_ids>>
core   == <<entities, records, spawn_acked, owed>>
air    == <<snapshot, ack>>
client == <<c_owned, c_ids, client_spawned, taken>>
history == <<moved, unloaded>>
vars   == <<game, server, core, peer, air, client, history>>

NoMap  == [i \in {} |-> i]
Nothing == [records |-> NoMap, despawns |-> {}, sent |-> FALSE]

\* A record: the spawner's id (0 for a bind record), the node, and the id it
\* names for the synchronizer under a spawned node (0 for none).
BindRecord(o) == [spawner |-> 0, node |-> o, sync |-> 0]

-----------------------------------------------------------------------------
Init ==
    /\ born = {} /\ freed = {}
    /\ owned = {} /\ entities_to_add = {} /\ pending_spawns = {}
    /\ ids = NoIds /\ server_spawned = {} /\ bind_ids = {}
    /\ entities = {} /\ records = NoMap /\ spawn_acked = {} /\ owed = {}
    /\ peer = FALSE
    /\ snapshot = Nothing /\ ack = Nothing
    /\ c_owned = {} /\ c_ids = NoIds /\ client_spawned = {} /\ taken = {}
    /\ moved = {} /\ unloaded = FALSE

(***************************************************************************)
(* The core's registry (external).                                         *)
(***************************************************************************)

OwedIfAcked(S) == owed \cup (S \cap spawn_acked)

\* despawn, for each of the ids: the record goes, and the peer is owed it,
\* whether or not it has acknowledged the record.
Owed(S) == IF peer THEN owed \cup S ELSE owed

Despawned(S) ==
    /\ records' = [i \in DOMAIN records \ S |-> records[i]]
    /\ spawn_acked' = spawn_acked \ S
    /\ owed' = Owed(S)

\* remove_entity: its bind record goes with it, if it has one.
RemoveEntity(id) ==
    /\ entities' = entities \ {id}
    /\ Despawned({id} \cap DOMAIN records)

(***************************************************************************)
(* What the server's next poll gives an id to.                             *)
(***************************************************************************)

\* _drain_pending_spawns of the nodes not freed meanwhile: ids for each, for
\* the synchronizers under it and, the first time, for the spawner.
Drained == pending_spawns \ freed

DrainObjects ==
    (IF Drained = {} THEN {} ELSE {Spawner})
        \cup {NodeOf(n) : n \in Drained}
        \cup {SyncOf(n) : n \in {d \in Drained : SyncOf(d) \in owned}}

\* Bound: the game adds nodes only while there are ids left for k of them.
Room(k) ==
    ids.next + Cardinality(Unnumbered(ids, DrainObjects \cup entities_to_add)) + k
        <= MaxId + 1

(***************************************************************************)
(* The server's tree.                                                      *)
(***************************************************************************)

\* _object_configuration_add of a synchronizer we intercept.
Enter(o) ==
    /\ owned' = owned \cup {o}
    /\ entities_to_add' = entities_to_add \cup {o}

ExitStillWaiting(o) ==
    /\ owned' = owned \ {o}
    /\ ids' = Release(ids, o)
    /\ bind_ids' = bind_ids \ {Id(ids, o)}
    /\ RemoveEntity(Id(ids, o))
    /\ UNCHANGED <<entities_to_add, pending_spawns, server_spawned, peer, air, client>>

\* _object_configuration_remove of one.
Exit(o) ==
    /\ owned' = owned \ {o}
    /\ entities_to_add' = entities_to_add \ {o}
    /\ ids' = Release(ids, o)
    /\ bind_ids' = bind_ids \ {Id(ids, o)}
    /\ RemoveEntity(Id(ids, o))
    /\ UNCHANGED <<pending_spawns, server_spawned, peer, air, client>>

PlacedEnters(o) ==
    /\ o \in PlacedSyncs \ owned /\ Room(1)
    /\ Enter(o)
    /\ UNCHANGED <<game, pending_spawns, ids, server_spawned, bind_ids, core,
                   peer, air, client, history>>

PlacedExits(o) == o \in PlacedSyncs \cap owned /\ Exit(o) /\ UNCHANGED <<game, history>>

\* MultiplayerSpawner.spawn: _spawn_trampoline builds the node and stashes it,
\* and its synchronizer registers as spawn adds it to the tree.
Spawn(n) ==
    /\ n \notin born /\ Room(3)
    /\ born' = born \cup {n}
    /\ pending_spawns' = pending_spawns \cup {n}
    /\ Enter(SyncOf(n))
    /\ UNCHANGED <<freed, ids, server_spawned, bind_ids, core, peer, air, client, history>>

\* The game frees it; its synchronizer, if in the tree, unregisters.
Free(n) ==
    /\ n \in born \ freed
    /\ freed' = freed \cup {n} /\ UNCHANGED <<born, history>>
    /\ IF SyncOf(n) \in owned THEN Exit(SyncOf(n))
       ELSE UNCHANGED <<server, core, peer, air, client>>

\* The game frees its synchronizer alone.
FreeSync(n) ==
    /\ n \in born \ freed /\ SyncOf(n) \in owned
    /\ Exit(SyncOf(n))
    /\ UNCHANGED <<game, history>>

\* The game moves the node in its tree: out, and in again.
Reparent(n) ==
    /\ Room(1)
    /\ n \in born \ freed /\ SyncOf(n) \in owned
    /\ Enter(SyncOf(n))
    /\ ids' = Release(ids, SyncOf(n))
    /\ RemoveEntity(Id(ids, SyncOf(n)))
    /\ moved' = moved \cup {n}
    /\ UNCHANGED <<game, pending_spawns, server_spawned, bind_ids, peer, air,
                   client, unloaded>>

(***************************************************************************)
(* The server's poll.                                                      *)
(***************************************************************************)

SpawnRecordOfEntities(m, n) ==
    [spawner |-> Id(m, Spawner), node |-> NodeOf(n),
     sync |-> IF SyncOf(n) \in owned \ entities_to_add THEN Id(m, SyncOf(n)) ELSE 0]

SpawnRecord(m, n) ==
    [spawner |-> Id(m, Spawner), node |-> NodeOf(n),
     sync |-> IF SyncOf(n) \in owned THEN Id(m, SyncOf(n)) ELSE 0]

\* _detect_despawns: the ids of freed nodes.  (The spawner is never freed.)
Gone(spawned) == {i \in spawned : Object(ids, i) \in {NodeOf(n) : n \in freed}}

\* _add_entities, on the ids and the spawned nodes the drain left.
UnderSpawned(m, spawned, o) ==
    \E n \in Nodes : o = SyncOf(n) /\ Id(m, NodeOf(n)) \in spawned

ServerPoll(ticks) ==
    LET adding == IF ticks THEN entities_to_add ELSE {}
        gone   == Gone(server_spawned)
        live   == DOMAIN records \ gone
        spawns == {Id(ids', NodeOf(n)) : n \in Drained}
        placed == {o \in adding : ~UnderSpawned(ids', server_spawned', o)}
        binds  == {Id(ids', o) : o \in placed \cup (DrainObjects \cap {Spawner})}
    IN /\ UNCHANGED <<game, owned, peer, ack, client, history>>
       /\ \E num \in Numberings(ids, DrainObjects \cup adding) :
              ids' = AssignEach(DropEach(ids, gone), num)
       /\ server_spawned' = (server_spawned \ gone) \cup spawns
       /\ bind_ids' = bind_ids \cup binds
       /\ entities' = entities \cup {Id(ids', o) : o \in adding}
       /\ records' = [i \in live \cup binds \cup spawns |->
                         IF i \in live THEN records[i]
                         ELSE IF i \in binds THEN BindRecord(Object(ids', i))
                         ELSE SpawnRecord(ids', Object(ids', i)[2])]
       /\ pending_spawns' = {}
       /\ entities_to_add' = entities_to_add \ adding
       /\ spawn_acked' = spawn_acked \ gone
       /\ owed' = Owed(gone)
       /\ snapshot' =
             IF ticks
             THEN [records |-> [i \in DOMAIN records' \ spawn_acked' |-> records'[i]],
                   despawns |-> owed', sent |-> TRUE]
             ELSE snapshot

\* _poll between sends, or with no peer to send to.
Poll == (pending_spawns # {} \/ Gone(server_spawned) # {}) /\ ServerPoll(FALSE)

\* _poll when the send is due.
Tick == peer /\ ServerPoll(TRUE)

(***************************************************************************)
(* The client.                                                             *)
(***************************************************************************)
ClientEnters(o) ==
    /\ o \in PlacedSyncs \ c_owned
    /\ c_owned' = c_owned \cup {o}
    /\ UNCHANGED <<game, server, core, peer, air, c_ids, client_spawned, taken,
                   history>>

\* _object_configuration_remove there: the core forgets the id, too.
ClientExits(o) ==
    /\ o \in PlacedSyncs \cap c_owned
    /\ c_owned' = c_owned \ {o}
    /\ c_ids' = Release(c_ids, o)
    /\ taken' = taken \ {Id(c_ids, o)}
    /\ unloaded' = (unloaded \/ o \in DOMAIN c_ids.by_obj)
    /\ UNCHANGED <<game, server, core, peer, air, client_spawned, moved>>

(***************************************************************************)
(* A snapshot arrives.  Of its records not taken yet, _apply_bind takes    *)
(* those whose node is here and registered, and _apply_spawn those whose   *)
(* spawner is bound, by an earlier snapshot or by this one.                *)
(***************************************************************************)
BindTakesOwned(r) == r.spawner = 0 /\ r.node \in c_owned

BindTakes(r)     == r.spawner = 0 /\ r.node \in c_owned \cup {Spawner}
SpawnTakes(m, r) == r.spawner # 0 /\ Object(m, r.spawner) = Spawner

\* The ids the records S of recs give, each with its node.
Bindings(recs, S) ==
    [j \in S \cup ({recs[i].sync : i \in S} \ {0}) |->
        IF j \in S THEN recs[j].node
        ELSE SyncOf(recs[CHOOSE i \in S : recs[i].sync = j].node[2])]

BuiltSyncs(m, S) == {SyncOf(n) : n \in {k \in Nodes :
                                    \E i \in S : Object(m, i) = NodeOf(k)}}

\* Then its despawns: _apply_despawn frees the nodes it built, and unbinds the
\* others; a freed node's synchronizer unregisters.
Despawn(m, S) ==
    DropEach(m, S \cup {Id(m, o) : o \in BuiltSyncs(m, S \cap client_spawned)})

Apply ==
    LET recs  == snapshot.records
        dead  == snapshot.despawns
        new   == DOMAIN recs \ taken
        binds == {i \in new : BindTakes(recs[i])}
        bound == BindEach(c_ids, Bindings(recs, binds))
        early == {i \in new : SpawnTakes(c_ids, recs[i])}
        ready == {i \in new : SpawnTakes(bound, recs[i])}
    IN /\ peer /\ snapshot.sent /\ snapshot' = Nothing
       /\ UNCHANGED <<game, server, core, peer, history>>
       /\ \E spawns \in {early, ready} :
          \E built \in {BindEach(bound, Bindings(recs, spawns))} :
             /\ c_ids' = Despawn(built, dead)
             /\ client_spawned' = (client_spawned \cup spawns) \ dead
             /\ c_owned' = (c_owned \cup BuiltSyncs(built, spawns))
                             \ BuiltSyncs(built, dead \cap client_spawned)
             /\ taken' = (taken \cup binds \cup spawns) \ dead
             /\ ack' = IF new \subseteq binds \cup spawns THEN snapshot ELSE ack

(***************************************************************************)
(* The transport (external).                                               *)
(***************************************************************************)
AckArrives ==
    /\ ack.sent /\ ack' = Nothing
    /\ spawn_acked' = spawn_acked \cup (DOMAIN ack.records \cap DOMAIN records)
    /\ owed' = owed \ ack.despawns
    /\ UNCHANGED <<game, server, entities, records, peer, snapshot, client,
                   history>>

LoseSnapshot ==
    /\ snapshot.sent /\ snapshot' = Nothing
    /\ UNCHANGED <<game, server, core, peer, ack, client, history>>

LoseAck ==
    /\ ack.sent /\ ack' = Nothing
    /\ UNCHANGED <<game, server, core, peer, snapshot, client, history>>

(***************************************************************************)
(* Sessions.                                                               *)
(***************************************************************************)

\* add_peer, and remove_peer: the core owes and knows nothing of the peer.
ForgetPeer ==
    /\ spawn_acked' = {} /\ owed' = {} /\ snapshot' = Nothing /\ ack' = Nothing
    /\ unloaded' = FALSE

ResetClientKeepsTaken ==
    /\ c_ids' = ForgetLearned(c_ids)
    /\ client_spawned' = {} /\ taken' = taken
    /\ c_owned' = c_owned \cap PlacedSyncs

ResetClientKeepsSpawned ==
    /\ c_ids' = ForgetLearned(c_ids)
    /\ client_spawned' = client_spawned /\ taken' = {}
    /\ c_owned' = c_owned \cap PlacedSyncs

\* _reset_client_state; the game tears down the nodes the session built.
ResetClient ==
    /\ c_ids' = ForgetLearned(c_ids)
    /\ client_spawned' = {} /\ taken' = {}
    /\ c_owned' = c_owned \cap PlacedSyncs

\* _relay_peer_connected there, _relay_connected_to_server here.
Connect ==
    /\ ~peer /\ peer' = TRUE
    /\ ForgetPeer /\ ResetClient
    /\ UNCHANGED <<game, server, entities, records, moved>>

\* _forget_peer there, _relay_server_disconnected here,
Disconnect ==
    /\ peer /\ peer' = FALSE
    /\ ForgetPeer /\ ResetClient
    /\ UNCHANGED <<game, server, entities, records, moved>>

\* or nothing here: the client's game put another peer in place of this one.
ClientSwapsPeer ==
    /\ peer /\ peer' = FALSE
    /\ ForgetPeer
    /\ UNCHANGED <<game, server, entities, records, client, moved>>

Session == Connect \/ Disconnect \/ ClientSwapsPeer

Game ==
    \/ \E o \in PlacedSyncs : PlacedEnters(o) \/ PlacedExits(o)
    \/ \E n \in Nodes : Spawn(n) \/ Free(n) \/ FreeSync(n) \/ Reparent(n)
    \/ \E o \in PlacedSyncs : ClientEnters(o) \/ ClientExits(o)

Transport == AckArrives \/ LoseSnapshot \/ LoseAck

Next == Game \/ Poll \/ Tick \/ Apply \/ Transport \/ Session

\* Polls go on; a link that loses packets does not lose every one of them.
Fairness ==
    /\ WF_vars(Poll) /\ WF_vars(Tick) /\ SF_vars(Apply) /\ SF_vars(AckArrives)

Spec == Init /\ [][Next]_vars
FairSpec == Spec /\ Fairness

-----------------------------------------------------------------------------
Record == [spawner : Nat, node : Objects, sync : Nat]

IsRecords(f) == /\ f = [i \in DOMAIN f |-> f[i]]
                /\ DOMAIN f \subseteq Nat \ {0}
                /\ \A i \in DOMAIN f : f[i] \in Record

IsPacket(p) == /\ p = [records |-> p.records, despawns |-> p.despawns, sent |-> p.sent]
               /\ IsRecords(p.records)
               /\ p.despawns \subseteq Nat
               /\ p.sent \in BOOLEAN

TypeOK ==
    /\ freed \subseteq born /\ born \subseteq Nodes
    /\ owned \subseteq Syncs /\ entities_to_add \subseteq owned
    /\ pending_spawns \subseteq born
    /\ IsIds(ids, Objects)
    /\ server_spawned \subseteq Nat /\ bind_ids \subseteq Nat
    /\ entities \subseteq Nat /\ IsRecords(records)
    /\ peer \in BOOLEAN
    /\ moved \subseteq Nodes /\ unloaded \in BOOLEAN
    /\ spawn_acked \subseteq DOMAIN records /\ owed \subseteq Nat
    /\ IsPacket(snapshot) /\ IsPacket(ack)
    /\ c_owned \subseteq Syncs
    /\ IsIds(c_ids, Objects)
    /\ client_spawned \subseteq Nat /\ taken \subseteq Nat

(***************************************************************************)
(* A node on one end and the node of the same path on the other never go   *)
(* by different ids: an id both ends know names the same node on each, so  *)
(* no state is ever set on another node than the one it was read from,     *)
(* however records, despawns, map changes and sessions overlap             *)
(* (_apply_bind, _apply_spawn, _apply_despawn against the server's map).   *)
(***************************************************************************)
SameNode == peer =>
    \A i \in DOMAIN c_ids.by_id \cap DOMAIN ids.by_id :
        Object(c_ids, i) = Object(ids, i)

(***************************************************************************)
(* Both id maps stay one to one through the loops that edit them.          *)
(***************************************************************************)
OneToOne == IsInverse(ids) /\ IsInverse(c_ids)

(***************************************************************************)
(* "its spawn record names it" (_add_entities): every id whose state the   *)
(* core sends is one some live record tells the peer, its own bind record  *)
(* or the spawn record of the node it came with.                           *)
(***************************************************************************)
Named(i) == i \in DOMAIN records \/ \E j \in DOMAIN records : records[j].sync = i

EveryEntityNamed == \A i \in entities : Named(i)

(***************************************************************************)
(* That holds of all but the synchronizers of nodes the game moved in the  *)
(* server's tree: whatever the order of spawn, poll and send, a spawn is   *)
(* drained, and its ids given, before the core takes its synchronizer.     *)
(***************************************************************************)
EntitiesNamed == \A i \in entities :
    Named(i) \/ \E n \in moved : Object(ids, i) = SyncOf(n)

(***************************************************************************)
(* "a node's state counts as delivered only once its record has, so a      *)
(* client never holds state under an id it can't place" (README): what the *)
(* server takes for acknowledged, the client has bound, the synchronizer   *)
(* a spawn record names included, until its despawn is on the way.  It     *)
(* holds as long as the client unloads no bound node during the session.   *)
(***************************************************************************)
Placeable(r, i) == /\ Object(c_ids, i) = r.node
                   /\ r.sync # 0 => Object(c_ids, r.sync) = SyncOf(r.node[2])

AckedIsPlaced == peer /\ ~unloaded => \A i \in spawn_acked : Placeable(records[i], i)

(***************************************************************************)
(* The client frees only what the server freed, never a node of its own:   *)
(* the ids it takes for nodes it built are of nodes it built.              *)
(***************************************************************************)
BuiltAreSpawned == \A i \in client_spawned :
    \E n \in born : Object(c_ids, i) = NodeOf(n)

(***************************************************************************)
(* What ids name, as pairs of an id and a node: in a map, and in records,  *)
(* the synchronizer that comes with a spawned node included.               *)
(***************************************************************************)
Called(m) == {<<i, m.by_id[i].obj>> : i \in DOMAIN m.by_id}

WithSync(f) == {i \in DOMAIN f : f[i].sync # 0}

Told(f) == {<<i, f[i].node>> : i \in DOMAIN f}
             \cup {<<f[i].sync, SyncOf(f[i].node[2])>> : i \in WithSync(f)}

NodesOf(S) == {NodeOf(n) : n \in S}

\* The nodes in the server's tree, as far as replication tells them apart.
Present == {Spawner} \cup owned \cup NodesOf(born \ freed)

(***************************************************************************)
(* The records, the snapshots and the client's map do what SharedNodes     *)
(* promises: whatever is lost, late or acknowledged, and whatever the      *)
(* server's game spawns, frees and moves meanwhile, a client comes to have *)
(* a node only as the server offered it, loses it in a session only when   *)
(* the server has it no more, and never gets a freed one back              *)
(* (_apply_bind, _apply_spawn, _apply_despawn, _drain_pending_spawns,      *)
(* _detect_despawns).                                                      *)
(***************************************************************************)
Shared == INSTANCE SharedNodes WITH
    Things <- Objects, Once <- NodesOf(Nodes),
    there <- Present, gone <- NodesOf(freed),
    next <- ids.next, offered <- Told(records), coming <- Told(snapshot.records),
    held <- Called(c_ids), up <- peer

ClientShares == Shared!Spec

(***************************************************************************)
(* A node the server frees goes on the client too, whatever snapshots and  *)
(* acknowledgements are lost: despawns are reliable until acknowledged.    *)
(***************************************************************************)
FreedGoes == \A n \in Nodes :
    (n \in freed) ~> (~peer \/ NodeOf(n) \notin DOMAIN c_ids.by_obj)

(***************************************************************************)
(* A node the server spawns is built on the client, though the record of   *)
(* its spawner has to come first.                                          *)
(***************************************************************************)
SpawnedComes == \A n \in Nodes :
    (n \in born) ~> (~peer \/ n \in freed \/ NodeOf(n) \in DOMAIN c_ids.by_obj)

(***************************************************************************)
(* A synchronizer placed in both scenes is bound there, whichever end      *)
(* loads it first: the record comes again until it is taken.               *)
(***************************************************************************)
PlacedComes == \A o \in PlacedSyncs :
    (o \in owned \cap c_owned)
        ~> (~peer \/ unloaded \/ o \notin owned \cap c_owned \/ o \in DOMAIN c_ids.by_obj)
=============================================================================
