--------------------------- MODULE ReplicationProofs ---------------------------
(***************************************************************************)
(* For any placed synchronizers, any spawned nodes and any number of ids:  *)
(* both ends' maps stay one to one, an id never names two nodes, whichever *)
(* end, record or packet says so, every id whose state is sent is named by *)
(* a record, and what the server takes for acknowledged is in its place.   *)
(***************************************************************************)
EXTENDS Replication, NetIdsProofs

-----------------------------------------------------------------------------
\* All that anything says at a time: the server's map and records, the
\* snapshot on its way and the client's map.
Claims == Called(ids) \cup Told(records) \cup Told(snapshot.records) \cup Called(c_ids)

\* An id names one node, whoever says so and however long ago.
OneName == \A c, d \in Claims : c[1] = d[1] => c[2] = d[2]

\* A spawned node has one id for good, unlike its synchronizer.
OneId == \A c, d \in Claims : \A n \in Nodes :
    c[2] = NodeOf(n) /\ d[2] = NodeOf(n) => c[1] = d[1]

\* Before it is drained nothing names it.
Undrained == \A c \in Claims : \A n \in Nodes :
    c[2] \in {NodeOf(n), SyncOf(n)} => n \in born \ pending_spawns

\* Ids in use anywhere were handed out.
Used == owed \cup snapshot.despawns \cup taken \cup DOMAIN ack.records

HandedOut == /\ \A c \in Claims : c[1] < ids.next
             /\ \A i \in Used : i < ids.next

-----------------------------------------------------------------------------
\* Records are of these two kinds, and no two are of a node.
IsBind(r)  == r.spawner = 0 /\ r.sync = 0 /\ r.node \in PlacedSyncs \cup {Spawner}
IsSpawn(r) == r.spawner # 0 /\ \E n \in Nodes : r.node = NodeOf(n)

Distinct(f) == /\ \A i \in DOMAIN f : IsBind(f[i]) \/ IsSpawn(f[i])
               /\ \A i, j \in DOMAIN f : f[i].node = f[j].node => i = j

\* The server's records are of nodes its map knows; the spawner has one once
\* it has an id, and each spawned node between its drain and its end.
RecordsInv ==
    /\ Distinct(records)
    /\ \A i \in DOMAIN records : Object(ids, i) = records[i].node
    /\ Spawner \in DOMAIN ids.by_obj => ids.by_obj[Spawner] \in DOMAIN records
    /\ \A i \in server_spawned : i \in DOMAIN records /\ IsSpawn(records[i])
    /\ \A n \in born \ (freed \cup pending_spawns) :
          NodeOf(n) \in DOMAIN ids.by_obj /\ ids.by_obj[NodeOf(n)] \in server_spawned

\* A synchronizer is in the tree with its node, and has an id only there; a
\* placed one has none until the core is handed it.
TreeInv ==
    /\ \A n \in Nodes : SyncOf(n) \in owned => n \in born \ freed
    /\ DOMAIN ids.by_obj \cap Syncs \subseteq owned
    /\ \A o \in entities_to_add \cap PlacedSyncs : o \notin DOMAIN ids.by_obj

\* What the core was handed is in the tree; a placed one has a bind record,
\* and a spawned one its node's record names, unless that node was moved.
EntitiesInv ==
    /\ \A i \in entities : Object(ids, i) \in owned \ entities_to_add
    /\ \A i \in entities : Object(ids, i) \in PlacedSyncs => i \in DOMAIN records
    /\ \A n \in born \ (freed \cup pending_spawns \cup moved) :
          SyncOf(n) \in owned =>
              /\ SyncOf(n) \in DOMAIN ids.by_obj
              /\ records[ids.by_obj[NodeOf(n)]].sync = ids.by_obj[SyncOf(n)]

-----------------------------------------------------------------------------
\* What is on its way to the client is what the server still has, or dead.
SnapshotInv ==
    /\ Distinct(snapshot.records)
    /\ \A i \in DOMAIN records \cap DOMAIN snapshot.records :
          records[i] = snapshot.records[i]

\* A despawn on its way is of no live record, nor of what one brings.
DespawnsInv == \A i \in DOMAIN records :
    /\ i \notin owed \cup snapshot.despawns
    /\ records[i].sync # 0 => records[i].sync \notin owed \cup snapshot.despawns

\* What is acknowledged the client has taken; what it has taken and lives is
\* where it belongs, and no older record of its node is still on its way.
TakenInv == peer /\ ~unloaded =>
    /\ spawn_acked \subseteq taken
    /\ DOMAIN ack.records \cap DOMAIN records \subseteq taken
    /\ \A i \in taken \cap DOMAIN records :
          /\ Placeable(records[i], i)
          /\ \A j \in DOMAIN snapshot.records :
                snapshot.records[j].node = records[i].node => j = i

NamesInv  == OneName /\ OneId /\ Undrained /\ HandedOut
ServerInv == RecordsInv /\ TreeInv /\ EntitiesInv
ClientInv == SnapshotInv /\ DespawnsInv /\ TakenInv /\ BuiltAreSpawned

IInv == TypeOK /\ OneToOne /\ NamesInv /\ ServerInv /\ ClientInv

-----------------------------------------------------------------------------
(***************************************************************************)
(* The nodes of the different kinds are different nodes.                   *)
(***************************************************************************)
LEMMA NodesApart ==
    /\ \A n \in Nodes : /\ NodeOf(n) \in Objects /\ SyncOf(n) \in Syncs
                        /\ SyncOf(n) \in Objects
                        /\ NodeOf(n)[2] = n /\ NodeOf(n) \notin Syncs
                        /\ NodeOf(n) # Spawner /\ SyncOf(n) # Spawner
                        /\ NodeOf(n) \notin PlacedSyncs /\ SyncOf(n) \notin PlacedSyncs
    /\ \A n, k \in Nodes : /\ NodeOf(n) = NodeOf(k) => n = k
                           /\ SyncOf(n) = SyncOf(k) => n = k
                           /\ NodeOf(n) # SyncOf(k)
    /\ Spawner \in Objects /\ Spawner \notin Syncs /\ Spawner \notin PlacedSyncs
    /\ \A o \in PlacedSyncs : o \in Syncs
    /\ \A o \in Syncs : o \in Objects /\ (o \in PlacedSyncs \/ \E n \in Nodes : o = SyncOf(n))
PROOF
  BY DEF NodeOf, SyncOf, Spawner, PlacedSyncs, Syncs, Objects

(***************************************************************************)
(* The two sides of a map say the same of an id and a node.                *)
(***************************************************************************)
LEMMA ObjectFacts ==
    ASSUME NEW m, IsIds(m, Objects), IsInverse(m)
    PROVE  /\ \A i : i \in DOMAIN m.by_id => /\ i \in Nat \ {0}
                                            /\ Object(m, i) = m.by_id[i].obj
                                            /\ Object(m, i) \in Objects
           /\ \A i : i \notin DOMAIN m.by_id => Object(m, i) = NoObject
           /\ \A o \in Objects : \A i :
                 Object(m, i) = o <=> o \in DOMAIN m.by_obj /\ m.by_obj[o] = i
           /\ \A o \in DOMAIN m.by_obj : o \in Objects /\ m.by_obj[o] \in Nat \ {0}
           /\ \A c : c \in Called(m) <=> \E i \in DOMAIN m.by_id : c = <<i, Object(m, i)>>
PROOF
  <1>1. /\ \A i : i \in DOMAIN m.by_id => /\ i \in Nat \ {0}
                                         /\ Object(m, i) = m.by_id[i].obj
                                         /\ Object(m, i) \in Objects
        /\ \A i : i \notin DOMAIN m.by_id => Object(m, i) = NoObject
        /\ \A o \in DOMAIN m.by_obj : o \in Objects /\ m.by_obj[o] \in Nat \ {0}
    BY DEF IsIds, Object
  <1>2. ASSUME NEW o \in Objects, NEW i
        PROVE  Object(m, i) = o <=> o \in DOMAIN m.by_obj /\ m.by_obj[o] = i
    BY NoObjectAssumption DEF IsInverse, Object
  <1>3. \A c : c \in Called(m) <=> \E i \in DOMAIN m.by_id : c = <<i, Object(m, i)>>
    BY <1>1 DEF Called
  <1> QED BY <1>1, <1>2, <1>3

(***************************************************************************)
(* Fewer ids, fewer names.                                                 *)
(***************************************************************************)
LEMMA CalledShrinks ==
    ASSUME NEW m, NEW d, DOMAIN d.by_id \subseteq DOMAIN m.by_id,
           \A i \in DOMAIN d.by_id : d.by_id[i] = m.by_id[i]
    PROVE  Called(d) \subseteq Called(m)
PROOF
  BY DEF Called

\* Fewer records tell less.
LEMMA ToldShrinks ==
    ASSUME NEW f, NEW g, DOMAIN g \subseteq DOMAIN f, \A i \in DOMAIN g : g[i] = f[i]
    PROVE  Told(g) \subseteq Told(f)
PROOF
  BY DEF Told, WithSync

(***************************************************************************)
(* What holds of the names goes on holding when a step adds no name.       *)
(***************************************************************************)
LEMMA NamesShrink ==
    ASSUME NamesInv, Claims' \subseteq Claims, ids'.next = ids.next,
           Used' \subseteq Used \cup {c[1] : c \in Claims},
           born \ pending_spawns \subseteq (born \ pending_spawns)'
    PROVE  NamesInv'
PROOF
  <1>1. OneName'
    BY DEF NamesInv, OneName
  <1>2. OneId'
    BY DEF NamesInv, OneId
  <1>3. Undrained'
    BY DEF NamesInv, Undrained
  <1>4. HandedOut'
    BY DEF NamesInv, HandedOut
  <1> QED BY <1>1, <1>2, <1>3, <1>4 DEF NamesInv

\* At first nothing has an id.
LEMMA InitHolds == Init => IInv
PROOF
  <1> SUFFICES ASSUME Init PROVE IInv
    OBVIOUS
  <1>1. /\ NoIds.by_id = [i \in {} |-> i] /\ NoIds.by_obj = [o \in {} |-> o]
        /\ NoIds.next = 1 /\ DOMAIN NoIds.by_id = {} /\ DOMAIN NoIds.by_obj = {}
    BY DEF NoIds
  <1>2. IsIds(NoIds, Objects) /\ IsInverse(NoIds) /\ Called(NoIds) = {}
    BY <1>1 DEF NoIds, IsIds, IsInverse, Called
  <1>3. DOMAIN NoMap = {} /\ IsRecords(NoMap) /\ Told(NoMap) = {}
    BY DEF NoMap, IsRecords, Told, WithSync
  <1>4. /\ Nothing.records = NoMap /\ Nothing.despawns = {} /\ IsPacket(Nothing)
    BY <1>3 DEF Nothing, IsPacket
  <1>5. TypeOK /\ OneToOne
    BY <1>2, <1>3, <1>4 DEF Init, TypeOK, OneToOne
  <1>6. NamesInv
    BY <1>2, <1>3, <1>4 DEF Init, NamesInv, OneName, OneId, Undrained, HandedOut, Claims, Used
  <1>7. ServerInv
    BY <1>1, <1>3 DEF Init, ServerInv, RecordsInv, Distinct, TreeInv, EntitiesInv
  <1>8. ClientInv
    BY <1>3, <1>4 DEF Init, ClientInv, SnapshotInv, Distinct, DespawnsInv, TakenInv, BuiltAreSpawned
  <1> QED BY <1>5, <1>6, <1>7, <1>8 DEF IInv

(***************************************************************************)
(* The ids a live record gives are not those of other records' nodes.      *)
(***************************************************************************)
LEMMA RecordFacts ==
    ASSUME IInv, NEW i \in DOMAIN records
    PROVE  /\ i \in Nat \ {0} /\ i \in DOMAIN ids.by_id
           /\ records[i] \in Record
           /\ IsBind(records[i]) \/ IsSpawn(records[i])
           /\ records[i].node \in DOMAIN ids.by_obj /\ ids.by_obj[records[i].node] = i
           /\ <<i, records[i].node>> \in Claims
           /\ records[i].sync # 0 =>
                 /\ IsSpawn(records[i])
                 /\ <<records[i].sync, SyncOf(records[i].node[2])>> \in Claims
                 /\ records[i].sync \notin DOMAIN records
PROOF
  <1>1. i \in Nat \ {0} /\ records[i] \in Record /\ (IsBind(records[i]) \/ IsSpawn(records[i]))
    BY DEF IInv, TypeOK, IsRecords, ServerInv, RecordsInv, Distinct
  <1>2. Object(ids, i) = records[i].node /\ records[i].node \in Objects
    BY <1>1 DEF IInv, ServerInv, RecordsInv, Record
  <1>3. /\ IsIds(ids, Objects) /\ IsInverse(ids)
    BY DEF IInv, TypeOK, OneToOne
  <1>4. i \in DOMAIN ids.by_id /\ records[i].node \in DOMAIN ids.by_obj
        /\ ids.by_obj[records[i].node] = i
    BY <1>2, <1>3, ObjectFacts, NoObjectAssumption
  <1>5. \A j \in DOMAIN records : <<j, records[j].node>> \in Claims
    BY DEF Claims, Told
  <1>6. ASSUME records[i].sync # 0
        PROVE  /\ IsSpawn(records[i])
               /\ <<records[i].sync, SyncOf(records[i].node[2])>> \in Claims
               /\ records[i].sync \notin DOMAIN records
    <2>1. IsSpawn(records[i])
      BY <1>1, <1>6 DEF IsBind
    <2>2. <<records[i].sync, SyncOf(records[i].node[2])>> \in Claims
      BY <1>6 DEF Claims, Told, WithSync
    <2>3. PICK n \in Nodes : records[i].node = NodeOf(n)
      BY <2>1 DEF IsSpawn
    <2>4. ASSUME records[i].sync \in DOMAIN records PROVE FALSE
      <3>1. <<records[i].sync, records[records[i].sync].node>> \in Claims
        BY <1>5, <2>4
      <3>2. records[records[i].sync].node = SyncOf(n)
        BY <2>2, <2>3, <3>1, NodesApart DEF IInv, NamesInv, OneName
      <3>3. IsBind(records[records[i].sync]) \/ IsSpawn(records[records[i].sync])
        BY <2>4 DEF IInv, ServerInv, RecordsInv, Distinct
      <3> QED BY <3>2, <3>3, NodesApart DEF IsBind, IsSpawn
    <2> QED BY <2>1, <2>2, <2>4
  <1> QED BY <1>1, <1>4, <1>5, <1>6

(***************************************************************************)
(* When records go and the peer is owed their despawns, what the client    *)
(* has taken of the others is as good as before.                           *)
(***************************************************************************)
LEMMA ClientStays ==
    ASSUME IInv, NEW S \in SUBSET DOMAIN records, Despawned(S),
           UNCHANGED <<peer, air, client, unloaded>>, born \subseteq born'
    PROVE  /\ ClientInv'
           /\ Distinct(records')
           /\ Told(records') \subseteq Told(records)
           /\ Used' \subseteq Used \cup {c[1] : c \in Claims}
           /\ IsRecords(records') /\ spawn_acked' \subseteq DOMAIN records'
           /\ owed' \subseteq Nat
PROOF
  <1>1. /\ records' = [i \in DOMAIN records \ S |-> records[i]]
        /\ spawn_acked' = spawn_acked \ S
        /\ owed' \subseteq owed \cup S
        /\ UNCHANGED <<peer, snapshot, ack, c_owned, c_ids, client_spawned, taken, unloaded>>
    BY DEF Despawned, Owed, air, client
  <1>2. DOMAIN records' = DOMAIN records \ S /\ \A i \in DOMAIN records' : records'[i] = records[i]
    BY <1>1
  <1>3. SnapshotInv'
    BY <1>1, <1>2 DEF IInv, ClientInv, SnapshotInv
  <1>4. DespawnsInv'
    <2>1. \A i \in DOMAIN records : records[i].sync # 0 => records[i].sync \notin S
      BY RecordFacts
    <2> QED BY <1>1, <1>2, <2>1 DEF IInv, ClientInv, DespawnsInv
  <1>5. TakenInv'
    BY <1>1, <1>2 DEF IInv, ClientInv, TakenInv, Placeable
  <1>6. BuiltAreSpawned'
    BY <1>1 DEF IInv, ClientInv, BuiltAreSpawned
  <1>7. Distinct(records')
    BY <1>2 DEF IInv, ServerInv, RecordsInv, Distinct
  <1>8. Told(records') \subseteq Told(records)
    BY <1>2, ToldShrinks
  <1>9. Used' \subseteq Used \cup {c[1] : c \in Claims}
    <2>1. \A i \in S : <<i, records[i].node>> \in Claims
      BY RecordFacts
    <2>2. ASSUME NEW i \in S PROVE i \in {c[1] : c \in Claims}
      <3>1. <<i, records[i].node>>[1] = i
        OBVIOUS
      <3> QED BY <2>1, <3>1
    <2> QED BY <1>1, <2>2 DEF Used
  <1>10. IsRecords(records') /\ spawn_acked' \subseteq DOMAIN records' /\ owed' \subseteq Nat
    BY <1>1, <1>2 DEF IInv, TypeOK, IsRecords
  <1> QED BY <1>3, <1>4, <1>5, <1>6, <1>7, <1>8, <1>9, <1>10 DEF ClientInv

-----------------------------------------------------------------------------
(***************************************************************************)
(* A synchronizer unregisters: its id, its entity and, if it has one, its  *)
(* bind record go together.                                                *)
(***************************************************************************)
LEMMA Unregistered ==
    ASSUME IInv, NEW o \in Syncs,
           ids' = Release(ids, o), RemoveEntity(Id(ids, o)),
           UNCHANGED <<born, pending_spawns, server_spawned, peer, air, client, unloaded>>,
           freed \subseteq freed'
    PROVE  /\ NamesInv' /\ RecordsInv' /\ ClientInv' /\ OneToOne'
           /\ IsIds(ids', Objects) /\ IsRecords(records') /\ entities' \subseteq Nat
           /\ spawn_acked' \subseteq DOMAIN records' /\ owed' \subseteq Nat
           /\ DOMAIN ids'.by_obj = DOMAIN ids.by_obj \ {o}
           /\ \A q \in DOMAIN ids'.by_obj : ids'.by_obj[q] = ids.by_obj[q]
           /\ \A i \in entities' : /\ i \in entities
                                   /\ Object(ids', i) = Object(ids, i)
                                   /\ Object(ids, i) # o
                                   /\ i \in DOMAIN records => i \in DOMAIN records'
           /\ \A i \in server_spawned : records'[i] = records[i]
PROOF
  <1> DEFINE x == Id(ids, o)
             S == {x} \cap DOMAIN records
  <1>0. IsIds(ids, Objects) /\ IsInverse(ids) /\ IsInverse(c_ids) /\ o \in Objects
    BY NodesApart DEF IInv, TypeOK, OneToOne
  <1>1. /\ IsIds(ids', Objects) /\ IsInverse(ids') /\ ids'.next = ids.next
        /\ DOMAIN ids'.by_id = DOMAIN ids.by_id \ {x}
        /\ \A i \in DOMAIN ids.by_id \ {x} : ids'.by_id[i] = ids.by_id[i]
        /\ DOMAIN ids'.by_obj = DOMAIN ids.by_obj \ {o}
        /\ \A q \in DOMAIN ids.by_obj \ {o} : ids'.by_obj[q] = ids.by_obj[q]
    BY <1>0, ReleaseFacts
  <1>2. /\ entities' = entities \ {x} /\ Despawned(S) /\ S \in SUBSET DOMAIN records
    BY DEF RemoveEntity
  <1>3. /\ records' = [i \in DOMAIN records \ S |-> records[i]]
        /\ DOMAIN records' = DOMAIN records \ {x}
        /\ \A i \in DOMAIN records' : records'[i] = records[i]
    BY <1>2 DEF Despawned
  <1>4. UNCHANGED <<born, pending_spawns, server_spawned, peer, snapshot, ack,
                    c_owned, c_ids, client_spawned, taken, unloaded>>
    BY DEF air, client
  <1>5. /\ ClientInv' /\ Distinct(records')
        /\ Told(records') \subseteq Told(records)
        /\ Used' \subseteq Used \cup {c[1] : c \in Claims}
        /\ IsRecords(records') /\ spawn_acked' \subseteq DOMAIN records'
        /\ owed' \subseteq Nat
    BY <1>2, ClientStays
  <1>6. \A i \in Nat : i # x => Object(ids', i) = Object(ids, i)
    BY <1>1 DEF Object
  <1>7. \A i : Object(ids, i) = o => i = x
    BY <1>0, ObjectFacts DEF Id
  <1>8. x \in DOMAIN ids.by_id => Object(ids, x) = o
    BY <1>0, ObjectFacts DEF Id
  <1> HIDE DEF x, S
  <1>9. NamesInv'
    <2>1. Called(ids') \subseteq Called(ids)
      BY <1>1, CalledShrinks
    <2>2. Claims' \subseteq Claims
      BY <1>4, <1>5, <2>1 DEF Claims
    <2> QED BY <1>1, <1>4, <1>5, <2>2, NamesShrink DEF IInv
  <1>10. RecordsInv'
    <2>1. ASSUME NEW i \in DOMAIN records' PROVE Object(ids', i) = records'[i].node
      BY <1>3, <1>6, <2>1, RecordFacts DEF IInv, ServerInv, RecordsInv
    <2>2. ASSUME NEW i \in server_spawned
          PROVE  i \in DOMAIN records' /\ IsSpawn(records'[i])
      <3>1. i \in DOMAIN records /\ IsSpawn(records[i])
        BY <2>2 DEF IInv, ServerInv, RecordsInv
      <3>2. Object(ids, i) = records[i].node /\ i \in DOMAIN ids.by_id
        BY <3>1, RecordFacts DEF IInv, ServerInv, RecordsInv
      <3>3. i # x
        BY <1>8, <3>1, <3>2, NodesApart DEF IsSpawn
      <3> QED BY <1>3, <3>1, <3>3
    <2>3. Spawner \in DOMAIN ids'.by_obj => ids'.by_obj[Spawner] \in DOMAIN records'
      <3>1. SUFFICES ASSUME Spawner \in DOMAIN ids.by_obj
                     PROVE  ids.by_obj[Spawner] \in DOMAIN records'
        BY <1>1
      <3>2. ids.by_obj[Spawner] \in DOMAIN records
        BY <3>1 DEF IInv, ServerInv, RecordsInv
      <3>3. Object(ids, ids.by_obj[Spawner]) = Spawner
        BY <1>0, <3>1, ObjectFacts
      <3>4. ids.by_obj[Spawner] # x
        <4>1. ids.by_obj[Spawner] \in DOMAIN ids.by_id
          BY <3>2, RecordFacts
        <4>2. o # Spawner
          BY NodesApart
        <4> QED BY <1>8, <3>3, <4>1, <4>2
      <3> QED BY <1>3, <3>2, <3>4
    <2>4. ASSUME NEW n \in born' \ (freed' \cup pending_spawns')
          PROVE  NodeOf(n) \in DOMAIN ids'.by_obj /\ ids'.by_obj[NodeOf(n)] \in server_spawned'
      <3>1. n \in born \ (freed \cup pending_spawns) /\ n \in Nodes
        BY <1>4, <2>4 DEF IInv, TypeOK
      <3>2. NodeOf(n) \in DOMAIN ids.by_obj /\ ids.by_obj[NodeOf(n)] \in server_spawned
        BY <3>1 DEF IInv, ServerInv, RecordsInv
      <3> QED BY <1>1, <1>4, <3>1, <3>2, NodesApart
    <2> QED BY <1>4, <1>5, <2>1, <2>2, <2>3, <2>4 DEF RecordsInv
  <1>11. ASSUME NEW i \in entities'
         PROVE  /\ i \in entities
                /\ Object(ids', i) = Object(ids, i)
                /\ Object(ids, i) # o
                /\ i \in DOMAIN records => i \in DOMAIN records'
    BY <1>2, <1>3, <1>6, <1>7, <1>11 DEF IInv, TypeOK
  <1>12. \A i \in server_spawned : records'[i] = records[i]
    BY <1>3, <1>4, <1>10 DEF RecordsInv
  <1>13. OneToOne' /\ entities' \subseteq Nat
    BY <1>0, <1>1, <1>2, <1>4 DEF OneToOne, IInv, TypeOK
  <1> QED BY <1>1, <1>5, <1>9, <1>10, <1>11, <1>12, <1>13

\* A synchronizer leaves the server's tree, by itself or with its node.
LEMMA ExitHolds ==
    ASSUME IInv, NEW o \in Syncs \cap owned, Exit(o), UNCHANGED <<born, history>>,
           \/ UNCHANGED freed
           \/ \E n \in born : o = SyncOf(n) /\ freed' = freed \cup {n}
    PROVE  IInv'
PROOF
  <1>0. /\ owned' = owned \ {o} /\ entities_to_add' = entities_to_add \ {o}
        /\ ids' = Release(ids, o) /\ RemoveEntity(Id(ids, o))
        /\ bind_ids' = bind_ids \ {Id(ids, o)}
        /\ UNCHANGED <<pending_spawns, server_spawned, peer, air, client>>
        /\ UNCHANGED <<moved, unloaded>>
    BY DEF Exit, history
  <1>1. /\ NamesInv' /\ RecordsInv' /\ ClientInv' /\ OneToOne'
        /\ IsIds(ids', Objects) /\ IsRecords(records') /\ entities' \subseteq Nat
        /\ spawn_acked' \subseteq DOMAIN records' /\ owed' \subseteq Nat
        /\ DOMAIN ids'.by_obj = DOMAIN ids.by_obj \ {o}
        /\ \A q \in DOMAIN ids'.by_obj : ids'.by_obj[q] = ids.by_obj[q]
        /\ \A i \in entities' : /\ i \in entities
                                /\ Object(ids', i) = Object(ids, i)
                                /\ Object(ids, i) # o
                                /\ i \in DOMAIN records => i \in DOMAIN records'
        /\ \A i \in server_spawned : records'[i] = records[i]
    BY <1>0, Unregistered
  <1>2. /\ freed \subseteq freed' /\ freed' \subseteq born
        /\ \A n \in Nodes : n \in freed' /\ n \notin freed => o = SyncOf(n)
    BY NodesApart DEF IInv, TypeOK
  <1>3. TypeOK'
    BY <1>0, <1>1, <1>2 DEF IInv, TypeOK, air, client
  <1>4. TreeInv'
    BY <1>0, <1>1, <1>2 DEF IInv, ServerInv, TreeInv
  <1>5. EntitiesInv'
    <2>1. ASSUME NEW n \in born' \ (freed' \cup pending_spawns' \cup moved'),
                 SyncOf(n) \in owned'
          PROVE  /\ SyncOf(n) \in DOMAIN ids'.by_obj
                 /\ records'[ids'.by_obj[NodeOf(n)]].sync = ids'.by_obj[SyncOf(n)]
      <3>1. /\ n \in born \ (freed \cup pending_spawns \cup moved) /\ n \in Nodes
            /\ SyncOf(n) \in owned /\ SyncOf(n) # o
        BY <1>0, <1>2, <2>1 DEF IInv, TypeOK
      <3>2. /\ SyncOf(n) \in DOMAIN ids.by_obj
            /\ records[ids.by_obj[NodeOf(n)]].sync = ids.by_obj[SyncOf(n)]
        BY <3>1 DEF IInv, ServerInv, EntitiesInv
      <3>3. NodeOf(n) \in DOMAIN ids.by_obj /\ ids.by_obj[NodeOf(n)] \in server_spawned
        BY <3>1 DEF IInv, ServerInv, RecordsInv
      <3> QED BY <1>1, <3>1, <3>2, <3>3, NodesApart
    <2>2. \A i \in entities' : Object(ids', i) \in owned' \ entities_to_add'
      BY <1>0, <1>1 DEF IInv, ServerInv, EntitiesInv
    <2>3. \A i \in entities' : Object(ids', i) \in PlacedSyncs => i \in DOMAIN records'
      BY <1>1 DEF IInv, ServerInv, EntitiesInv
    <2> QED BY <2>1, <2>2, <2>3 DEF EntitiesInv
  <1> QED BY <1>1, <1>3, <1>4, <1>5 DEF IInv, ServerInv

\* A placed synchronizer enters the server's tree.
LEMMA PlacedEntersHolds ==
    ASSUME IInv, NEW o \in PlacedSyncs, PlacedEnters(o) PROVE IInv'
PROOF
  <1>1. /\ o \in Syncs \ owned
        /\ owned' = owned \cup {o} /\ entities_to_add' = entities_to_add \cup {o}
        /\ UNCHANGED <<born, freed, pending_spawns, ids, server_spawned, bind_ids>>
        /\ UNCHANGED <<entities, records, spawn_acked, owed, peer, snapshot, ack>>
        /\ UNCHANGED <<c_owned, c_ids, client_spawned, taken, moved, unloaded>>
    BY NodesApart DEF PlacedEnters, Enter, game, core, air, client, history
  <1>2. TypeOK' /\ OneToOne'
    BY <1>1 DEF IInv, TypeOK, OneToOne
  <1>3. NamesInv'
    BY <1>1 DEF IInv, NamesInv, OneName, OneId, Undrained, HandedOut, Claims, Used
  <1>4. TreeInv'
    BY <1>1, NodesApart DEF IInv, ServerInv, TreeInv
  <1>5. RecordsInv'
    BY <1>1 DEF IInv, ServerInv, RecordsInv
  <1>6. EntitiesInv'
    <2>1. \A i \in entities' : Object(ids', i) \in owned' \ entities_to_add'
      BY <1>1 DEF IInv, ServerInv, EntitiesInv
    <2>2. \A n \in Nodes : SyncOf(n) # o
      BY NodesApart
    <2>3. born \subseteq Nodes
      BY DEF IInv, TypeOK
    <2> QED BY <1>1, <2>1, <2>2, <2>3 DEF IInv, ServerInv, EntitiesInv
  <1>7. ClientInv'
    BY <1>1 DEF IInv, ClientInv, SnapshotInv, DespawnsInv, TakenInv, Placeable, BuiltAreSpawned
  <1> QED BY <1>2, <1>3, <1>4, <1>5, <1>6, <1>7 DEF IInv, ServerInv

\* A node is spawned, and waits to be drained.
LEMMA SpawnHolds ==
    ASSUME IInv, NEW n \in Nodes, Spawn(n) PROVE IInv'
PROOF
  <1>0. SyncOf(n) \in Syncs \ owned /\ SyncOf(n) \notin PlacedSyncs /\ n \notin born
    BY NodesApart DEF Spawn, IInv, ServerInv, TreeInv
  <1>1. /\ owned' = owned \cup {SyncOf(n)}
        /\ entities_to_add' = entities_to_add \cup {SyncOf(n)}
        /\ born' = born \cup {n} /\ pending_spawns' = pending_spawns \cup {n}
        /\ UNCHANGED <<freed, ids, server_spawned, bind_ids>>
        /\ UNCHANGED <<entities, records, spawn_acked, owed, peer, snapshot, ack>>
        /\ UNCHANGED <<c_owned, c_ids, client_spawned, taken, moved, unloaded>>
    BY DEF Spawn, Enter, core, air, client, history
  <1>2. TypeOK' /\ OneToOne'
    BY <1>0, <1>1 DEF IInv, TypeOK, OneToOne
  <1>3. (born \ pending_spawns)' = born \ pending_spawns
    BY <1>0, <1>1 DEF IInv, TypeOK
  <1>4. NamesInv'
    BY <1>1, <1>3 DEF IInv, NamesInv, OneName, OneId, Undrained, HandedOut, Claims, Used
  <1>5. TreeInv'
    BY <1>0, <1>1, NodesApart DEF IInv, ServerInv, TreeInv, TypeOK
  <1>6. RecordsInv'
    BY <1>1, <1>3 DEF IInv, ServerInv, RecordsInv
  <1>7. EntitiesInv'
    <2>1. \A i \in entities' : Object(ids', i) \in owned' \ entities_to_add'
      BY <1>0, <1>1 DEF IInv, ServerInv, EntitiesInv
    <2>2. \A k \in born' \ (freed' \cup pending_spawns' \cup moved') :
             k \in born \ (freed \cup pending_spawns \cup moved) /\ SyncOf(k) # SyncOf(n)
      BY <1>0, <1>1, NodesApart DEF IInv, TypeOK
    <2> QED BY <1>1, <2>1, <2>2 DEF IInv, ServerInv, EntitiesInv
  <1>8. ClientInv'
    BY <1>1 DEF IInv, ClientInv, SnapshotInv, DespawnsInv, TakenInv, Placeable, BuiltAreSpawned
  <1> QED BY <1>2, <1>4, <1>5, <1>6, <1>7, <1>8 DEF IInv, ServerInv

\* A spawned node is freed, its synchronizer with it.
LEMMA FreeHolds ==
    ASSUME IInv, NEW n \in Nodes, Free(n) PROVE IInv'
PROOF
  <1>1. /\ n \in born \ freed /\ freed' = freed \cup {n} /\ UNCHANGED <<born, history>>
    BY DEF Free
  <1>2. CASE SyncOf(n) \in owned
    <2>1. Exit(SyncOf(n)) /\ SyncOf(n) \in Syncs \cap owned
      BY <1>2, NodesApart DEF Free
    <2> QED BY <1>1, <2>1, ExitHolds
  <1>3. CASE SyncOf(n) \notin owned
    <2>1. /\ UNCHANGED <<owned, entities_to_add, pending_spawns, ids, server_spawned, bind_ids>>
          /\ UNCHANGED <<entities, records, spawn_acked, owed, peer, snapshot, ack>>
          /\ UNCHANGED <<c_owned, c_ids, client_spawned, taken, moved, unloaded>>
      BY <1>1, <1>3 DEF Free, server, core, air, client, history
    <2>2. TypeOK' /\ OneToOne'
      BY <1>1, <2>1 DEF IInv, TypeOK, OneToOne
    <2>3. NamesInv'
      BY <1>1, <2>1 DEF IInv, NamesInv, OneName, OneId, Undrained, HandedOut, Claims, Used
    <2>4. TreeInv'
      BY <1>1, <1>3, <2>1, NodesApart DEF IInv, ServerInv, TreeInv
    <2>5. RecordsInv' /\ EntitiesInv'
      BY <1>1, <2>1 DEF IInv, ServerInv, RecordsInv, EntitiesInv
    <2>6. ClientInv'
      BY <1>1, <2>1 DEF IInv, ClientInv, SnapshotInv, DespawnsInv, TakenInv, Placeable, BuiltAreSpawned
    <2> QED BY <2>2, <2>3, <2>4, <2>5, <2>6 DEF IInv, ServerInv
  <1> QED BY <1>2, <1>3

\* The game moves a spawned node.
LEMMA ReparentHolds ==
    ASSUME IInv, NEW n \in Nodes, Reparent(n) PROVE IInv'
PROOF
  <1> DEFINE o == SyncOf(n)
  <1>0. /\ o \in Syncs /\ o \in owned /\ o \notin PlacedSyncs
        /\ owned' = owned /\ entities_to_add' = entities_to_add \cup {o}
        /\ ids' = Release(ids, o) /\ RemoveEntity(Id(ids, o))
        /\ moved' = moved \cup {n}
        /\ UNCHANGED <<born, freed, pending_spawns, server_spawned, bind_ids, peer>>
        /\ UNCHANGED <<air, client, unloaded>>
        /\ UNCHANGED <<snapshot, ack, c_owned, c_ids, client_spawned, taken>>
    BY NodesApart DEF Reparent, Enter, game, air, client
  <1>1. /\ NamesInv' /\ RecordsInv' /\ ClientInv' /\ OneToOne'
        /\ IsIds(ids', Objects) /\ IsRecords(records') /\ entities' \subseteq Nat
        /\ spawn_acked' \subseteq DOMAIN records' /\ owed' \subseteq Nat
        /\ DOMAIN ids'.by_obj = DOMAIN ids.by_obj \ {o}
        /\ \A q \in DOMAIN ids'.by_obj : ids'.by_obj[q] = ids.by_obj[q]
        /\ \A i \in entities' : /\ i \in entities
                                /\ Object(ids', i) = Object(ids, i)
                                /\ Object(ids, i) # o
                                /\ i \in DOMAIN records => i \in DOMAIN records'
        /\ \A i \in server_spawned : records'[i] = records[i]
    BY <1>0, Unregistered
  <1>2. \A k \in Nodes : SyncOf(k) = o => k = n
    BY NodesApart
  <1> HIDE DEF o
  <1>3. TypeOK'
    BY <1>0, <1>1 DEF IInv, TypeOK
  <1>4. TreeInv'
    BY <1>0, <1>1 DEF IInv, ServerInv, TreeInv
  <1>5. EntitiesInv'
    <2>1. ASSUME NEW k \in born' \ (freed' \cup pending_spawns' \cup moved'),
                 SyncOf(k) \in owned'
          PROVE  /\ SyncOf(k) \in DOMAIN ids'.by_obj
                 /\ records'[ids'.by_obj[NodeOf(k)]].sync = ids'.by_obj[SyncOf(k)]
      <3>1. /\ k \in born \ (freed \cup pending_spawns \cup moved) /\ k \in Nodes
            /\ SyncOf(k) \in owned /\ SyncOf(k) # o
        BY <1>0, <1>2, <2>1 DEF IInv, TypeOK
      <3>2. /\ SyncOf(k) \in DOMAIN ids.by_obj
            /\ records[ids.by_obj[NodeOf(k)]].sync = ids.by_obj[SyncOf(k)]
        BY <3>1 DEF IInv, ServerInv, EntitiesInv
      <3>3. NodeOf(k) \in DOMAIN ids.by_obj /\ ids.by_obj[NodeOf(k)] \in server_spawned
        BY <3>1 DEF IInv, ServerInv, RecordsInv
      <3>4. NodeOf(k) # o
        BY <3>1, NodesApart DEF o
      <3> QED BY <1>1, <3>1, <3>2, <3>3, <3>4
    <2>2. \A i \in entities' : Object(ids', i) \in owned' \ entities_to_add'
      BY <1>0, <1>1 DEF IInv, ServerInv, EntitiesInv
    <2>3. \A i \in entities' : Object(ids', i) \in PlacedSyncs => i \in DOMAIN records'
      BY <1>1 DEF IInv, ServerInv, EntitiesInv
    <2> QED BY <2>1, <2>2, <2>3 DEF EntitiesInv
  <1> QED BY <1>1, <1>3, <1>4, <1>5 DEF IInv, ServerInv

-----------------------------------------------------------------------------
(***************************************************************************)
(* Steps that leave the server's side alone.                               *)
(***************************************************************************)
LEMMA ServerStays ==
    ASSUME IInv, UNCHANGED <<game, server, entities, records, moved>>
    PROVE  ServerInv'
PROOF
  <1>1. UNCHANGED <<born, freed, owned, entities_to_add, pending_spawns, ids,
                    server_spawned, bind_ids, entities, records, moved>>
    BY DEF game, server
  <1> QED BY <1>1 DEF IInv, ServerInv, RecordsInv, TreeInv, EntitiesInv

\* The client loads a placed node.
LEMMA ClientEntersHolds ==
    ASSUME IInv, NEW o \in PlacedSyncs, ClientEnters(o) PROVE IInv'
PROOF
  <1>1. /\ c_owned' = c_owned \cup {o} /\ o \in Syncs
        /\ UNCHANGED <<game, server, entities, records, moved>>
        /\ UNCHANGED <<born, freed, owned, entities_to_add, pending_spawns, ids>>
        /\ UNCHANGED <<server_spawned, bind_ids, spawn_acked, owed, peer, snapshot, ack>>
        /\ UNCHANGED <<c_ids, client_spawned, taken, unloaded>>
    BY NodesApart DEF ClientEnters, game, server, core, air, client, history
  <1>2. TypeOK' /\ OneToOne'
    BY <1>1 DEF IInv, TypeOK, OneToOne
  <1>3. NamesInv'
    BY <1>1 DEF IInv, NamesInv, OneName, OneId, Undrained, HandedOut, Claims, Used
  <1>4. ServerInv'
    BY <1>1, ServerStays
  <1>5. ClientInv'
    BY <1>1 DEF IInv, ClientInv, SnapshotInv, DespawnsInv, TakenInv, Placeable, BuiltAreSpawned
  <1> QED BY <1>2, <1>3, <1>4, <1>5 DEF IInv

\* The client unloads one, and forgets its id.
LEMMA ClientExitsHolds ==
    ASSUME IInv, NEW o \in PlacedSyncs, ClientExits(o) PROVE IInv'
PROOF
  <1> DEFINE x == Id(c_ids, o)
  <1>1. /\ c_owned' = c_owned \ {o} /\ o \in Syncs
        /\ c_ids' = Release(c_ids, o)
        /\ taken' = taken \ {x}
        /\ unloaded' = (unloaded \/ o \in DOMAIN c_ids.by_obj)
        /\ UNCHANGED <<game, server, entities, records, moved>>
        /\ UNCHANGED <<born, freed, owned, entities_to_add, pending_spawns, ids>>
        /\ UNCHANGED <<server_spawned, bind_ids, spawn_acked, owed, peer, snapshot, ack>>
        /\ UNCHANGED client_spawned
    BY NodesApart DEF ClientExits, game, server, core, air
  <1>2. IsIds(c_ids, Objects) /\ IsInverse(c_ids) /\ o \in Objects
    BY <1>1, NodesApart DEF IInv, TypeOK, OneToOne
  <1>3. /\ IsIds(c_ids', Objects) /\ IsInverse(c_ids')
        /\ DOMAIN c_ids'.by_id = DOMAIN c_ids.by_id \ {x}
        /\ \A i \in DOMAIN c_ids.by_id \ {x} : c_ids'.by_id[i] = c_ids.by_id[i]
    BY <1>1, <1>2, ReleaseFacts
  <1>4. \A i : i # x => Object(c_ids', i) = Object(c_ids, i)
    BY <1>3 DEF Object
  <1>5. x \in DOMAIN c_ids.by_id => Object(c_ids, x) = o
    BY <1>2, ObjectFacts DEF Id
  <1>6. o \notin DOMAIN c_ids.by_obj => x = 0
    BY DEF Id
  <1>7. 0 \notin DOMAIN c_ids.by_id
    BY <1>2 DEF IsIds
  <1> HIDE DEF x
  <1>8. TypeOK' /\ OneToOne'
    BY <1>1, <1>3 DEF IInv, TypeOK, OneToOne
  <1>9. NamesInv'
    <2>1. Called(c_ids') \subseteq Called(c_ids)
      BY <1>3, CalledShrinks
    <2>2. Claims' \subseteq Claims /\ Used' \subseteq Used
      BY <1>1, <2>1 DEF Claims, Used
    <2> QED BY <1>1, <2>2, NamesShrink DEF IInv
  <1>10. ServerInv'
    BY <1>1, ServerStays
  <1>11. SnapshotInv' /\ DespawnsInv'
    BY <1>1 DEF IInv, ClientInv, SnapshotInv, DespawnsInv
  <1>12. TakenInv'
    <2> SUFFICES ASSUME peer, ~unloaded' PROVE TakenInv'
      BY <1>1 DEF TakenInv
    <2>1. x = 0 /\ ~unloaded
      BY <1>1, <1>6
    <2>2. \A i : Object(c_ids', i) = Object(c_ids, i)
      BY <1>3, <1>7, <2>1 DEF Object
    <2>3. \A i \in DOMAIN records : i # 0
      BY DEF IInv, TypeOK, IsRecords
    <2>4. spawn_acked \subseteq DOMAIN records
      BY DEF IInv, TypeOK
    <2> QED BY <1>1, <2>1, <2>2, <2>3, <2>4 DEF IInv, ClientInv, TakenInv, Placeable
  <1>13. BuiltAreSpawned'
    <2> SUFFICES ASSUME NEW i \in client_spawned
                 PROVE  \E n \in born : Object(c_ids', i) = NodeOf(n)
      BY <1>1 DEF BuiltAreSpawned
    <2>1. PICK n \in born : Object(c_ids, i) = NodeOf(n)
      BY DEF IInv, ClientInv, BuiltAreSpawned
    <2>2. n \in Nodes
      BY DEF IInv, TypeOK
    <2>3. i \in DOMAIN c_ids.by_id
      BY <1>2, <2>1, <2>2, ObjectFacts, NodesApart, NoObjectAssumption
    <2>4. i # x
      BY <1>1, <1>5, <2>1, <2>2, <2>3, NodesApart
    <2> QED BY <1>4, <2>1, <2>4
  <1> QED BY <1>8, <1>9, <1>10, <1>11, <1>12, <1>13 DEF IInv, ClientInv

\* An acknowledgement arrives.
LEMMA AckArrivesHolds ==
    ASSUME IInv, AckArrives PROVE IInv'
PROOF
  <1>1. /\ ack' = Nothing
        /\ spawn_acked' = spawn_acked \cup (DOMAIN ack.records \cap DOMAIN records)
        /\ owed' = owed \ ack.despawns
        /\ UNCHANGED <<game, server, entities, records, moved>>
        /\ UNCHANGED <<born, freed, owned, entities_to_add, pending_spawns, ids>>
        /\ UNCHANGED <<server_spawned, bind_ids, peer, snapshot>>
        /\ UNCHANGED <<c_owned, c_ids, client_spawned, taken, unloaded>>
    BY DEF AckArrives, game, server, client, history
  <1>2. DOMAIN Nothing.records = {} /\ IsPacket(Nothing)
    BY DEF Nothing, NoMap, IsPacket, IsRecords
  <1>3. TypeOK' /\ OneToOne'
    BY <1>1, <1>2 DEF IInv, TypeOK, OneToOne
  <1>4. NamesInv'
    <2>1. Claims' = Claims /\ Used' \subseteq Used
      BY <1>1, <1>2 DEF Claims, Used
    <2> QED BY <1>1, <2>1, NamesShrink DEF IInv
  <1>5. ServerInv'
    BY <1>1, ServerStays
  <1>6. ClientInv'
    BY <1>1, <1>2 DEF IInv, ClientInv, SnapshotInv, DespawnsInv, TakenInv, Placeable, BuiltAreSpawned
  <1> QED BY <1>3, <1>4, <1>5, <1>6 DEF IInv

\* A snapshot or an acknowledgement is lost.
LEMMA LoseHolds ==
    ASSUME IInv, LoseSnapshot \/ LoseAck PROVE IInv'
PROOF
  <1>1. /\ snapshot' \in {snapshot, Nothing} /\ ack' \in {ack, Nothing}
        /\ UNCHANGED <<game, server, entities, records, moved>>
        /\ UNCHANGED <<born, freed, owned, entities_to_add, pending_spawns, ids>>
        /\ UNCHANGED <<server_spawned, bind_ids, spawn_acked, owed, peer>>
        /\ UNCHANGED <<c_owned, c_ids, client_spawned, taken, unloaded>>
    BY DEF LoseSnapshot, LoseAck, game, server, core, client, history
  <1>2. /\ DOMAIN Nothing.records = {} /\ Nothing.despawns = {} /\ IsPacket(Nothing)
        /\ Told(Nothing.records) = {}
    BY DEF Nothing, NoMap, IsPacket, IsRecords, Told, WithSync
  <1>3. TypeOK' /\ OneToOne'
    BY <1>1, <1>2 DEF IInv, TypeOK, OneToOne
  <1>4. NamesInv'
    <2>1. Claims' \subseteq Claims /\ Used' \subseteq Used
      BY <1>1, <1>2 DEF Claims, Used
    <2> QED BY <1>1, <2>1, NamesShrink DEF IInv
  <1>5. ServerInv'
    BY <1>1, ServerStays
  <1>6. ClientInv'
    BY <1>1, <1>2 DEF IInv, ClientInv, SnapshotInv, Distinct, DespawnsInv, TakenInv, Placeable,
                      BuiltAreSpawned
  <1> QED BY <1>3, <1>4, <1>5, <1>6 DEF IInv

\* Sessions begin and end.
LEMMA SessionHolds ==
    ASSUME IInv, Session PROVE IInv'
PROOF
  <1>1. /\ spawn_acked' = {} /\ owed' = {} /\ snapshot' = Nothing /\ ack' = Nothing
        /\ unloaded' = FALSE /\ peer' \in BOOLEAN
        /\ UNCHANGED <<game, server, entities, records, moved>>
        /\ UNCHANGED <<born, freed, owned, entities_to_add, pending_spawns, ids>>
        /\ UNCHANGED <<server_spawned, bind_ids>>
    BY DEF Session, Connect, Disconnect, ClientSwapsPeer, ForgetPeer, game, server
  <1>2. \/ /\ c_ids' = ForgetLearned(c_ids) /\ client_spawned' = {} /\ taken' = {}
           /\ c_owned' = c_owned \cap PlacedSyncs
        \/ /\ UNCHANGED <<c_ids, client_spawned, taken, c_owned>> /\ peer' = FALSE
    BY DEF Session, Connect, Disconnect, ClientSwapsPeer, ResetClient, client
  <1>3. IsIds(c_ids, Objects) /\ IsInverse(c_ids)
    BY DEF IInv, TypeOK, OneToOne
  <1>4. /\ IsIds(c_ids', Objects) /\ IsInverse(c_ids')
        /\ Called(c_ids') \subseteq Called(c_ids)
    <2> DEFINE learned == {i \in DOMAIN c_ids.by_id : c_ids.by_id[i].learned}
    <2>1. CASE c_ids' = c_ids
      BY <1>3, <2>1
    <2>2. CASE c_ids' = DropEach(c_ids, learned)
      <3> HIDE DEF learned
      <3>1. /\ IsIds(c_ids', Objects) /\ IsInverse(c_ids')
            /\ DOMAIN c_ids'.by_id \subseteq DOMAIN c_ids.by_id
            /\ \A i \in DOMAIN c_ids'.by_id : c_ids'.by_id[i] = c_ids.by_id[i]
        BY <1>3, <2>2, DropEachFacts
      <3> QED BY <3>1, CalledShrinks
    <2> QED BY <1>2, <2>1, <2>2 DEF ForgetLearned
  <1>5. /\ DOMAIN Nothing.records = {} /\ Nothing.despawns = {} /\ IsPacket(Nothing)
        /\ Told(Nothing.records) = {}
    BY DEF Nothing, NoMap, IsPacket, IsRecords, Told, WithSync
  <1>6. TypeOK' /\ OneToOne'
    BY <1>1, <1>2, <1>4, <1>5, NodesApart DEF IInv, TypeOK, OneToOne
  <1>7. NamesInv'
    <2>1. Claims' \subseteq Claims /\ Used' \subseteq Used
      BY <1>1, <1>2, <1>4, <1>5 DEF Claims, Used
    <2> QED BY <1>1, <2>1, NamesShrink DEF IInv
  <1>8. ServerInv'
    BY <1>1, ServerStays
  <1>9. SnapshotInv' /\ DespawnsInv' /\ TakenInv'
    BY <1>1, <1>2, <1>5 DEF SnapshotInv, Distinct, DespawnsInv, TakenInv
  <1>10. BuiltAreSpawned'
    BY <1>1, <1>2 DEF IInv, ClientInv, BuiltAreSpawned
  <1> QED BY <1>6, <1>7, <1>8, <1>9, <1>10 DEF IInv, ClientInv

-----------------------------------------------------------------------------
(***************************************************************************)
(* The snapshot on its way gives each node it names one id.                *)
(***************************************************************************)
LEMMA SnapshotFacts ==
    ASSUME IInv, NEW i \in DOMAIN snapshot.records
    PROVE  /\ i \in Nat \ {0} /\ snapshot.records[i] \in Record
           /\ IsBind(snapshot.records[i]) \/ IsSpawn(snapshot.records[i])
           /\ <<i, snapshot.records[i].node>> \in Told(snapshot.records)
           /\ \A j : <<j, snapshot.records[i].node>> \in Told(snapshot.records) => j = i
           /\ snapshot.records[i].sync # 0 =>
                 /\ IsSpawn(snapshot.records[i])
                 /\ <<snapshot.records[i].sync, SyncOf(snapshot.records[i].node[2])>>
                       \in Told(snapshot.records)
                 /\ \A j : <<j, SyncOf(snapshot.records[i].node[2])>> \in Told(snapshot.records)
                       => j = snapshot.records[i].sync
PROOF
  <1> DEFINE f == snapshot.records
  <1>1. /\ IsRecords(f) /\ Distinct(f)
    BY DEF IInv, TypeOK, IsPacket, ClientInv, SnapshotInv
  <1> HIDE DEF f
  <1> SUFFICES ASSUME i \in DOMAIN f
               PROVE  /\ i \in Nat \ {0} /\ f[i] \in Record
                      /\ IsBind(f[i]) \/ IsSpawn(f[i])
                      /\ <<i, f[i].node>> \in Told(f)
                      /\ \A j : <<j, f[i].node>> \in Told(f) => j = i
                      /\ f[i].sync # 0 =>
                            /\ IsSpawn(f[i])
                            /\ <<f[i].sync, SyncOf(f[i].node[2])>> \in Told(f)
                            /\ \A j : <<j, SyncOf(f[i].node[2])>> \in Told(f)
                                  => j = f[i].sync
    BY DEF f
  <1>2. i \in Nat \ {0} /\ f[i] \in Record /\ (IsBind(f[i]) \/ IsSpawn(f[i]))
    BY <1>1 DEF IsRecords, Distinct
  <1>3. \A k \in DOMAIN f : f[k].sync # 0 => IsSpawn(f[k])
    BY <1>1 DEF Distinct, IsBind
  <1>4. \A j, o : <<j, o>> \in Told(f) <=>
           \/ j \in DOMAIN f /\ o = f[j].node
           \/ \E k \in DOMAIN f : f[k].sync # 0 /\ j = f[k].sync /\ o = SyncOf(f[k].node[2])
    BY DEF Told, WithSync
  <1>5. \A k \in DOMAIN f : f[k].sync # 0 => f[i].node # SyncOf(f[k].node[2])
    BY <1>2, <1>3, NodesApart DEF IsBind, IsSpawn
  <1>6. ASSUME NEW j, <<j, f[i].node>> \in Told(f) PROVE j = i
    BY <1>1, <1>4, <1>5, <1>6 DEF Distinct
  <1>7. ASSUME f[i].sync # 0, NEW j, <<j, SyncOf(f[i].node[2])>> \in Told(f)
        PROVE  j = f[i].sync
    <2>1. PICK n \in Nodes : f[i].node = NodeOf(n)
      BY <1>3, <1>7 DEF IsSpawn
    <2>2. <<j, SyncOf(n)>> \in Told(f)
      BY <1>7, <2>1, NodesApart
    <2>3. ~(j \in DOMAIN f /\ SyncOf(n) = f[j].node)
      BY <1>1, NodesApart DEF Distinct, IsBind, IsSpawn
    <2>4. PICK k \in DOMAIN f : f[k].sync # 0 /\ j = f[k].sync /\ SyncOf(n) = SyncOf(f[k].node[2])
      BY <1>4, <2>2, <2>3
    <2>5. PICK h \in Nodes : f[k].node = NodeOf(h)
      BY <1>3, <2>4 DEF IsSpawn
    <2>6. h = n
      BY <2>4, <2>5, NodesApart
    <2>7. k = i
      BY <1>1, <2>1, <2>5, <2>6 DEF Distinct
    <2> QED BY <2>4, <2>7
  <1> QED BY <1>2, <1>3, <1>4, <1>6, <1>7

(***************************************************************************)
(* The ids that taking the records S of the snapshot binds.                *)
(***************************************************************************)
LEMMA BindingsFacts ==
    ASSUME IInv, NEW S \in SUBSET DOMAIN snapshot.records,
           NEW new, new = Bindings(snapshot.records, S)
    PROVE  /\ DOMAIN new \subseteq Nat \ {0}
           /\ \A j \in DOMAIN new : /\ new[j] \in Objects
                                    /\ <<j, new[j]>> \in Told(snapshot.records)
           /\ \A i, j \in DOMAIN new : new[i] = new[j] => i = j
           /\ \A i \in S : i \in DOMAIN new /\ new[i] = snapshot.records[i].node
           /\ \A i \in S : snapshot.records[i].sync # 0 =>
                 /\ snapshot.records[i].sync \in DOMAIN new
                 /\ new[snapshot.records[i].sync] = SyncOf(snapshot.records[i].node[2])
PROOF
  <1> DEFINE f == snapshot.records
             from(j) == CHOOSE i \in S : f[i].sync = j
  <1>1. /\ DOMAIN new = S \cup ({f[i].sync : i \in S} \ {0})
        /\ \A j \in DOMAIN new : new[j] = IF j \in S THEN f[j].node
                                          ELSE SyncOf(f[from(j)].node[2])
    BY DEF Bindings
  <1>2. \A i \in S : i \in DOMAIN f
    OBVIOUS
  <1>3. \A i \in S : /\ i \in Nat \ {0} /\ f[i].node \in Objects /\ f[i].sync \in Nat
                     /\ <<i, f[i].node>> \in Told(f)
                     /\ \A j : <<j, f[i].node>> \in Told(f) => j = i
    BY <1>2, SnapshotFacts DEF Record
  <1>4. ASSUME NEW i \in S, f[i].sync # 0
        PROVE  /\ SyncOf(f[i].node[2]) \in Objects
               /\ <<f[i].sync, SyncOf(f[i].node[2])>> \in Told(f)
               /\ \A j : <<j, SyncOf(f[i].node[2])>> \in Told(f) => j = f[i].sync
    <2>1. /\ IsSpawn(f[i])
          /\ <<f[i].sync, SyncOf(f[i].node[2])>> \in Told(f)
          /\ \A j : <<j, SyncOf(f[i].node[2])>> \in Told(f) => j = f[i].sync
      BY <1>2, <1>4, SnapshotFacts
    <2>2. SyncOf(f[i].node[2]) \in Objects
      BY <2>1, NodesApart DEF IsSpawn
    <2> QED BY <2>1, <2>2
  <1>5. ASSUME NEW j \in DOMAIN new \ S
        PROVE  \E k \in S : /\ f[k].sync = j /\ f[k].sync # 0
                            /\ new[j] = SyncOf(f[k].node[2])
    <2>1. \E k \in S : f[k].sync = j
      BY <1>1
    <2>2. from(j) \in S /\ f[from(j)].sync = j
      BY <2>1
    <2> QED BY <1>1, <2>2
  <1>6. Told(f) \subseteq Claims
    BY DEF Claims
  <1> HIDE DEF f, from
  <1>7. ASSUME NEW j \in DOMAIN new
        PROVE  new[j] \in Objects /\ <<j, new[j]>> \in Told(f)
    <2>1. CASE j \in S
      BY <1>1, <1>3, <2>1
    <2>2. CASE j \notin S
      BY <1>4, <1>5, <2>2
    <2> QED BY <2>1, <2>2
  <1>8. \A i, j \in DOMAIN new : new[i] = new[j] => i = j
    <2> SUFFICES ASSUME NEW i \in DOMAIN new, NEW j \in DOMAIN new, new[i] = new[j]
                 PROVE  i = j
      OBVIOUS
    <2>1. \A k : <<k, new[i]>> \in Told(f) => k = i
      <3>1. CASE i \in S
        BY <1>1, <1>3, <3>1
      <3>2. CASE i \notin S
        <4>1. PICK h \in S : f[h].sync = i /\ f[h].sync # 0 /\ new[i] = SyncOf(f[h].node[2])
          BY <1>5, <3>2
        <4> QED BY <1>4, <4>1
      <3> QED BY <3>1, <3>2
    <2> QED BY <1>7, <2>1
  <1>9. ASSUME NEW i \in S, f[i].sync # 0
        PROVE  /\ f[i].sync \in DOMAIN new
               /\ new[f[i].sync] = SyncOf(f[i].node[2])
    <2>1. f[i].sync \in DOMAIN new
      BY <1>1, <1>9
    <2>2. /\ <<f[i].sync, new[f[i].sync]>> \in Claims
          /\ <<f[i].sync, SyncOf(f[i].node[2])>> \in Claims
      BY <1>4, <1>6, <1>7, <1>9, <2>1
    <2> QED BY <2>1, <2>2 DEF IInv, NamesInv, OneName
  <1>10. \A i \in S : i \in DOMAIN new /\ new[i] = f[i].node
    BY <1>1
  <1>11. ASSUME NEW j \in DOMAIN new PROVE j \in Nat \ {0}
    <2>1. CASE j \in S
      BY <1>3, <2>1
    <2>2. CASE j \notin S
      <3>1. PICK k \in S : f[k].sync = j /\ f[k].sync # 0
        BY <1>5, <2>2
      <3> QED BY <1>3, <3>1
    <2> QED BY <2>1, <2>2
  <1> QED BY <1>7, <1>8, <1>9, <1>10, <1>11 DEF f

(***************************************************************************)
(* Taking records of the snapshot gives their nodes the ids they say, and  *)
(* leaves an id with its node if the snapshot says no other of that node.  *)
(***************************************************************************)
LEMMA TakingFacts ==
    ASSUME IInv, NEW S \in SUBSET DOMAIN snapshot.records,
           NEW m, IsIds(m, Objects), IsInverse(m), Called(m) \subseteq Claims,
           NEW b, b = BindEach(m, Bindings(snapshot.records, S))
    PROVE  /\ IsIds(b, Objects) /\ IsInverse(b) /\ Called(b) \subseteq Claims
           /\ \A i \in S : Object(b, i) = snapshot.records[i].node
           /\ \A i \in S : snapshot.records[i].sync # 0 =>
                 Object(b, snapshot.records[i].sync) = SyncOf(snapshot.records[i].node[2])
           /\ \A o \in Objects : \A i :
                 /\ Object(m, i) = o
                 /\ \A j : <<j, o>> \in Told(snapshot.records) => j = i
                 => Object(b, i) = o
PROOF
  <1> DEFINE new == Bindings(snapshot.records, S)
  <1>1. /\ DOMAIN new \subseteq Nat \ {0}
        /\ \A j \in DOMAIN new : /\ new[j] \in Objects
                                 /\ <<j, new[j]>> \in Told(snapshot.records)
        /\ \A i, j \in DOMAIN new : new[i] = new[j] => i = j
        /\ \A i \in S : i \in DOMAIN new /\ new[i] = snapshot.records[i].node
        /\ \A i \in S : snapshot.records[i].sync # 0 =>
              /\ snapshot.records[i].sync \in DOMAIN new
              /\ new[snapshot.records[i].sync] = SyncOf(snapshot.records[i].node[2])
    BY BindingsFacts
  <1>0. b = BindEach(m, new)
    OBVIOUS
  <1> HIDE DEF new
  <1>2. /\ IsIds(b, Objects) /\ IsInverse(b)
        /\ \A i \in DOMAIN new : i \in DOMAIN b.by_id /\ b.by_id[i].obj = new[i]
        /\ \A i \in DOMAIN b.by_id \ DOMAIN new :
              i \in DOMAIN m.by_id /\ b.by_id[i] = m.by_id[i]
        /\ \A i \in DOMAIN m.by_id \ DOMAIN new :
              (\A j \in DOMAIN new : new[j] # m.by_id[i].obj) => i \in DOMAIN b.by_id
    <2>1. /\ DOMAIN new \subseteq Nat \ {0}
          /\ \A i \in DOMAIN new : new[i] \in Objects
          /\ \A i, j \in DOMAIN new : new[i] = new[j] => i = j
      BY <1>1
    <2> QED BY ONLY <1>0, <2>1, IsIds(m, Objects), IsInverse(m), BindEachFacts
  <1>3. \A i \in DOMAIN new : Object(b, i) = new[i]
    BY <1>2 DEF Object
  <1>4. Told(snapshot.records) \subseteq Claims
    BY DEF Claims
  <1>5. Called(b) \subseteq Claims
    BY <1>1, <1>2, <1>4 DEF Called
  <1>6. ASSUME NEW o \in Objects, NEW i, Object(m, i) = o,
               \A j : <<j, o>> \in Told(snapshot.records) => j = i
        PROVE  Object(b, i) = o
    <2>1. i \in DOMAIN m.by_id /\ m.by_id[i].obj = o
      BY <1>6, NoObjectAssumption DEF Object
    <2>2. <<i, o>> \in Claims
      BY <2>1 DEF Called
    <2>3. CASE i \in DOMAIN new
      <3>1. <<i, new[i]>> \in Claims
        BY <1>1, <1>4, <2>3
      <3>2. new[i] = o
        BY <2>2, <3>1 DEF IInv, NamesInv, OneName
      <3> QED BY <1>3, <2>3, <3>2
    <2>4. CASE i \notin DOMAIN new
      <3>1. \A j \in DOMAIN new : new[j] # o
        BY <1>1, <1>6, <2>4
      <3>2. i \in DOMAIN b.by_id /\ b.by_id[i] = m.by_id[i]
        BY <1>2, <2>1, <2>4, <3>1
      <3> QED BY <2>1, <3>2 DEF Object
    <2> QED BY <2>3, <2>4
  <1> QED BY <1>1, <1>2, <1>3, <1>5, <1>6

(***************************************************************************)
(* Dropping the ids dead, and with a node's id its synchronizer's: what    *)
(* other ids name, and what their nodes' synchronizers go by, stays.       *)
(***************************************************************************)
WithSyncs(m, dead, D) ==
    /\ dead \subseteq D
    /\ \A i \in D \ dead : \E k \in Nodes :
          i = Id(m, SyncOf(k)) /\ \E h \in dead : Object(m, h) = NodeOf(k)

\* What dropping the dead ids and their synchronizers' leaves of a map.
LEMMA DespawnFacts ==
    ASSUME IInv, NEW m, IsIds(m, Objects), IsInverse(m), Called(m) \subseteq Claims,
           NEW dead, NEW D, WithSyncs(m, dead, D),
           NEW d, d = DropEach(m, D)
    PROVE  /\ IsIds(d, Objects) /\ IsInverse(d) /\ Called(d) \subseteq Called(m)
           /\ \A n \in Nodes : \A i : Object(m, i) = NodeOf(n) /\ i \notin dead
                 => Object(d, i) = NodeOf(n)
           /\ \A o \in PlacedSyncs \cup {Spawner} : \A i :
                 Object(m, i) = o /\ i \notin dead => Object(d, i) = o
           /\ \A n \in Nodes : \A i, j :
                 Object(m, i) = NodeOf(n) /\ i \notin dead
                 /\ Object(m, j) = SyncOf(n) /\ j \notin dead
                 => Object(d, j) = SyncOf(n)
           /\ \A i \in DOMAIN m.by_id \ DOMAIN d.by_id :
                 i \in dead \/ \E k \in Nodes : /\ Object(m, i) = SyncOf(k)
                                              /\ \E h \in dead : Object(m, h) = NodeOf(k)
           /\ \A i \in DOMAIN d.by_id : d.by_id[i] = m.by_id[i]
PROOF
  <1>1. /\ IsIds(d, Objects) /\ IsInverse(d)
        /\ DOMAIN d.by_id = DOMAIN m.by_id \ D
        /\ \A i \in DOMAIN m.by_id \ D : d.by_id[i] = m.by_id[i]
    BY ONLY d = DropEach(m, D), IsIds(m, Objects), IsInverse(m), DropEachFacts
  <1>2. \A i : i \notin D => Object(d, i) = Object(m, i)
    BY <1>1 DEF Object
  <1>3. Called(d) \subseteq Called(m)
    BY <1>1, CalledShrinks
  <1>5. ASSUME NEW i \in D, i \notin dead, i \in DOMAIN m.by_id
        PROVE  \E k \in Nodes : /\ Object(m, i) = SyncOf(k)
                                /\ \E h \in dead : Object(m, h) = NodeOf(k)
    <2>1. PICK k \in Nodes : i = Id(m, SyncOf(k)) /\ \E h \in dead : Object(m, h) = NodeOf(k)
      BY <1>5 DEF WithSyncs
    <2>2. SyncOf(k) \in DOMAIN m.by_obj
      BY <1>5, <2>1 DEF Id, IsIds
    <2>3. Object(m, i) = SyncOf(k)
      BY <2>1, <2>2 DEF Id, Object, IsInverse
    <2> QED BY <2>1, <2>3
  <1>6. \A o \in Objects : \A i : Object(m, i) = o => i \in DOMAIN m.by_id
    BY NoObjectAssumption DEF Object
  <1>7. ASSUME NEW o \in Objects, NEW i, Object(m, i) = o, i \notin dead,
               \A k \in Nodes : o # SyncOf(k)
        PROVE  Object(d, i) = o
    BY <1>2, <1>5, <1>6, <1>7
  <1>8. ASSUME NEW n \in Nodes, NEW i, NEW j,
               Object(m, i) = NodeOf(n), i \notin dead,
               Object(m, j) = SyncOf(n), j \notin dead
        PROVE  Object(d, j) = SyncOf(n)
    <2> SUFFICES ASSUME j \in D PROVE FALSE
      BY <1>2, <1>8
    <2>1. j \in DOMAIN m.by_id /\ i \in DOMAIN m.by_id
      BY <1>6, <1>8, NodesApart
    <2>2. PICK k \in Nodes : Object(m, j) = SyncOf(k) /\ \E h \in dead : Object(m, h) = NodeOf(k)
      BY <1>5, <1>8, <2>1
    <2>3. k = n
      BY <1>8, <2>2, NodesApart
    <2>4. PICK h \in dead : Object(m, h) = NodeOf(n)
      BY <2>2, <2>3
    <2>5. <<h, NodeOf(n)>> \in Claims /\ <<i, NodeOf(n)>> \in Claims
      BY <1>6, <1>8, <2>4, ObjectFacts, NodesApart
    <2>6. h = i
      BY <2>5 DEF IInv, NamesInv, OneId
    <2> QED BY <1>8, <2>4, <2>6
  <1>9. \A n \in Nodes : /\ NodeOf(n) \in Objects
                         /\ \A k \in Nodes : NodeOf(n) # SyncOf(k)
    BY NodesApart
  <1>10. \A o \in PlacedSyncs \cup {Spawner} : /\ o \in Objects
                                               /\ \A k \in Nodes : o # SyncOf(k)
    BY NodesApart
  <1>11. \A n \in Nodes : \A i : Object(m, i) = NodeOf(n) /\ i \notin dead
            => Object(d, i) = NodeOf(n)
    BY <1>7, <1>9
  <1>12. \A o \in PlacedSyncs \cup {Spawner} : \A i :
            Object(m, i) = o /\ i \notin dead => Object(d, i) = o
    BY <1>7, <1>10
  <1>13. \A i \in DOMAIN m.by_id \ DOMAIN d.by_id :
            i \in dead \/ \E k \in Nodes : /\ Object(m, i) = SyncOf(k)
                                         /\ \E h \in dead : Object(m, h) = NodeOf(k)
    BY <1>1, <1>5
  <1>14. \A i \in DOMAIN d.by_id : d.by_id[i] = m.by_id[i]
    BY <1>1
  <1> QED BY <1>1, <1>3, <1>8, <1>11, <1>12, <1>13, <1>14

(***************************************************************************)
(* What the client has taken, and the server still has, the snapshot says  *)
(* nothing else of.                                                        *)
(***************************************************************************)
LEMMA TakenFacts ==
    ASSUME IInv, peer, ~unloaded, NEW i \in taken \cap DOMAIN records
    PROVE  /\ Object(c_ids, i) = records[i].node
           /\ \A j : <<j, records[i].node>> \in Told(snapshot.records) => j = i
           /\ records[i].sync # 0 =>
                 /\ Object(c_ids, records[i].sync) = SyncOf(records[i].node[2])
                 /\ \A j : <<j, SyncOf(records[i].node[2])>> \in Told(snapshot.records)
                       => j = records[i].sync
PROOF
  <1> DEFINE f == snapshot.records
             r == records[i]
  <1>1. /\ Placeable(r, i)
        /\ \A j \in DOMAIN f : f[j].node = r.node => j = i
        /\ Distinct(f)
    BY DEF IInv, ClientInv, TakenInv, SnapshotInv
  <1>2. i \in DOMAIN f => f[i] = r
    BY DEF IInv, ClientInv, SnapshotInv
  <1>3. (IsBind(r) \/ IsSpawn(r)) /\ (r.sync # 0 => IsSpawn(r))
    BY RecordFacts
  <1> HIDE DEF f, r
  <1>4. \A j, o : <<j, o>> \in Told(f) <=>
           \/ j \in DOMAIN f /\ o = f[j].node
           \/ \E k \in DOMAIN f : f[k].sync # 0 /\ j = f[k].sync /\ o = SyncOf(f[k].node[2])
    BY DEF Told, WithSync
  <1>5. \A k \in DOMAIN f : f[k].sync # 0 => IsSpawn(f[k])
    BY <1>1 DEF Distinct, IsBind
  <1>6. ASSUME NEW j, <<j, r.node>> \in Told(f) PROVE j = i
    <2>1. \A k \in DOMAIN f : f[k].sync # 0 => r.node # SyncOf(f[k].node[2])
      BY <1>3, <1>5, NodesApart DEF IsBind, IsSpawn
    <2> QED BY <1>1, <1>4, <1>6, <2>1
  <1>7. ASSUME r.sync # 0, NEW j, <<j, SyncOf(r.node[2])>> \in Told(f)
        PROVE  j = r.sync
    <2>1. PICK n \in Nodes : r.node = NodeOf(n)
      BY <1>3, <1>7 DEF IsSpawn
    <2>2. <<j, SyncOf(n)>> \in Told(f)
      BY <1>7, <2>1, NodesApart
    <2>3. ~(j \in DOMAIN f /\ SyncOf(n) = f[j].node)
      BY <1>1, NodesApart DEF Distinct, IsBind, IsSpawn
    <2>4. PICK k \in DOMAIN f : f[k].sync # 0 /\ j = f[k].sync /\ SyncOf(n) = SyncOf(f[k].node[2])
      BY <1>4, <2>2, <2>3
    <2>5. PICK h \in Nodes : f[k].node = NodeOf(h)
      BY <1>5, <2>4 DEF IsSpawn
    <2>6. h = n
      BY <2>4, <2>5, NodesApart
    <2>7. k = i
      BY <1>1, <2>1, <2>5, <2>6
    <2> QED BY <1>2, <2>4, <2>7
  <1> QED BY <1>1, <1>6, <1>7 DEF f, r, Placeable

\* The client's map when it has taken the bind records S, then the spawn
\* records T, of the snapshot.
TakenBoth(S, T) ==
    BindEach(BindEach(c_ids, Bindings(snapshot.records, S)), Bindings(snapshot.records, T))

\* A snapshot's records come first, then its despawns.
LEMMA ApplySteps ==
    ASSUME Apply
    PROVE  \E S, T \in SUBSET (DOMAIN snapshot.records \ taken) :
              /\ c_ids' = Despawn(TakenBoth(S, T), snapshot.despawns)
              /\ \A i \in T : snapshot.records[i].spawner # 0
              /\ client_spawned' = (client_spawned \cup T) \ snapshot.despawns
              /\ c_owned' \subseteq c_owned \cup BuiltSyncs(TakenBoth(S, T), T)
              /\ taken' = (taken \cup S \cup T) \ snapshot.despawns
              /\ \/ ack' = ack
                 \/ ack' = snapshot /\ DOMAIN snapshot.records \ taken \subseteq S \cup T
PROOF
  <1> DEFINE f     == snapshot.records
             dead  == snapshot.despawns
             new   == DOMAIN f \ taken
             binds == {i \in new : BindTakes(f[i])}
             early == {i \in new : SpawnTakes(c_ids, f[i])}
             ready == {i \in new : SpawnTakes(BindEach(c_ids, Bindings(f, binds)), f[i])}
  <1>1. PICK T \in {early, ready} : \E built \in {TakenBoth(binds, T)} :
           /\ c_ids' = Despawn(built, dead)
           /\ client_spawned' = (client_spawned \cup T) \ dead
           /\ c_owned' = (c_owned \cup BuiltSyncs(built, T))
                           \ BuiltSyncs(built, dead \cap client_spawned)
           /\ taken' = (taken \cup binds \cup T) \ dead
           /\ ack' = IF new \subseteq binds \cup T THEN snapshot ELSE ack
    BY DEF Apply, TakenBoth
  <1>2. \A i \in T : i \in new /\ f[i].spawner # 0
    BY DEF SpawnTakes
  <1> binds \in SUBSET new /\ T \in SUBSET new
    BY <1>2
  <1> HIDE DEF binds, early, ready
  <1> WITNESS binds \in SUBSET (DOMAIN snapshot.records \ taken),
              T \in SUBSET (DOMAIN snapshot.records \ taken)
  <1> QED BY <1>1, <1>2

\* The client takes a snapshot: records, then despawns.
LEMMA ApplyHolds ==
    ASSUME IInv, Apply PROVE IInv'
PROOF
  <1> DEFINE f == snapshot.records
             dead == snapshot.despawns
  <1>1. PICK S \in SUBSET (DOMAIN f \ taken), T \in SUBSET (DOMAIN f \ taken) :
           /\ c_ids' = Despawn(TakenBoth(S, T), dead)
           /\ \A i \in T : f[i].spawner # 0
           /\ client_spawned' = (client_spawned \cup T) \ dead
           /\ c_owned' \subseteq c_owned \cup BuiltSyncs(TakenBoth(S, T), T)
           /\ taken' = (taken \cup S \cup T) \ dead
           /\ ack' = ack \/ (ack' = snapshot /\ DOMAIN f \ taken \subseteq S \cup T)
    BY ApplySteps
  <1> DEFINE bound == BindEach(c_ids, Bindings(f, S))
             built == BindEach(bound, Bindings(f, T))
             syncs == BuiltSyncs(built, dead \cap client_spawned)
             D     == dead \cup {Id(built, o) : o \in syncs}
  <1>a. built = TakenBoth(S, T) /\ c_ids' = DropEach(built, D)
    BY <1>1 DEF Despawn, TakenBoth
  <1>b. /\ client_spawned' = (client_spawned \cup T) \ dead
        /\ c_owned' \subseteq c_owned \cup BuiltSyncs(built, T)
        /\ taken' = (taken \cup S \cup T) \ dead
        /\ ack' = ack \/ (ack' = snapshot /\ DOMAIN f \ taken \subseteq S \cup T)
        /\ S \in SUBSET DOMAIN f /\ T \in SUBSET DOMAIN f
    BY <1>1, <1>a
  <1>c. /\ bound = BindEach(c_ids, Bindings(snapshot.records, S))
        /\ built = BindEach(bound, Bindings(snapshot.records, T))
    OBVIOUS
  <1> HIDE DEF bound, built, syncs, D
  <1>2. /\ snapshot' = Nothing /\ peer
        /\ UNCHANGED <<game, server, entities, records, moved>>
        /\ UNCHANGED <<born, freed, owned, entities_to_add, pending_spawns, ids>>
        /\ UNCHANGED <<server_spawned, bind_ids, spawn_acked, owed, peer, unloaded>>
    BY DEF Apply, game, server, core, history
  <1>3. IsIds(c_ids, Objects) /\ IsInverse(c_ids) /\ Called(c_ids) \subseteq Claims
    BY DEF IInv, TypeOK, OneToOne, Claims
  <1>4. /\ IsIds(bound, Objects) /\ IsInverse(bound) /\ Called(bound) \subseteq Claims
        /\ \A i \in S : Object(bound, i) = f[i].node
        /\ \A i \in S : f[i].sync # 0 => Object(bound, f[i].sync) = SyncOf(f[i].node[2])
        /\ \A o \in Objects : \A i :
              /\ Object(c_ids, i) = o
              /\ \A j : <<j, o>> \in Told(f) => j = i
              => Object(bound, i) = o
    <2>1. S \in SUBSET DOMAIN snapshot.records
      BY <1>b
    <2> QED BY ONLY IInv, <1>3, <1>c, <2>1, TakingFacts
  <1>5. /\ IsIds(built, Objects) /\ IsInverse(built) /\ Called(built) \subseteq Claims
        /\ \A i \in T : Object(built, i) = f[i].node
        /\ \A i \in T : f[i].sync # 0 => Object(built, f[i].sync) = SyncOf(f[i].node[2])
        /\ \A o \in Objects : \A i :
              /\ Object(bound, i) = o
              /\ \A j : <<j, o>> \in Told(f) => j = i
              => Object(built, i) = o
    <2>1. T \in SUBSET DOMAIN snapshot.records
      BY <1>b
    <2>2. IsIds(bound, Objects) /\ IsInverse(bound) /\ Called(bound) \subseteq Claims
      BY <1>4
    <2> QED BY ONLY IInv, <1>c, <2>1, <2>2, TakingFacts
  <1>6. /\ IsIds(c_ids', Objects) /\ IsInverse(c_ids') /\ Called(c_ids') \subseteq Called(built)
        /\ \A n \in Nodes : \A i : Object(built, i) = NodeOf(n) /\ i \notin dead
              => Object(c_ids', i) = NodeOf(n)
        /\ \A o \in PlacedSyncs \cup {Spawner} : \A i :
              Object(built, i) = o /\ i \notin dead => Object(c_ids', i) = o
        /\ \A n \in Nodes : \A i, j :
              Object(built, i) = NodeOf(n) /\ i \notin dead
              /\ Object(built, j) = SyncOf(n) /\ j \notin dead
              => Object(c_ids', j) = SyncOf(n)
    <2>1. \A o \in syncs : \E k \in Nodes : /\ o = SyncOf(k)
                                            /\ \E h \in dead : Object(built, h) = NodeOf(k)
      BY DEF BuiltSyncs, syncs
    <2> DEFINE d == DropEach(built, D)
    <2>2. d = DropEach(built, D)
      OBVIOUS
    <2>3. \A i \in D \ dead : \E o \in syncs : i = Id(built, o)
      BY DEF D
    <2>4. dead \subseteq D
      BY DEF D
    <2>5. WithSyncs(built, dead, D)
      BY <2>1, <2>3, <2>4 DEF WithSyncs
    <2>6. IsIds(built, Objects) /\ IsInverse(built) /\ Called(built) \subseteq Claims
      BY <1>5
    <2> HIDE DEF dead, d
    <2>7. /\ IsIds(d, Objects) /\ IsInverse(d) /\ Called(d) \subseteq Called(built)
          /\ \A n \in Nodes : \A i : Object(built, i) = NodeOf(n) /\ i \notin dead
                => Object(d, i) = NodeOf(n)
          /\ \A o \in PlacedSyncs \cup {Spawner} : \A i :
                Object(built, i) = o /\ i \notin dead => Object(d, i) = o
          /\ \A n \in Nodes : \A i, j :
                Object(built, i) = NodeOf(n) /\ i \notin dead
                /\ Object(built, j) = SyncOf(n) /\ j \notin dead
                => Object(d, j) = SyncOf(n)
      BY ONLY IInv, <2>2, <2>5, <2>6, DespawnFacts
    <2>8. c_ids' = d
      BY <1>a DEF d
    <2> QED BY <2>7, <2>8
  <1>7. \A o \in Objects : \A i :
           /\ Object(c_ids, i) = o
           /\ \A j : <<j, o>> \in Told(f) => j = i
           => Object(built, i) = o
    BY <1>4, <1>5
  <1>8. S \subseteq DOMAIN f \ taken /\ T \subseteq DOMAIN f \ taken
    BY <1>b
  <1>9. \A i \in DOMAIN f : i \in Nat \ {0} /\ <<i, f[i].node>> \in Claims
    BY SnapshotFacts DEF Claims
  <1>10. /\ DOMAIN Nothing.records = {} /\ Nothing.despawns = {} /\ IsPacket(Nothing)
         /\ Told(Nothing.records) = {}
    BY DEF Nothing, NoMap, IsPacket, IsRecords, Told, WithSync
  <1>11. BuiltSyncs(built, T) \subseteq Syncs
    BY NodesApart DEF BuiltSyncs
  <1>12. TypeOK' /\ OneToOne'
    <2>1. client_spawned' \subseteq Nat /\ taken' \subseteq Nat /\ c_owned' \subseteq Syncs
      BY <1>b, <1>8, <1>9, <1>11 DEF IInv, TypeOK
    <2>2. IsPacket(snapshot') /\ IsPacket(ack')
      BY <1>b, <1>2, <1>10 DEF IInv, TypeOK
    <2> QED BY <1>2, <1>6, <2>1, <2>2 DEF IInv, TypeOK, OneToOne
  <1>13. NamesInv'
    <2>1. Claims' \subseteq Claims
      BY <1>2, <1>5, <1>6, <1>10 DEF Claims
    <2>2. ASSUME NEW i \in DOMAIN f PROVE i \in {c[1] : c \in Claims}
      <3>1. <<i, f[i].node>>[1] = i
        OBVIOUS
      <3> QED BY <1>9, <3>1
    <2>3. Used' \subseteq Used \cup DOMAIN f
      <3>1. taken' \subseteq taken \cup DOMAIN f
        BY <1>b, <1>8
      <3>2. DOMAIN ack'.records \subseteq DOMAIN ack.records \cup DOMAIN f
        BY <1>b
      <3> QED BY <1>2, <1>10, <3>1, <3>2 DEF Used
    <2>4. Used' \subseteq Used \cup {c[1] : c \in Claims}
      BY <2>2, <2>3
    <2>5. ids'.next = ids.next /\ born \ pending_spawns \subseteq (born \ pending_spawns)'
      BY <1>2
    <2> QED BY <2>1, <2>4, <2>5, NamesShrink DEF IInv
  <1>14. ServerInv'
    BY <1>2, ServerStays
  <1>15. SnapshotInv'
    BY <1>2, <1>10 DEF SnapshotInv, Distinct
  <1>16. DespawnsInv'
    BY <1>2, <1>10 DEF IInv, ClientInv, DespawnsInv
  <1>17. \A i \in DOMAIN records : i \notin dead /\ (records[i].sync # 0 => records[i].sync \notin dead)
    BY DEF IInv, ClientInv, DespawnsInv
  <1>18. \A i \in DOMAIN records \cap DOMAIN f : records[i] = f[i]
    BY DEF IInv, ClientInv, SnapshotInv
  <1>c1. \A r : IsSpawn(r) => SyncOf(r.node[2]) \in Objects
    BY NodesApart DEF IsSpawn
  <1>19. ASSUME NEW i \in DOMAIN records, Object(built, i) = records[i].node,
                records[i].sync # 0 => Object(built, records[i].sync) = SyncOf(records[i].node[2])
         PROVE  Placeable(records[i], i)'
    <2>1. IsBind(records[i]) \/ IsSpawn(records[i])
      BY RecordFacts
    <2>2. CASE IsBind(records[i])
      BY <1>2, <1>6, <1>17, <1>19, <2>2 DEF IsBind, Placeable
    <2>3. CASE IsSpawn(records[i])
      <3>1. PICK n \in Nodes : records[i].node = NodeOf(n) /\ records[i].node[2] = n
        BY <2>3, NodesApart DEF IsSpawn
      <3>2. Object(c_ids', i) = NodeOf(n)
        BY <1>6, <1>17, <1>19, <3>1
      <3>3. records[i].sync # 0 => Object(c_ids', records[i].sync) = SyncOf(n)
        BY <1>6, <1>17, <1>19, <3>1
      <3> QED BY <1>2, <3>1, <3>2, <3>3 DEF Placeable
    <2> QED BY <2>1, <2>2, <2>3
  <1>20. ASSUME NEW i \in S \cup T
         PROVE  /\ Object(built, i) = f[i].node
                /\ f[i].sync # 0 => Object(built, f[i].sync) = SyncOf(f[i].node[2])
    <2>1. CASE i \in T
      BY <1>5, <2>1
    <2>2. CASE i \in S
      <3>1. i \in DOMAIN f
        BY <1>8, <2>2
      <3>2. /\ f[i].node \in Objects
            /\ \A j : <<j, f[i].node>> \in Told(f) => j = i
            /\ f[i].sync # 0 =>
                  /\ SyncOf(f[i].node[2]) \in Objects
                  /\ \A j : <<j, SyncOf(f[i].node[2])>> \in Told(f) => j = f[i].sync
        <4>1. f[i].node \in Objects
          BY <3>1, SnapshotFacts DEF Record
        <4>2. f[i].sync # 0 => SyncOf(f[i].node[2]) \in Objects
          BY <1>c1, <3>1, SnapshotFacts
        <4> QED BY <3>1, <4>1, <4>2, SnapshotFacts
      <3> QED BY <1>4, <1>5, <2>2, <3>2
    <2> QED BY <2>1, <2>2
  <1>21. TakenInv'
    <2> SUFFICES ASSUME ~unloaded
                 PROVE  /\ spawn_acked \subseteq taken'
                        /\ DOMAIN ack'.records \cap DOMAIN records \subseteq taken'
                        /\ \A i \in taken' \cap DOMAIN records : Placeable(records[i], i)'
      BY <1>2, <1>10 DEF TakenInv, Placeable
    <2>1. /\ spawn_acked \subseteq taken /\ spawn_acked \subseteq DOMAIN records
          /\ DOMAIN ack.records \cap DOMAIN records \subseteq taken
      BY <1>2 DEF IInv, TypeOK, ClientInv, TakenInv
    <2>2. spawn_acked \subseteq taken'
      BY <1>b, <1>17, <2>1
    <2>3. DOMAIN ack'.records \cap DOMAIN records \subseteq taken'
      BY <1>b, <1>17, <2>1
    <2>4. ASSUME NEW i \in taken' \cap DOMAIN records
          PROVE  Placeable(records[i], i)'
      <3>1. CASE i \in S \cup T
        <4>1. f[i] = records[i]
          BY <1>8, <1>18, <2>4, <3>1
        <4> QED BY <1>19, <1>20, <2>4, <3>1, <4>1
      <3>2. CASE i \in taken
        <4>1. /\ Object(c_ids, i) = records[i].node
              /\ \A j : <<j, records[i].node>> \in Told(f) => j = i
              /\ records[i].sync # 0 =>
                    /\ Object(c_ids, records[i].sync) = SyncOf(records[i].node[2])
                    /\ \A j : <<j, SyncOf(records[i].node[2])>> \in Told(f)
                          => j = records[i].sync
          BY <1>2, <2>4, <3>2, TakenFacts
        <4>2. /\ records[i].node \in Objects
              /\ records[i].sync # 0 => SyncOf(records[i].node[2]) \in Objects
          <5>1. records[i].node \in Objects
            BY <2>4, RecordFacts DEF Record
          <5>2. records[i].sync # 0 => SyncOf(records[i].node[2]) \in Objects
            BY <1>c1, <2>4, RecordFacts
          <5> QED BY <5>1, <5>2
        <4> QED BY <1>7, <1>19, <2>4, <4>1, <4>2
      <3> QED BY <1>b, <2>4, <3>1, <3>2
    <2> QED BY <2>2, <2>3, <2>4
  <1>22. BuiltAreSpawned'
    <2> SUFFICES ASSUME NEW i \in client_spawned \cup T, i \notin dead
                 PROVE  \E n \in born : Object(c_ids', i) = NodeOf(n)
      BY <1>b, <1>2 DEF BuiltAreSpawned
    <2>0. born \subseteq Nodes
      BY DEF IInv, TypeOK
    <2>1. CASE i \in T
      <3>1. i \in DOMAIN f /\ f[i].spawner # 0
        BY <1>1, <1>8, <2>1
      <3>2. PICK n \in Nodes : f[i].node = NodeOf(n)
        BY <3>1, SnapshotFacts DEF IsBind, IsSpawn
      <3>3. <<i, NodeOf(n)>> \in Claims
        BY <1>9, <3>1, <3>2
      <3>4. n \in born
        BY <3>3 DEF IInv, NamesInv, Undrained
      <3> QED BY <1>5, <1>6, <2>1, <3>2, <3>4
    <2>2. CASE i \in client_spawned
      <3>1. PICK n \in born : Object(c_ids, i) = NodeOf(n)
        BY <2>2 DEF IInv, ClientInv, BuiltAreSpawned
      <3>2. n \in Nodes /\ NodeOf(n) \in Objects
        BY <2>0, NodesApart
      <3>3. i \in DOMAIN c_ids.by_id
        BY <3>1, <3>2, NoObjectAssumption DEF Object
      <3>4. <<i, NodeOf(n)>> \in Claims
        BY <1>3, <3>1, <3>3, ObjectFacts
      <3>5. \A j : <<j, NodeOf(n)>> \in Told(f) => j = i
        <4>1. Told(f) \subseteq Claims
          BY DEF Claims
        <4> QED BY <3>2, <3>4, <4>1 DEF IInv, NamesInv, OneId
      <3>6. Object(built, i) = NodeOf(n)
        BY <1>7, <3>1, <3>2, <3>5
      <3> QED BY <1>6, <3>2, <3>6
    <2> QED BY <2>1, <2>2
  <1> QED BY <1>12, <1>13, <1>14, <1>15, <1>16, <1>21, <1>22 DEF IInv, ClientInv

-----------------------------------------------------------------------------
LEMMA FiniteObjects == IsFiniteSet(Objects)
PROOF
  <1> DEFINE N == {NodeOf(n) : n \in Nodes}
             Y == {SyncOf(n) : n \in Nodes}
             node   == [n \in Nodes |-> NodeOf(n)]
             sync   == [n \in Nodes |-> SyncOf(n)]
             placed == [p \in Placed |-> <<"placed", p>>]
  <1>1. node \in Surjection(Nodes, N) /\ sync \in Surjection(Nodes, Y)
    BY DEF Surjection
  <1>2. placed \in Surjection(Placed, PlacedSyncs)
    BY DEF Surjection, PlacedSyncs
  <1> HIDE DEF node, sync, placed
  <1>3. IsFiniteSet(N) /\ IsFiniteSet(Y) /\ IsFiniteSet(PlacedSyncs)
    BY <1>1, <1>2, SetsAssumption, FS_Surjection
  <1>4. IsFiniteSet({Spawner})
    BY FS_Singleton
  <1>5. Objects = (({Spawner} \cup PlacedSyncs) \cup Y) \cup N
    BY DEF Objects, Syncs
  <1> HIDE DEF N, Y
  <1>6. IsFiniteSet({Spawner} \cup PlacedSyncs)
    BY <1>3, <1>4, FS_Union
  <1>7. IsFiniteSet(({Spawner} \cup PlacedSyncs) \cup Y)
    BY <1>3, <1>6, FS_Union
  <1>8. IsFiniteSet((({Spawner} \cup PlacedSyncs) \cup Y) \cup N)
    BY <1>3, <1>7, FS_Union
  <1> QED BY <1>5, <1>8

\* What the core is handed in a poll, and all that the poll gives an id.
Adding(ticks)   == IF ticks THEN entities_to_add ELSE {}
Numbered(ticks) == DrainObjects \cup Adding(ticks)

(***************************************************************************)
(* The ids a poll takes are those of nodes the game freed; those it hands  *)
(* out are new, and are of nodes that had none.                            *)
(***************************************************************************)
LEMMA PollIds ==
    ASSUME IInv, NEW ticks \in BOOLEAN, ServerPoll(ticks)
    PROVE  /\ IsIds(ids', Objects) /\ IsInverse(ids')
           /\ \A i \in DOMAIN ids'.by_id : i < ids'.next
           /\ ids.next <= ids'.next
           /\ \A o \in DOMAIN ids'.by_obj :
                 o \in DOMAIN ids.by_obj \/ o \in Numbered(ticks)
           /\ \A o \in Numbered(ticks) : o \in DOMAIN ids'.by_obj
           /\ \A o \in DOMAIN ids.by_obj : ids.by_obj[o] \notin Gone(server_spawned) =>
                 o \in DOMAIN ids'.by_obj /\ ids'.by_obj[o] = ids.by_obj[o]
           /\ \A i \in DOMAIN ids'.by_id :
                 \/ i \in DOMAIN ids.by_id /\ Object(ids', i) = Object(ids, i)
                 \/ /\ i >= ids.next /\ Object(ids', i) \in Numbered(ticks)
                    /\ Object(ids', i) \notin DOMAIN ids.by_obj
           /\ \A i \in Gone(server_spawned) :
                 i \in DOMAIN records /\ \E n \in freed : Object(ids, i) = NodeOf(n)
PROOF
  <1> DEFINE gone == Gone(server_spawned)
             d    == DropEach(ids, gone)
             N    == Numbered(ticks)
  <1>1. IsIds(ids, Objects) /\ IsInverse(ids)
    BY DEF IInv, TypeOK, OneToOne
  <1>2. PICK num \in Numberings(ids, N) : ids' = AssignEach(d, num)
    BY DEF ServerPoll, Numbered, Adding
  <1>3. \A i \in gone : i \in DOMAIN records /\ \E n \in freed : Object(ids, i) = NodeOf(n)
    BY DEF Gone, IInv, ServerInv, RecordsInv
  <1>4. N \subseteq Objects /\ \A n \in freed : NodeOf(n) \notin N
    <2>1. /\ freed \subseteq Nodes /\ Drained \subseteq Nodes /\ Drained \cap freed = {}
          /\ Adding(ticks) \subseteq Syncs
      BY DEF IInv, TypeOK, Drained, Adding
    <2>2. \A o \in N : \/ o = Spawner \/ o \in Syncs
                       \/ \E n \in Drained : o = NodeOf(n) \/ o = SyncOf(n)
      BY <2>1 DEF Numbered, DrainObjects
    <2> QED BY <2>1, <2>2, NodesApart
  <1>5. IsFiniteSet(N)
    BY <1>4, FiniteObjects, FS_Subset
  <1> HIDE DEF gone, N
  <1>6. /\ IsIds(d, Objects) /\ IsInverse(d) /\ d.next = ids.next
        /\ DOMAIN d.by_id = DOMAIN ids.by_id \ gone
        /\ \A i \in DOMAIN ids.by_id \ gone : d.by_id[i] = ids.by_id[i]
        /\ DOMAIN d.by_obj = {o \in DOMAIN ids.by_obj : ids.by_obj[o] \notin gone}
        /\ \A o \in DOMAIN d.by_obj : d.by_obj[o] = ids.by_obj[o]
    BY <1>1, DropEachFacts
  <1> HIDE DEF d
  <1>7. \A o \in N : o \in DOMAIN ids.by_obj => o \in DOMAIN d.by_obj
    <2> SUFFICES ASSUME NEW o \in N, o \in DOMAIN ids.by_obj, ids.by_obj[o] \in gone
                 PROVE  FALSE
      BY <1>6
    <2>1. Object(ids, ids.by_obj[o]) = o
      BY <1>1, <1>4, ObjectFacts
    <2> QED BY <1>3, <1>4, <2>1
  <1>8. Unnumbered(d, N) = Unnumbered(ids, N)
    BY <1>6, <1>7 DEF Unnumbered
  <1>9. num \in Numberings(d, N)
    BY <1>2, <1>6, <1>8 DEF Numberings
  <1>10. \A i \in DOMAIN ids.by_id : i < ids.next
    <2>1. \A i \in DOMAIN ids.by_id : <<i, Object(ids, i)>> \in Claims
      BY <1>1, ObjectFacts DEF Claims
    <2> QED BY <2>1 DEF IInv, NamesInv, HandedOut
  <1>11. \A i \in DOMAIN d.by_id : i < d.next
    BY <1>6, <1>10
  <1>12. /\ IsIds(ids', Objects) /\ IsInverse(ids')
         /\ ids'.next >= d.next
         /\ \A i \in DOMAIN ids'.by_id : i < ids'.next
         /\ \A i \in DOMAIN ids'.by_id \ DOMAIN d.by_id : i >= d.next
         /\ DOMAIN ids'.by_obj = DOMAIN d.by_obj \cup N
         /\ \A o \in DOMAIN d.by_obj : ids'.by_obj[o] = d.by_obj[o]
    BY <1>2, <1>4, <1>5, <1>6, <1>9, <1>11, AssignEachFacts
  <1>13. ids.next <= ids'.next
    BY <1>1, <1>6, <1>12 DEF IsIds
  <1>14. \A o \in DOMAIN ids.by_obj : ids.by_obj[o] \notin gone =>
            o \in DOMAIN ids'.by_obj /\ ids'.by_obj[o] = ids.by_obj[o]
    BY <1>6, <1>12
  <1>15. ASSUME NEW i \in DOMAIN ids'.by_id
         PROVE  \/ i \in DOMAIN ids.by_id /\ Object(ids', i) = Object(ids, i)
                \/ /\ i >= ids.next /\ Object(ids', i) \in N
                   /\ Object(ids', i) \notin DOMAIN ids.by_obj
    <2> DEFINE o == Object(ids', i)
    <2>1. o \in Objects /\ o \in DOMAIN ids'.by_obj /\ ids'.by_obj[o] = i
      BY <1>12, ObjectFacts
    <2>2. CASE o \in DOMAIN d.by_obj
      <3>1. d.by_obj[o] = i
        BY <1>12, <2>1, <2>2
      <3>2. o \in DOMAIN ids.by_obj /\ ids.by_obj[o] = i
        BY <1>6, <2>2, <3>1
      <3> QED BY <1>1, <2>1, <3>2, ObjectFacts, NoObjectAssumption DEF Object
    <2>3. CASE o \notin DOMAIN d.by_obj
      <3>1. o \in N /\ o \notin DOMAIN ids.by_obj
        BY <1>7, <1>12, <2>1, <2>3
      <3>2. i \notin DOMAIN d.by_id
        <4> SUFFICES ASSUME i \in DOMAIN d.by_id PROVE FALSE
          OBVIOUS
        <4>1. Object(d, i) \in DOMAIN d.by_obj /\ d.by_obj[Object(d, i)] = i
          BY <1>6, ObjectFacts
        <4>2. ids'.by_obj[Object(d, i)] = i /\ Object(d, i) \in DOMAIN ids'.by_obj
          BY <1>12, <4>1
        <4>3. Object(d, i) = o
          BY <1>12, <2>1, <4>2, ObjectFacts
        <4> QED BY <2>3, <4>1, <4>3
      <3>3. i >= ids.next
        BY <1>6, <1>12, <3>2
      <3> QED BY <3>1, <3>3
    <2> QED BY <2>2, <2>3
  <1>16. \A o \in DOMAIN ids'.by_obj : o \in DOMAIN ids.by_obj \/ o \in N
    BY <1>6, <1>12
  <1>17. \A o \in N : o \in DOMAIN ids'.by_obj
    BY <1>12
  <1> QED BY <1>3, <1>12, <1>13, <1>14, <1>15, <1>16, <1>17 DEF gone, N

\* The record of a node that the poll drained: it names the synchronizer under
\* it, if that is still there, by an id of the same poll.
IsDrainRecord(r, n) ==
    /\ r \in Record /\ r.spawner # 0 /\ r.node = NodeOf(n)
    /\ IF SyncOf(n) \in owned
       THEN SyncOf(n) \in DOMAIN ids'.by_obj /\ r.sync = ids'.by_obj[SyncOf(n)]
       ELSE r.sync = 0

(***************************************************************************)
(* The records of freed nodes go; new ones, under new ids, are the bind    *)
(* records of the placed synchronizers the core is handed and, once, of    *)
(* the spawner, and the spawn records of the nodes drained.                *)
(***************************************************************************)
LEMMA PollRecords ==
    ASSUME IInv, NEW ticks \in BOOLEAN, ServerPoll(ticks)
    PROVE  /\ \A i \in DOMAIN records \ Gone(server_spawned) :
                 i \in DOMAIN records' /\ records'[i] = records[i]
           /\ \A i \in DOMAIN records' :
                 \/ i \in DOMAIN records \ Gone(server_spawned)
                 \/ /\ i >= ids.next /\ i \in DOMAIN ids'.by_id
                    /\ Object(ids', i) = records'[i].node /\ records'[i] \in Record
                    /\ \/ IsBind(records'[i])
                       \/ \E n \in Drained : IsDrainRecord(records'[i], n)
           /\ \A o \in DOMAIN ids'.by_obj :
                 o = Spawner \/ (o \in PlacedSyncs /\ o \in Adding(ticks))
                    => ids'.by_obj[o] \in DOMAIN records'
           /\ \A n \in Drained :
                 /\ NodeOf(n) \in DOMAIN ids'.by_obj
                 /\ ids'.by_obj[NodeOf(n)] \in server_spawned'
                 /\ ids'.by_obj[NodeOf(n)] \in DOMAIN records'
                 /\ IsDrainRecord(records'[ids'.by_obj[NodeOf(n)]], n)
           /\ \A i \in server_spawned' :
                 \/ i \in server_spawned \ Gone(server_spawned)
                 \/ \E n \in Drained : i = ids'.by_obj[NodeOf(n)]
           /\ \A i \in server_spawned \ Gone(server_spawned) : i \in server_spawned'
           /\ records' = [i \in DOMAIN records' |-> records'[i]]
PROOF
  <1> DEFINE gone   == Gone(server_spawned)
             live   == DOMAIN records \ gone
             adding == Adding(ticks)
             spawns == {Id(ids', NodeOf(n)) : n \in Drained}
             placed == {o \in adding : ~UnderSpawned(ids', server_spawned', o)}
             binds  == {Id(ids', o) : o \in placed \cup (DrainObjects \cap {Spawner})}
             rec(i) == IF i \in live THEN records[i]
                       ELSE IF i \in binds THEN BindRecord(Object(ids', i))
                       ELSE SpawnRecord(ids', Object(ids', i)[2])
  <1>1. /\ records' = [i \in live \cup binds \cup spawns |-> rec(i)]
        /\ server_spawned' = (server_spawned \ gone) \cup spawns
    BY DEF ServerPoll, Adding
  <1>2. /\ IsIds(ids', Objects) /\ IsInverse(ids')
        /\ \A o \in Numbered(ticks) : o \in DOMAIN ids'.by_obj
        /\ \A o \in DOMAIN ids.by_obj : ids.by_obj[o] \notin gone =>
              o \in DOMAIN ids'.by_obj /\ ids'.by_obj[o] = ids.by_obj[o]
        /\ \A i \in DOMAIN ids'.by_id :
              \/ i \in DOMAIN ids.by_id /\ Object(ids', i) = Object(ids, i)
              \/ i >= ids.next /\ Object(ids', i) \in Numbered(ticks)
        /\ \A o \in DOMAIN ids'.by_obj : o \in DOMAIN ids.by_obj \/ o \in Numbered(ticks)
        /\ \A i \in gone : \E n \in freed : Object(ids, i) = NodeOf(n)
    BY PollIds
  <1>3. /\ IsIds(ids, Objects) /\ IsInverse(ids)
        /\ freed \subseteq Nodes /\ Drained \subseteq Nodes /\ Drained \cap freed = {}
        /\ adding \subseteq entities_to_add /\ entities_to_add \subseteq owned
        /\ owned \subseteq Syncs
    BY DEF IInv, TypeOK, OneToOne, Drained, Adding
  <1>4. /\ Drained # {} => Spawner \in Numbered(ticks)
        /\ \A n \in Drained : /\ NodeOf(n) \in Numbered(ticks)
                              /\ SyncOf(n) \in owned => SyncOf(n) \in Numbered(ticks)
        /\ \A o \in adding : o \in Numbered(ticks)
        /\ DrainObjects \subseteq Numbered(ticks)
    BY DEF Numbered, DrainObjects
  \* An id of the poll's of a node that had none.
  <1>5. ASSUME NEW o \in Numbered(ticks), o \notin DOMAIN ids.by_obj
        PROVE  /\ o \in DOMAIN ids'.by_obj /\ Id(ids', o) = ids'.by_obj[o]
               /\ ids'.by_obj[o] \in DOMAIN ids'.by_id
               /\ Object(ids', ids'.by_obj[o]) = o /\ ids'.by_obj[o] >= ids.next
    <2>1. o \in DOMAIN ids'.by_obj /\ Id(ids', o) = ids'.by_obj[o] /\ o \in Objects
      BY <1>2, <1>5, ObjectFacts DEF Id
    <2>2. Object(ids', ids'.by_obj[o]) = o
      BY <1>2, <2>1, ObjectFacts
    <2>3. ids'.by_obj[o] \in DOMAIN ids'.by_id
      BY <1>2, <2>1 DEF IsInverse
    <2>4. ~(Object(ids, ids'.by_obj[o]) = o)
      BY <1>3, <1>5, <2>1, ObjectFacts
    <2> QED BY <1>2, <2>1, <2>2, <2>3, <2>4
  <1>6. ASSUME NEW n \in Drained
        PROVE  NodeOf(n) \notin DOMAIN ids.by_obj /\ SyncOf(n) \notin DOMAIN ids.by_obj
    <2>1. n \in pending_spawns /\ n \in Nodes
      BY <1>3 DEF Drained
    <2>2. ASSUME NEW o \in {NodeOf(n), SyncOf(n)}, o \in DOMAIN ids.by_obj PROVE FALSE
      <3>1. ids.by_obj[o] \in DOMAIN ids.by_id /\ Object(ids, ids.by_obj[o]) = o
        BY <1>3, <2>2, ObjectFacts DEF IsInverse
      <3>2. <<ids.by_obj[o], o>> \in Claims
        BY <1>3, <3>1, ObjectFacts DEF Claims
      <3> QED BY <2>1, <2>2, <3>2 DEF IInv, NamesInv, Undrained
    <2> QED BY <2>2
  <1> HIDE DEF gone, live, adding, spawns, placed, binds, rec
  <1>7. ASSUME NEW n \in Drained
        PROVE  /\ NodeOf(n) \in DOMAIN ids'.by_obj
               /\ Id(ids', NodeOf(n)) = ids'.by_obj[NodeOf(n)]
               /\ ids'.by_obj[NodeOf(n)] \in DOMAIN ids'.by_id
               /\ Object(ids', ids'.by_obj[NodeOf(n)]) = NodeOf(n)
               /\ ids'.by_obj[NodeOf(n)] >= ids.next
    BY <1>4, <1>5, <1>6
  <1>8. \A i \in spawns : \E n \in Drained : i = ids'.by_obj[NodeOf(n)]
    BY <1>7 DEF spawns
  <1>9. \A n \in Drained : ids'.by_obj[NodeOf(n)] \in spawns
    BY <1>7 DEF spawns
  \* The synchronizers under spawned nodes get no bind record.
  <1>10. ASSUME NEW o \in placed PROVE o \in PlacedSyncs
    <2> SUFFICES ASSUME NEW n \in Nodes, o = SyncOf(n), o \in owned, o \in adding
                 PROVE  UnderSpawned(ids', server_spawned', o)
      BY <1>3, NodesApart DEF placed
    <2>1. n \in born \ freed
      BY DEF IInv, ServerInv, TreeInv
    <2>2. CASE n \in pending_spawns
      <3>1. n \in Drained
        BY <2>1, <2>2 DEF Drained
      <3> QED BY <1>1, <1>7, <1>9, <3>1 DEF UnderSpawned
    <2>3. CASE n \notin pending_spawns
      <3>1. NodeOf(n) \in DOMAIN ids.by_obj /\ ids.by_obj[NodeOf(n)] \in server_spawned
        BY <2>1, <2>3 DEF IInv, ServerInv, RecordsInv
      <3>2. Object(ids, ids.by_obj[NodeOf(n)]) = NodeOf(n)
        BY <1>3, <3>1, NodesApart, ObjectFacts
      <3>3. ids.by_obj[NodeOf(n)] \notin gone
        BY <1>2, <1>3, <2>1, <3>2, NodesApart
      <3>4. Id(ids', NodeOf(n)) \in server_spawned'
        BY <1>1, <1>2, <3>1, <3>3 DEF Id
      <3> QED BY <3>4 DEF UnderSpawned
    <2> QED BY <2>2, <2>3
  <1>11. \A o \in adding \cap PlacedSyncs : o \in placed
    BY NodesApart DEF placed, UnderSpawned
  <1>12. ASSUME NEW o \in placed
         PROVE  o \notin DOMAIN ids.by_obj /\ o \in Numbered(ticks)
    <2>1. o \in PlacedSyncs /\ o \in adding
      BY <1>10 DEF placed
    <2> QED BY <1>3, <1>4, <2>1 DEF IInv, ServerInv, TreeInv
  <1>13. Spawner \in DOMAIN ids.by_obj =>
            /\ ids.by_obj[Spawner] \in live
            /\ Spawner \in DOMAIN ids'.by_obj /\ ids'.by_obj[Spawner] = ids.by_obj[Spawner]
    <2> SUFFICES ASSUME Spawner \in DOMAIN ids.by_obj
                 PROVE  /\ ids.by_obj[Spawner] \in live
                        /\ Spawner \in DOMAIN ids'.by_obj
                        /\ ids'.by_obj[Spawner] = ids.by_obj[Spawner]
      OBVIOUS
    <2>1. ids.by_obj[Spawner] \in DOMAIN records
      BY DEF IInv, ServerInv, RecordsInv
    <2>2. Object(ids, ids.by_obj[Spawner]) = Spawner
      BY <1>3, NodesApart, ObjectFacts
    <2>3. ids.by_obj[Spawner] \notin gone
      BY <1>2, <1>3, <2>2, NodesApart
    <2> QED BY <1>2, <2>1, <2>3 DEF live
  <1>14. ASSUME NEW i \in binds, i \notin live
         PROVE  /\ i >= ids.next /\ i \in DOMAIN ids'.by_id
                /\ Object(ids', i) \in PlacedSyncs \cup {Spawner}
    <2>1. PICK o \in placed \cup (DrainObjects \cap {Spawner}) : i = Id(ids', o)
      BY DEF binds
    <2>2. o \in Numbered(ticks) /\ o \in PlacedSyncs \cup {Spawner}
      BY <1>4, <1>10, <1>12
    <2>3. CASE o \notin DOMAIN ids.by_obj
      BY <1>5, <2>1, <2>2, <2>3
    <2>4. CASE o \in DOMAIN ids.by_obj
      <3>1. o = Spawner
        BY <1>12, <2>4
      <3>2. i \in live
        BY <1>13, <2>1, <2>4, <3>1 DEF Id
      <3> QED BY <1>14, <3>2
    <2> QED BY <2>3, <2>4
  <1>15. \A i \in live : i < ids.next /\ i \in Nat
    <2>1. ids.next \in Nat
      BY <1>3 DEF IsIds
    <2>2. \A i \in DOMAIN records : <<i, records[i].node>> \in Claims /\ i \in Nat
      BY RecordFacts
    <2>3. \A c \in Claims : c[1] < ids.next
      BY DEF IInv, NamesInv, HandedOut
    <2> QED BY <2>2, <2>3 DEF live
  <1>16. ASSUME NEW n \in Drained, NEW i, i = ids'.by_obj[NodeOf(n)]
         PROVE  /\ i \in DOMAIN records' /\ records'[i] = SpawnRecord(ids', n)
    <2>1. i >= ids.next /\ Object(ids', i) = NodeOf(n) /\ n \in Nodes /\ i \in spawns
          /\ i \in DOMAIN ids'.by_id
      BY <1>3, <1>7, <1>9, <1>16
    <2>2. i \in Nat /\ ids.next \in Nat
      BY <1>2, <1>3, <2>1 DEF IsIds
    <2>3. i \notin live
      BY <1>15, <2>1, <2>2
    <2>4. i \notin binds
      BY <1>14, <2>1, <2>3, NodesApart
    <2>5. records'[i] = SpawnRecord(ids', Object(ids', i)[2]) /\ i \in DOMAIN records'
      BY <1>1, <2>1, <2>3, <2>4 DEF rec
    <2> QED BY <2>1, <2>5, NodesApart
  <1>17. ASSUME NEW n \in Drained PROVE IsDrainRecord(SpawnRecord(ids', n), n)
    <2>1. Spawner \in DOMAIN ids'.by_obj
      BY <1>2, <1>4
    <2>2. Id(ids', Spawner) \in Nat \ {0}
      BY <1>2, <2>1 DEF Id, IsIds
    <2>3. SyncOf(n) \in owned => /\ SyncOf(n) \in DOMAIN ids'.by_obj
                                 /\ Id(ids', SyncOf(n)) = ids'.by_obj[SyncOf(n)]
                                 /\ ids'.by_obj[SyncOf(n)] \in Nat
      BY <1>2, <1>4 DEF Id, IsIds
    <2>4. NodeOf(n) \in Objects
      BY <1>3, NodesApart
    <2>5. SpawnRecord(ids', n) \in Record
      BY <2>2, <2>3, <2>4 DEF SpawnRecord, Record
    <2> QED BY <2>2, <2>3, <2>5 DEF SpawnRecord, IsDrainRecord
  <1>18. \A i \in live : i \in DOMAIN records' /\ records'[i] = records[i]
    BY <1>1 DEF rec
  <1>19. ASSUME NEW i \in DOMAIN records', i \notin live
         PROVE  /\ i >= ids.next /\ i \in DOMAIN ids'.by_id
                /\ Object(ids', i) = records'[i].node /\ records'[i] \in Record
                /\ \/ IsBind(records'[i])
                   \/ \E n \in Drained : IsDrainRecord(records'[i], n)
    <2>1. CASE i \in binds
      <3>1. records'[i] = BindRecord(Object(ids', i))
        BY <1>1, <1>19, <2>1 DEF rec
      <3>2. Object(ids', i) \in Objects
        BY <1>2, <1>14, <1>19, <2>1, ObjectFacts
      <3>3. records'[i] \in Record
        BY <3>1, <3>2 DEF BindRecord, Record
      <3> QED BY <1>14, <1>19, <2>1, <3>1, <3>3 DEF BindRecord, IsBind
    <2>2. CASE i \in spawns
      <3>1. PICK n \in Drained : i = ids'.by_obj[NodeOf(n)]
        BY <1>8, <2>2
      <3>2. IsDrainRecord(records'[i], n)
        BY <1>16, <1>17, <3>1
      <3> QED BY <1>7, <3>1, <3>2 DEF IsDrainRecord
    <2> QED BY <1>1, <1>19, <2>1, <2>2
  <1>20. ASSUME NEW o \in DOMAIN ids'.by_obj, o = Spawner \/ o \in PlacedSyncs \cap adding
         PROVE  ids'.by_obj[o] \in DOMAIN records'
    <2>1. CASE o \in PlacedSyncs \cap adding
      <3>1. Id(ids', o) \in binds
        BY <1>11, <2>1 DEF binds
      <3> QED BY <1>1, <1>20, <3>1 DEF Id
    <2>2. CASE o = Spawner /\ Spawner \in DOMAIN ids.by_obj
      BY <1>13, <1>18, <2>2
    <2>3. CASE o = Spawner /\ Spawner \notin DOMAIN ids.by_obj
      <3>1. Spawner \in Numbered(ticks)
        BY <1>2, <1>20, <2>3
      <3>2. Spawner \in DrainObjects
        BY <1>3, <3>1, NodesApart DEF Numbered, adding
      <3>3. Id(ids', Spawner) \in binds
        BY <3>2 DEF binds
      <3> QED BY <1>1, <1>20, <2>3, <3>3 DEF Id
    <2> QED BY <1>20, <2>1, <2>2, <2>3
  <1>21. \A i \in server_spawned' :
            i \in server_spawned \ gone \/ \E n \in Drained : i = ids'.by_obj[NodeOf(n)]
    BY <1>1, <1>8
  <1>22. \A n \in Drained :
            /\ NodeOf(n) \in DOMAIN ids'.by_obj
            /\ ids'.by_obj[NodeOf(n)] \in server_spawned'
            /\ ids'.by_obj[NodeOf(n)] \in DOMAIN records'
            /\ IsDrainRecord(records'[ids'.by_obj[NodeOf(n)]], n)
    BY <1>1, <1>7, <1>9, <1>16, <1>17
  <1>23. /\ \A i \in server_spawned \ gone : i \in server_spawned'
         /\ records' = [i \in DOMAIN records' |-> records'[i]]
    BY <1>1
  <1> QED BY <1>18, <1>19, <1>20, <1>21, <1>22, <1>23 DEF gone, live, adding

(***************************************************************************)
(* The ids in use are numbers below the next one.                          *)
(***************************************************************************)
LEMMA UsedAreOld ==
    ASSUME IInv
    PROVE  /\ ids.next \in Nat
           /\ \A c \in Claims : c[1] \in Nat /\ c[1] < ids.next
           /\ \A i \in Used : i \in Nat /\ i < ids.next
           /\ \A i \in DOMAIN records :
                 /\ i \in Nat /\ i < ids.next
                 /\ records[i].sync # 0 => records[i].sync < ids.next
PROOF
  <1>1. /\ ids.next \in Nat /\ IsIds(ids, Objects) /\ IsIds(c_ids, Objects)
        /\ IsRecords(records) /\ IsRecords(snapshot.records)
    BY DEF IInv, TypeOK, IsIds, IsPacket
  <1>2. \A c \in Called(ids) \cup Called(c_ids) : c[1] \in Nat
    BY <1>1 DEF Called, IsIds
  <1>3. ASSUME NEW g, IsRecords(g) PROVE \A c \in Told(g) : c[1] \in Nat
    BY <1>3 DEF Told, WithSync, IsRecords, Record
  <1>4. \A c \in Claims : c[1] \in Nat
    BY <1>1, <1>2, <1>3 DEF Claims
  <1>5. \A i \in Used : i \in Nat
    BY DEF Used, IInv, TypeOK, IsPacket, IsRecords
  <1>6. /\ \A c \in Claims : c[1] < ids.next
        /\ \A i \in Used : i < ids.next
    BY DEF IInv, NamesInv, HandedOut
  <1>7. \A i \in DOMAIN records :
           /\ <<i, records[i].node>> \in Claims
           /\ records[i].sync # 0 => <<records[i].sync, SyncOf(records[i].node[2])>> \in Claims
    BY RecordFacts
  <1> QED BY <1>1, <1>4, <1>5, <1>6, <1>7

\* A poll of the server, with or without a send.
LEMMA PollHolds ==
    ASSUME IInv, NEW ticks \in BOOLEAN, ServerPoll(ticks), ticks => peer
    PROVE  IInv'
PROOF
  <1> DEFINE gone   == Gone(server_spawned)
             live   == DOMAIN records \ gone
             adding == Adding(ticks)
  <1>1. /\ UNCHANGED <<born, freed, owned, peer, ack, moved, unloaded>>
        /\ UNCHANGED <<c_owned, c_ids, client_spawned, taken>>
        /\ pending_spawns' = {} /\ entities_to_add' = entities_to_add \ adding
        /\ bind_ids' \subseteq bind_ids \cup {Id(ids', o) : o \in adding \cup {Spawner}}
        /\ entities' = entities \cup {Id(ids', o) : o \in adding}
        /\ spawn_acked' = spawn_acked \ gone
        /\ owed' \subseteq owed \cup gone
        /\ snapshot' =
              IF ticks
              THEN [records |-> [i \in DOMAIN records' \ spawn_acked' |-> records'[i]],
                    despawns |-> owed', sent |-> TRUE]
              ELSE snapshot
    BY DEF ServerPoll, Adding, game, client, history, Owed
  <1>2. /\ IsIds(ids', Objects) /\ IsInverse(ids')
        /\ \A i \in DOMAIN ids'.by_id : i < ids'.next
        /\ ids.next <= ids'.next
        /\ \A o \in DOMAIN ids'.by_obj : o \in DOMAIN ids.by_obj \/ o \in Numbered(ticks)
        /\ \A o \in Numbered(ticks) : o \in DOMAIN ids'.by_obj
        /\ \A o \in DOMAIN ids.by_obj : ids.by_obj[o] \notin gone =>
              o \in DOMAIN ids'.by_obj /\ ids'.by_obj[o] = ids.by_obj[o]
        /\ \A i \in DOMAIN ids'.by_id :
              \/ i \in DOMAIN ids.by_id /\ Object(ids', i) = Object(ids, i)
              \/ /\ i >= ids.next /\ Object(ids', i) \in Numbered(ticks)
                 /\ Object(ids', i) \notin DOMAIN ids.by_obj
        /\ \A i \in gone : i \in DOMAIN records /\ \E n \in freed : Object(ids, i) = NodeOf(n)
    BY PollIds
  <1>3. /\ \A i \in live : i \in DOMAIN records' /\ records'[i] = records[i]
        /\ \A i \in DOMAIN records' :
              \/ i \in live
              \/ /\ i >= ids.next /\ i \in DOMAIN ids'.by_id
                 /\ Object(ids', i) = records'[i].node /\ records'[i] \in Record
                 /\ \/ IsBind(records'[i])
                    \/ \E n \in Drained : IsDrainRecord(records'[i], n)
        /\ \A o \in DOMAIN ids'.by_obj :
              o = Spawner \/ (o \in PlacedSyncs /\ o \in adding)
                 => ids'.by_obj[o] \in DOMAIN records'
        /\ \A n \in Drained :
              /\ NodeOf(n) \in DOMAIN ids'.by_obj
              /\ ids'.by_obj[NodeOf(n)] \in server_spawned'
              /\ ids'.by_obj[NodeOf(n)] \in DOMAIN records'
              /\ IsDrainRecord(records'[ids'.by_obj[NodeOf(n)]], n)
        /\ \A i \in server_spawned' :
              \/ i \in server_spawned \ gone
              \/ \E n \in Drained : i = ids'.by_obj[NodeOf(n)]
        /\ \A i \in server_spawned \ gone : i \in server_spawned'
        /\ records' = [i \in DOMAIN records' |-> records'[i]]
    BY PollRecords
  <1>4. /\ IsIds(ids, Objects) /\ IsInverse(ids)
        /\ freed \subseteq Nodes /\ born \subseteq Nodes
        /\ Drained \subseteq Nodes /\ Drained \subseteq pending_spawns /\ Drained \subseteq born
        /\ Drained \cap freed = {}
        /\ adding \subseteq entities_to_add /\ entities_to_add \subseteq owned
        /\ owned \subseteq Syncs /\ adding \subseteq Numbered(ticks)
    BY DEF IInv, TypeOK, OneToOne, Drained, Adding, Numbered
  <1>5. \A o \in Numbered(ticks) :
           \/ o = Spawner \/ o \in adding
           \/ \E n \in Drained : o = NodeOf(n) \/ (o = SyncOf(n) /\ o \in owned)
    BY <1>4 DEF Numbered, DrainObjects
  <1>6. /\ ids.next \in Nat /\ ids'.next \in Nat
        /\ \A c \in Claims : c[1] \in Nat /\ c[1] < ids.next
        /\ \A i \in Used : i \in Nat /\ i < ids.next
        /\ \A i \in DOMAIN records :
              /\ i \in Nat /\ i < ids.next
              /\ records[i].sync # 0 => records[i].sync < ids.next
    BY <1>2, UsedAreOld DEF IsIds
  <1> HIDE DEF gone, live, adding
  <1>7. \A i \in DOMAIN records' : i \in Nat
    BY <1>2, <1>3, <1>6 DEF IsIds, live
  \* Records of freed nodes apart, the poll leaves what it knew.
  <1>8. ASSUME NEW o \in DOMAIN ids.by_obj, \A n \in freed : o # NodeOf(n)
        PROVE  o \in DOMAIN ids'.by_obj /\ ids'.by_obj[o] = ids.by_obj[o]
    BY <1>2, <1>4, <1>8, ObjectFacts
  <1>9. \A i \in live : /\ records[i].node \in DOMAIN ids.by_obj
                       /\ ids.by_obj[records[i].node] = i
                       /\ records[i].node \in DOMAIN ids'.by_obj
                       /\ ids'.by_obj[records[i].node] = i
                       /\ Object(ids', i) = records[i].node
    <2> SUFFICES ASSUME NEW i \in live
                 PROVE  /\ records[i].node \in DOMAIN ids.by_obj
                        /\ ids.by_obj[records[i].node] = i
                        /\ records[i].node \in DOMAIN ids'.by_obj
                        /\ ids'.by_obj[records[i].node] = i
                        /\ Object(ids', i) = records[i].node
      OBVIOUS
    <2>1. i \in DOMAIN records /\ i \notin gone
      BY DEF live
    <2>2. /\ records[i].node \in DOMAIN ids.by_obj /\ ids.by_obj[records[i].node] = i
          /\ records[i].node \in Objects
      BY <2>1, RecordFacts DEF Record
    <2>3. records[i].node \in DOMAIN ids'.by_obj /\ ids'.by_obj[records[i].node] = i
      BY <1>2, <2>1, <2>2
    <2> QED BY <1>2, <2>2, <2>3, ObjectFacts
  <1>10. ASSUME NEW i \in DOMAIN records', i \notin live
         PROVE  /\ i >= ids.next
                /\ IsBind(records'[i]) \/ IsSpawn(records'[i])
                /\ records'[i].sync # 0 =>
                      /\ records'[i].sync >= ids.next
                      /\ records'[i].sync \in DOMAIN ids'.by_id
                      /\ Object(ids', records'[i].sync) = SyncOf(records'[i].node[2])
    <2>1. CASE IsBind(records'[i])
      BY <1>3, <1>10, <2>1 DEF IsBind
    <2>2. CASE \E n \in Drained : IsDrainRecord(records'[i], n)
      <3> DEFINE j == records'[i].sync
      <3>1. PICK n \in Drained : IsDrainRecord(records'[i], n)
        BY <2>2
      <3>2. n \in Nodes /\ n \in pending_spawns /\ NodeOf(n)[2] = n /\ SyncOf(n) \in Objects
        BY <1>4, NodesApart
      <3>3. IsSpawn(records'[i])
        BY <3>1, <3>2 DEF IsSpawn, IsDrainRecord
      <3>4. ASSUME j # 0
            PROVE  j >= ids.next /\ j \in DOMAIN ids'.by_id /\ Object(ids', j) = SyncOf(n)
        <4>1. SyncOf(n) \in DOMAIN ids'.by_obj /\ j = ids'.by_obj[SyncOf(n)]
          BY <3>1, <3>4 DEF IsDrainRecord
        <4>2. Object(ids', j) = SyncOf(n) /\ j \in DOMAIN ids'.by_id
          BY <1>2, <3>2, <4>1, ObjectFacts DEF IsInverse
        <4>3. ~(j \in DOMAIN ids.by_id /\ Object(ids, j) = SyncOf(n))
          <5> SUFFICES ASSUME j \in DOMAIN ids.by_id, Object(ids, j) = SyncOf(n) PROVE FALSE
            OBVIOUS
          <5>1. <<j, SyncOf(n)>> \in Claims
            BY <1>4, ObjectFacts DEF Claims
          <5> QED BY <3>2, <5>1 DEF IInv, NamesInv, Undrained
        <4> QED BY <1>2, <4>2, <4>3
      <3> QED BY <1>3, <1>10, <3>1, <3>2, <3>3, <3>4 DEF IsDrainRecord
    <2> QED BY <1>3, <1>10, <2>1, <2>2
  <1>11. \A i \in DOMAIN records' : /\ i \in DOMAIN ids'.by_id
                                    /\ Object(ids', i) = records'[i].node
                                    /\ IsBind(records'[i]) \/ IsSpawn(records'[i])
                                    /\ records'[i] \in Record
    <2>1. \A i \in live : /\ i \in DOMAIN records
                          /\ IsBind(records[i]) \/ IsSpawn(records[i])
                          /\ records[i] \in Record
      BY RecordFacts DEF live
    <2>2. \A i \in live : i \in DOMAIN ids'.by_id
      BY <1>2, <1>9 DEF IsInverse
    <2> QED BY <1>3, <1>9, <1>10, <2>1, <2>2
  <1>12. TypeOK' /\ OneToOne'
    <2>1. IsRecords(records')
      BY <1>2, <1>3, <1>11 DEF IsRecords, IsIds
    <2>2. spawn_acked' \subseteq DOMAIN records'
      BY <1>1, <1>3 DEF live, IInv, TypeOK
    <2>3. owed' \subseteq Nat
      BY <1>1, <1>2, <1>6 DEF IInv, TypeOK
    <2>4. IsPacket(snapshot')
      <3> DEFINE g == [i \in DOMAIN records' \ spawn_acked' |-> records'[i]]
      <3>1. IsRecords(g)
        BY <2>1 DEF IsRecords
      <3>2. CASE ticks
        <4> HIDE DEF g
        <4>1. IsPacket([records |-> g, despawns |-> owed', sent |-> TRUE])
          BY <2>3, <3>1 DEF IsPacket
        <4> QED BY <1>1, <3>2, <4>1 DEF g
      <3>3. CASE ~ticks
        BY <1>1, <3>3 DEF IInv, TypeOK
      <3> QED BY <3>2, <3>3
    <2>5. \A o : Id(ids', o) \in Nat
      BY <1>2 DEF Id, IsIds
    <2>6. entities' \subseteq Nat /\ bind_ids' \subseteq Nat
      BY <1>1, <2>5 DEF IInv, TypeOK
    <2>7. server_spawned' \subseteq Nat
      BY <1>3, <1>7 DEF IInv, TypeOK
    <2> QED BY <1>1, <1>2, <2>1, <2>2, <2>3, <2>4, <2>6, <2>7 DEF IInv, TypeOK, OneToOne
  \* A name is an old one, or of a new id in the server's map.
  <1>13. ASSUME NEW c \in Claims'
         PROVE  \/ c \in Claims
                \/ c \in Called(ids') /\ c[1] >= ids.next
    <2>1. \A d : d \in Called(ids') <=> \E i \in DOMAIN ids'.by_id : d = <<i, Object(ids', i)>>
      BY <1>2, ObjectFacts
    <2>2. CASE c \in Called(ids')
      <3>1. PICK i \in DOMAIN ids'.by_id : c = <<i, Object(ids', i)>>
        BY <2>1, <2>2
      <3>2. i \in DOMAIN ids.by_id => <<i, Object(ids, i)>> \in Claims
        BY <1>4, ObjectFacts DEF Claims
      <3> QED BY <1>2, <2>2, <3>1, <3>2
    <2>3. ASSUME NEW i \in DOMAIN records', c = <<i, records'[i].node>>
          PROVE  c \in Claims \/ (c \in Called(ids') /\ c[1] >= ids.next)
      <3>1. CASE i \in live
        BY <1>3, <2>3, <3>1, RecordFacts DEF live
      <3>2. CASE i \notin live
        <4>1. c \in Called(ids')
          BY <1>11, <2>1, <2>3
        <4> QED BY <1>10, <2>3, <3>2, <4>1
      <3> QED BY <3>1, <3>2
    <2>4. ASSUME NEW i \in DOMAIN records', records'[i].sync # 0,
                 c = <<records'[i].sync, SyncOf(records'[i].node[2])>>
          PROVE  c \in Claims \/ (c \in Called(ids') /\ c[1] >= ids.next)
      <3>1. CASE i \in live
        <4>1. i \in DOMAIN records /\ records'[i] = records[i]
          BY <1>3, <3>1 DEF live
        <4>2. <<records[i].sync, SyncOf(records[i].node[2])>> \in Claims
          BY <2>4, <4>1, RecordFacts
        <4> QED BY <2>4, <4>1, <4>2
      <3>2. CASE i \notin live
        <4>1. /\ records'[i].sync >= ids.next
              /\ records'[i].sync \in DOMAIN ids'.by_id
              /\ Object(ids', records'[i].sync) = SyncOf(records'[i].node[2])
          BY <1>10, <2>4, <3>2
        <4>2. c \in Called(ids')
          BY <2>1, <2>4, <4>1
        <4> QED BY <2>4, <4>1, <4>2
      <3> QED BY <3>1, <3>2
    <2>5. Told(snapshot'.records) \subseteq Told(records') \cup Told(snapshot.records)
      <3> DEFINE g == [i \in DOMAIN records' \ spawn_acked' |-> records'[i]]
      <3>1. Told(g) \subseteq Told(records')
        BY ToldShrinks
      <3> QED BY <1>1, <3>1
    <2>6. c \in Called(ids') \/ c \in Told(records') \/ c \in Told(snapshot.records)
             \/ c \in Called(c_ids)
      BY <1>1, <2>5 DEF Claims
    <2>7. CASE c \in Told(records')
      BY <2>3, <2>4, <2>7 DEF Told, WithSync
    <2>8. CASE c \in Told(snapshot.records) \/ c \in Called(c_ids)
      BY <2>8 DEF Claims
    <2> QED BY <2>2, <2>6, <2>7, <2>8
  \* The node of a new id had none.
  <1>14. ASSUME NEW c \in Called(ids'), c[1] >= ids.next
         PROVE  /\ c[1] \in DOMAIN ids'.by_id /\ c[2] = Object(ids', c[1])
                /\ c[2] \in Objects /\ c[2] \in DOMAIN ids'.by_obj /\ ids'.by_obj[c[2]] = c[1]
                /\ c[2] \in Numbered(ticks) /\ c[2] \notin DOMAIN ids.by_obj
    <2>1. PICK i \in DOMAIN ids'.by_id : c = <<i, Object(ids', i)>>
      BY <1>2, ObjectFacts
    <2>2. c[1] = i /\ c[2] = Object(ids', i)
      BY <2>1
    <2>3. i \notin DOMAIN ids.by_id
      <3> SUFFICES ASSUME i \in DOMAIN ids.by_id PROVE FALSE
        OBVIOUS
      <3>1. <<i, Object(ids, i)>> \in Claims
        BY <1>4, ObjectFacts DEF Claims
      <3>2. i < ids.next /\ i \in Nat
        BY <1>6, <3>1
      <3> QED BY <1>6, <1>14, <2>2, <3>2
    <2> QED BY <1>2, <2>2, <2>3, ObjectFacts
  <1>15. NamesInv'
    <2> DEFINE New(c) == c \in Called(ids') /\ c[1] >= ids.next
    <2>0. \A c \in Claims' : c \in Claims \/ New(c)
      BY <1>13
    <2>1. OneName'
      <3> SUFFICES ASSUME NEW c \in Claims', NEW d \in Claims', c[1] = d[1]
                   PROVE  c[2] = d[2]
        BY DEF OneName
      <3>1. CASE c \in Claims /\ d \in Claims
        BY <3>1 DEF IInv, NamesInv, OneName
      <3>2. CASE New(c) /\ New(d)
        BY <1>14, <3>2
      <3>3. ~(c \in Claims /\ New(d)) /\ ~(d \in Claims /\ New(c))
        BY <1>6
      <3> QED BY <2>0, <3>1, <3>2, <3>3
    <2>2. ASSUME NEW c, New(c), NEW n \in Nodes, c[2] \in {NodeOf(n), SyncOf(n)}
          PROVE  n \in born /\ (c[2] = NodeOf(n) => n \in pending_spawns)
      <3>1. c[2] \in Numbered(ticks)
        BY <1>14, <2>2
      <3>2. CASE c[2] \in adding
        BY <1>4, <2>2, <3>2, NodesApart DEF IInv, ServerInv, TreeInv
      <3>3. CASE \E k \in Drained : c[2] = NodeOf(k) \/ c[2] = SyncOf(k)
        BY <1>4, <2>2, <3>3, NodesApart
      <3> QED BY <1>5, <2>2, <3>1, <3>2, <3>3, NodesApart
    <2>3. Undrained'
      <3> SUFFICES ASSUME NEW c \in Claims', NEW n \in Nodes, c[2] \in {NodeOf(n), SyncOf(n)}
                   PROVE  n \in born
        BY <1>1 DEF Undrained
      <3>1. CASE c \in Claims
        BY <3>1 DEF IInv, NamesInv, Undrained
      <3> QED BY <2>0, <2>2, <3>1
    <2>4. OneId'
      <3> SUFFICES ASSUME NEW c \in Claims', NEW d \in Claims', NEW n \in Nodes,
                          c[2] = NodeOf(n), d[2] = NodeOf(n)
                   PROVE  c[1] = d[1]
        BY DEF OneId
      <3>1. CASE c \in Claims /\ d \in Claims
        BY <3>1 DEF IInv, NamesInv, OneId
      <3>2. CASE New(c) /\ New(d)
        BY <1>14, <3>2
      <3>3. \A e \in Claims : e[2] = NodeOf(n) => n \notin pending_spawns
        BY DEF IInv, NamesInv, Undrained
      <3>4. ~(c \in Claims /\ New(d)) /\ ~(d \in Claims /\ New(c))
        BY <2>2, <3>3
      <3> QED BY <2>0, <3>1, <3>2, <3>4
    <2>5. HandedOut'
      <3>1. \A c \in Claims' : c[1] < ids'.next
        <4> SUFFICES ASSUME NEW c \in Claims' PROVE c[1] < ids'.next
          OBVIOUS
        <4>1. CASE c \in Claims
          BY <1>2, <1>6, <4>1
        <4>2. CASE New(c)
          BY <1>2, <1>14, <4>2
        <4> QED BY <2>0, <4>1, <4>2
      <3>2. Used' \subseteq Used \cup DOMAIN records
        BY <1>1, <1>2 DEF Used
      <3>3. \A i \in Used' : i < ids'.next
        BY <1>2, <1>6, <3>2
      <3> QED BY <3>1, <3>3 DEF HandedOut
    <2> QED BY <2>1, <2>3, <2>4, <2>5 DEF NamesInv
  <1>16. Distinct(records')
    <2>1. \A i \in DOMAIN records' : i \notin live => records'[i].node \notin DOMAIN ids.by_obj
      <3> SUFFICES ASSUME NEW i \in DOMAIN records', i \notin live
                   PROVE  records'[i].node \notin DOMAIN ids.by_obj
        OBVIOUS
      <3>1. /\ i \in DOMAIN ids'.by_id /\ Object(ids', i) = records'[i].node
            /\ i >= ids.next
        BY <1>10, <1>11
      <3>2. <<i, Object(ids', i)>> \in Called(ids')
        BY <1>2, <3>1, ObjectFacts
      <3>3. <<i, Object(ids', i)>>[1] = i /\ <<i, Object(ids', i)>>[2] = Object(ids', i)
        OBVIOUS
      <3> QED BY <1>14, <3>1, <3>2, <3>3
    <2>2. ASSUME NEW i \in DOMAIN records', NEW j \in DOMAIN records',
                 records'[i].node = records'[j].node
          PROVE  i = j
      <3>1. i \in live <=> j \in live
        BY <1>3, <1>9, <2>1, <2>2
      <3>2. CASE i \in live
        BY <1>3, <1>9, <2>2, <3>1, <3>2
      <3>3. CASE i \notin live
        <4>1. /\ Object(ids', i) = Object(ids', j)
              /\ i \in DOMAIN ids'.by_id /\ j \in DOMAIN ids'.by_id
          BY <1>11, <2>2
        <4> QED BY <1>2, <4>1, ObjectFacts
      <3> QED BY <3>2, <3>3
    <2> QED BY <1>11, <2>2 DEF Distinct
  <1>17. ASSUME NEW n \in born \ (freed \cup pending_spawns)
         PROVE  /\ n \in Nodes
                /\ NodeOf(n) \in DOMAIN ids.by_obj
                /\ ids.by_obj[NodeOf(n)] \in live
                /\ ids.by_obj[NodeOf(n)] \in server_spawned'
                /\ NodeOf(n) \in DOMAIN ids'.by_obj
                /\ ids'.by_obj[NodeOf(n)] = ids.by_obj[NodeOf(n)]
    <2>1. /\ n \in Nodes /\ NodeOf(n) \in DOMAIN ids.by_obj
          /\ ids.by_obj[NodeOf(n)] \in server_spawned
          /\ ids.by_obj[NodeOf(n)] \in DOMAIN records
      BY <1>4 DEF IInv, ServerInv, RecordsInv
    <2>2. \A k \in freed : NodeOf(n) # NodeOf(k)
      BY <1>4, <2>1, NodesApart
    <2>3. Object(ids, ids.by_obj[NodeOf(n)]) = NodeOf(n)
      BY <1>4, <2>1, NodesApart, ObjectFacts
    <2>4. ids.by_obj[NodeOf(n)] \notin gone
      BY <1>2, <2>2, <2>3
    <2> QED BY <1>3, <1>8, <2>1, <2>2, <2>4 DEF live
  <1>18. RecordsInv'
    <2>1. Spawner \in DOMAIN ids'.by_obj => ids'.by_obj[Spawner] \in DOMAIN records'
      BY <1>3
    <2>2. ASSUME NEW i \in server_spawned'
          PROVE  i \in DOMAIN records' /\ IsSpawn(records'[i])
      <3>1. CASE i \in server_spawned \ gone
        <4>1. i \in live /\ IsSpawn(records[i])
          BY <3>1 DEF live, IInv, ServerInv, RecordsInv
        <4> QED BY <1>3, <4>1
      <3>2. CASE \E n \in Drained : i = ids'.by_obj[NodeOf(n)]
        <4>1. PICK n \in Drained : i = ids'.by_obj[NodeOf(n)]
          BY <3>2
        <4>2. i \in DOMAIN records' /\ IsDrainRecord(records'[i], n) /\ n \in Nodes
          BY <1>3, <1>4, <4>1
        <4> QED BY <4>2 DEF IsDrainRecord, IsSpawn
      <3> QED BY <1>3, <2>2, <3>1, <3>2
    <2>3. ASSUME NEW n \in born \ freed
          PROVE  NodeOf(n) \in DOMAIN ids'.by_obj /\ ids'.by_obj[NodeOf(n)] \in server_spawned'
      <3>1. CASE n \in pending_spawns
        <4>1. n \in Drained
          BY <2>3, <3>1 DEF Drained
        <4> QED BY <1>3, <4>1
      <3>2. CASE n \notin pending_spawns
        BY <1>17, <2>3, <3>2
      <3> QED BY <3>1, <3>2
    <2> QED BY <1>1, <1>11, <1>16, <2>1, <2>2, <2>3 DEF RecordsInv
  <1>19. TreeInv'
    <2>1. \A o \in DOMAIN ids'.by_obj \cap Syncs : o \in owned
      <3> SUFFICES ASSUME NEW o \in DOMAIN ids'.by_obj, o \in Syncs PROVE o \in owned
        OBVIOUS
      <3>1. CASE o \in DOMAIN ids.by_obj
        BY <3>1 DEF IInv, ServerInv, TreeInv
      <3>2. CASE o \in Numbered(ticks)
        BY <1>4, <1>5, <3>2, NodesApart
      <3> QED BY <1>2, <3>1, <3>2
    <2>2. ASSUME NEW o \in entities_to_add' \cap PlacedSyncs, o \in DOMAIN ids'.by_obj
          PROVE  FALSE
      <3>1. o \in entities_to_add /\ o \in PlacedSyncs /\ o \notin adding
        BY <1>1, <2>2
      <3>2. o \notin DOMAIN ids.by_obj
        BY <3>1 DEF IInv, ServerInv, TreeInv
      <3>3. o \notin Numbered(ticks)
        BY <1>4, <1>5, <3>1, NodesApart
      <3> QED BY <1>2, <2>2, <3>2, <3>3
    <2> QED BY <1>1, <2>1, <2>2 DEF IInv, ServerInv, TreeInv
  <1>20. EntitiesInv'
    \* A synchronizer that had an id has it still.
    <2>1. ASSUME NEW o \in Syncs, o \in DOMAIN ids.by_obj
          PROVE  o \in DOMAIN ids'.by_obj /\ ids'.by_obj[o] = ids.by_obj[o]
      BY <1>4, <1>8, <2>1, NodesApart
    <2>2. ASSUME NEW i \in entities'
          PROVE  /\ Object(ids', i) \in owned' \ entities_to_add'
                 /\ Object(ids', i) \in PlacedSyncs => i \in DOMAIN records'
      <3>1. CASE i \in entities
        <4> DEFINE o == Object(ids, i)
        <4>1. o \in owned /\ o \notin entities_to_add
              /\ (o \in PlacedSyncs => i \in DOMAIN records)
          BY <3>1 DEF IInv, ServerInv, EntitiesInv
        <4>2. o \in Syncs /\ o \in Objects
          BY <1>4, <4>1, NodesApart
        <4>3. o \in DOMAIN ids.by_obj /\ ids.by_obj[o] = i
          BY <1>4, <4>2, ObjectFacts
        <4>4. Object(ids', i) = o
          BY <1>2, <2>1, <4>2, <4>3, ObjectFacts
        <4>5. i \notin gone
          BY <1>2, <1>4, <4>2, NodesApart
        <4> QED BY <1>1, <1>3, <4>1, <4>4, <4>5 DEF live
      <3>2. CASE i \notin entities
        <4>1. PICK o \in adding : i = Id(ids', o)
          BY <1>1, <2>2, <3>2
        <4>2. o \in DOMAIN ids'.by_obj /\ o \in owned /\ o \in Objects
          BY <1>2, <1>4, NodesApart
        <4>3. i = ids'.by_obj[o] /\ Object(ids', i) = o
          BY <1>2, <4>1, <4>2, ObjectFacts DEF Id
        <4> QED BY <1>1, <1>3, <4>2, <4>3
      <3> QED BY <3>1, <3>2
    <2>3. ASSUME NEW n \in born \ (freed \cup moved), SyncOf(n) \in owned
          PROVE  /\ SyncOf(n) \in DOMAIN ids'.by_obj
                 /\ records'[ids'.by_obj[NodeOf(n)]].sync = ids'.by_obj[SyncOf(n)]
      <3>1. CASE n \in pending_spawns
        <4>1. n \in Drained
          BY <2>3, <3>1 DEF Drained
        <4>2. IsDrainRecord(records'[ids'.by_obj[NodeOf(n)]], n)
          BY <1>3, <4>1
        <4> QED BY <2>3, <4>2 DEF IsDrainRecord
      <3>2. CASE n \notin pending_spawns
        <4>1. /\ SyncOf(n) \in DOMAIN ids.by_obj
              /\ records[ids.by_obj[NodeOf(n)]].sync = ids.by_obj[SyncOf(n)]
          BY <2>3, <3>2 DEF IInv, ServerInv, EntitiesInv
        <4>2. SyncOf(n) \in Syncs
          BY <1>4, <2>3
        <4> QED BY <1>3, <1>17, <2>1, <2>3, <3>2, <4>1, <4>2
      <3> QED BY <3>1, <3>2
    <2> QED BY <1>1, <2>2, <2>3 DEF EntitiesInv
  <1>21. \A i \in DOMAIN snapshot.records : i \in Nat /\ i < ids.next
    <2>1. \A i \in DOMAIN snapshot.records : <<i, snapshot.records[i].node>> \in Claims
      BY SnapshotFacts DEF Claims
    <2> QED BY <1>6, <2>1
  <1>22. \A i \in DOMAIN records' : (i < ids.next) => i \in live /\ records'[i] = records[i]
    BY <1>3, <1>6, <1>7
  <1>23. SnapshotInv'
    <2>1. CASE ticks
      BY <1>1, <1>16, <2>1 DEF SnapshotInv, Distinct
    <2>2. CASE ~ticks
      <3>1. snapshot' = snapshot
        BY <1>1, <2>2
      <3>2. \A i \in DOMAIN records' \cap DOMAIN snapshot.records : records'[i] = snapshot.records[i]
        BY <1>21, <1>22 DEF live, IInv, ClientInv, SnapshotInv
      <3> QED BY <3>1, <3>2 DEF IInv, ClientInv, SnapshotInv
    <2> QED BY <2>1, <2>2
  <1>24. DespawnsInv'
    <2>1. owed' \cup snapshot'.despawns \subseteq owed \cup gone \cup snapshot.despawns
      BY <1>1
    <2>2. \A i \in owed \cup gone \cup snapshot.despawns : i \in Nat /\ i < ids.next
      BY <1>2, <1>6 DEF Used
    <2>3. ASSUME NEW i \in live
          PROVE  /\ i \notin owed \cup gone \cup snapshot.despawns
                 /\ records[i].sync # 0 =>
                       records[i].sync \notin owed \cup gone \cup snapshot.despawns
      <3>1. i \in DOMAIN records /\ i \notin gone
        BY DEF live
      <3>2. records[i].sync # 0 => records[i].sync \notin gone
        BY <1>2, <3>1, RecordFacts
      <3> QED BY <3>1, <3>2 DEF IInv, ClientInv, DespawnsInv
    <2>4. ASSUME NEW i \in DOMAIN records', i \notin live
          PROVE  /\ i \notin owed \cup gone \cup snapshot.despawns
                 /\ records'[i].sync # 0 =>
                       records'[i].sync \notin owed \cup gone \cup snapshot.despawns
      <3>1. records'[i].sync \in Nat
        BY <1>11 DEF Record
      <3> QED BY <1>6, <1>7, <1>10, <2>2, <2>4, <3>1
    <2> QED BY <1>3, <2>1, <2>3, <2>4 DEF DespawnsInv
  <1>25. TakenInv'
    <2> SUFFICES ASSUME peer, ~unloaded
                 PROVE  /\ spawn_acked' \subseteq taken
                        /\ DOMAIN ack.records \cap DOMAIN records' \subseteq taken
                        /\ \A i \in taken \cap DOMAIN records' :
                              /\ Placeable(records'[i], i)
                              /\ \A j \in DOMAIN snapshot'.records :
                                    snapshot'.records[j].node = records'[i].node => j = i
      BY <1>1 DEF TakenInv, Placeable
    <2>1. /\ spawn_acked \subseteq taken
          /\ DOMAIN ack.records \cap DOMAIN records \subseteq taken
          /\ \A i \in taken \cap DOMAIN records :
                /\ Placeable(records[i], i)
                /\ \A j \in DOMAIN snapshot.records :
                      snapshot.records[j].node = records[i].node => j = i
      BY DEF IInv, ClientInv, TakenInv
    <2>2. \A i \in DOMAIN records' : i \in taken \cup DOMAIN ack.records =>
             i \in DOMAIN records /\ records'[i] = records[i]
      BY <1>6, <1>22 DEF Used, live
    <2>3. ASSUME NEW i \in taken \cap DOMAIN records', NEW j \in DOMAIN snapshot'.records,
                 snapshot'.records[j].node = records'[i].node
          PROVE  j = i
      <3>1. CASE ticks
        BY <1>1, <1>16, <2>3, <3>1 DEF Distinct
      <3>2. CASE ~ticks
        BY <1>1, <2>1, <2>2, <2>3, <3>2
      <3> QED BY <3>1, <3>2
    <2> QED BY <1>1, <2>1, <2>2, <2>3
  <1>26. BuiltAreSpawned'
    BY <1>1 DEF IInv, ClientInv, BuiltAreSpawned
  <1> QED BY <1>12, <1>15, <1>18, <1>19, <1>20, <1>23, <1>24, <1>25, <1>26
          DEF IInv, ServerInv, ClientInv

-----------------------------------------------------------------------------
(***************************************************************************)
(* Every step keeps the invariant.                                         *)
(***************************************************************************)
LEMMA StutterHolds ==
    ASSUME IInv, UNCHANGED vars PROVE IInv'
PROOF
  <1>1. /\ UNCHANGED <<game, server, entities, records, moved>>
        /\ UNCHANGED <<born, freed, owned, entities_to_add, pending_spawns, ids>>
        /\ UNCHANGED <<server_spawned, bind_ids, entities, records, spawn_acked, owed>>
        /\ UNCHANGED <<peer, snapshot, ack, moved, unloaded>>
        /\ UNCHANGED <<c_owned, c_ids, client_spawned, taken>>
    BY DEF vars, game, server, core, air, client, history
  <1>2. TypeOK' /\ OneToOne'
    BY <1>1 DEF IInv, TypeOK, OneToOne
  <1>3. NamesInv'
    BY <1>1 DEF IInv, NamesInv, OneName, OneId, Undrained, HandedOut, Claims, Used
  <1>4. ServerInv'
    BY <1>1, ServerStays
  <1>5. ClientInv'
    BY <1>1 DEF IInv, ClientInv, SnapshotInv, DespawnsInv, TakenInv, Placeable, BuiltAreSpawned
  <1> QED BY <1>2, <1>3, <1>4, <1>5 DEF IInv

\* What the games do.
LEMMA GameHolds ==
    ASSUME IInv, Game PROVE IInv'
PROOF
  <1>1. ASSUME NEW o \in PlacedSyncs, PlacedEnters(o) \/ PlacedExits(o) PROVE IInv'
    <2>1. CASE PlacedEnters(o)
      BY <2>1, PlacedEntersHolds
    <2>2. CASE PlacedExits(o)
      <3>1. /\ o \in Syncs \cap owned /\ Exit(o)
            /\ UNCHANGED <<born, history>> /\ UNCHANGED freed
        BY <2>2, NodesApart DEF PlacedExits, game
      <3> QED BY <3>1, ExitHolds
    <2> QED BY <1>1, <2>1, <2>2
  <1>2. ASSUME NEW n \in Nodes, Spawn(n) \/ Free(n) \/ FreeSync(n) \/ Reparent(n) PROVE IInv'
    <2>1. CASE FreeSync(n)
      <3>1. /\ SyncOf(n) \in Syncs \cap owned /\ Exit(SyncOf(n))
            /\ UNCHANGED <<born, history>> /\ UNCHANGED freed
        BY <2>1, NodesApart DEF FreeSync, game
      <3> QED BY <3>1, ExitHolds
    <2> QED BY <1>2, <2>1, SpawnHolds, FreeHolds, ReparentHolds
  <1>3. ASSUME NEW o \in PlacedSyncs, ClientEnters(o) \/ ClientExits(o) PROVE IInv'
    BY <1>3, ClientEntersHolds, ClientExitsHolds
  <1> QED BY <1>1, <1>2, <1>3 DEF Game

\* Every step keeps the invariant.
LEMMA StepHolds ==
    ASSUME IInv, [Next]_vars PROVE IInv'
PROOF
  <1>1. CASE Game
    BY <1>1, GameHolds
  <1>2. CASE Poll \/ Tick
    <2>1. CASE Poll
      BY <2>1, PollHolds DEF Poll
    <2>2. CASE Tick
      BY <2>2, PollHolds DEF Tick
    <2> QED BY <1>2, <2>1, <2>2
  <1>3. CASE Apply
    BY <1>3, ApplyHolds
  <1>4. CASE Transport
    BY <1>4, AckArrivesHolds, LoseHolds DEF Transport
  <1>5. CASE Session
    BY <1>5, SessionHolds
  <1>6. CASE UNCHANGED vars
    BY <1>6, StutterHolds
  <1> QED BY <1>1, <1>2, <1>3, <1>4, <1>5, <1>6 DEF Next

(***************************************************************************)
(* The inductive invariant holds in every state.                           *)
(***************************************************************************)
THEOREM InvariantHolds == Spec => []IInv
PROOF
  <1>1. Init => IInv
    BY InitHolds
  <1>2. IInv /\ [Next]_vars => IInv'
    BY StepHolds
  <1> QED BY <1>1, <1>2, PTL DEF Spec

(***************************************************************************)
(* Every id, record, packet and map stays of its type, however many nodes  *)
(* the scene places and the game spawns.                                   *)
(***************************************************************************)
THEOREM TypesHold == Spec => []TypeOK
PROOF
  <1>1. IInv => TypeOK
    BY DEF IInv
  <1> QED BY <1>1, InvariantHolds, PTL

(***************************************************************************)
(* Both ends' id maps stay one to one through the loops of assign, bind    *)
(* and drop that polls and snapshots make.                                 *)
(***************************************************************************)
THEOREM MapsStayOneToOne == Spec => []OneToOne
PROOF
  <1>1. IInv => OneToOne
    BY DEF IInv
  <1> QED BY <1>1, InvariantHolds, PTL

(***************************************************************************)
(* An id both ends know names the same node on each, in every order of     *)
(* records, despawns, losses, frees, moves and sessions: no id is handed   *)
(* out twice, and no name of one outlives its node for another's.          *)
(***************************************************************************)
THEOREM IdsNameTheSameNode == Spec => []SameNode
PROOF
  <1>1. IInv => SameNode
    <2> SUFFICES ASSUME IInv, NEW i \in DOMAIN c_ids.by_id \cap DOMAIN ids.by_id
                 PROVE  Object(c_ids, i) = Object(ids, i)
      BY DEF SameNode
    <2>1. /\ IsIds(ids, Objects) /\ IsInverse(ids)
          /\ IsIds(c_ids, Objects) /\ IsInverse(c_ids)
      BY DEF IInv, TypeOK, OneToOne
    <2>2. /\ <<i, Object(ids, i)>> \in Claims
          /\ <<i, Object(c_ids, i)>> \in Claims
      BY <2>1, ObjectFacts DEF Claims
    <2>3. <<i, Object(ids, i)>>[1] = <<i, Object(c_ids, i)>>[1]
             => <<i, Object(ids, i)>>[2] = <<i, Object(c_ids, i)>>[2]
      BY <2>2 DEF IInv, NamesInv, OneName
    <2> QED BY <2>3
  <1> QED BY <1>1, InvariantHolds, PTL

(***************************************************************************)
(* Every id whose state the core sends is one a live record tells the      *)
(* peer, but for the synchronizers of nodes the game moved in its tree.    *)
(***************************************************************************)
THEOREM SentIdsAreNamed == Spec => []EntitiesNamed
PROOF
  <1>1. IInv => EntitiesNamed
    <2> SUFFICES ASSUME IInv, NEW i \in entities
                 PROVE  Named(i) \/ \E n \in moved : Object(ids, i) = SyncOf(n)
      BY DEF EntitiesNamed
    <2>1. /\ Object(ids, i) \in owned \ entities_to_add
          /\ Object(ids, i) \in PlacedSyncs => i \in DOMAIN records
          /\ owned \subseteq Syncs /\ pending_spawns \subseteq born
      BY DEF IInv, TypeOK, ServerInv, EntitiesInv
    <2>2. CASE Object(ids, i) \in PlacedSyncs
      BY <2>1, <2>2 DEF Named
    <2>3. ASSUME NEW n \in Nodes, Object(ids, i) = SyncOf(n), n \notin moved
          PROVE  Named(i)
      <3>1. n \in born \ freed
        BY <2>1, <2>3 DEF IInv, ServerInv, TreeInv
      <3>2. SyncOf(n) \in DOMAIN ids.by_obj /\ ids.by_obj[SyncOf(n)] = i
            /\ i \in DOMAIN ids.by_id
        BY <2>3, NodesApart, ObjectFacts DEF IInv, TypeOK, OneToOne, IsInverse
      <3>3. n \notin pending_spawns
        <4>1. <<i, SyncOf(n)>> \in Claims
          BY <2>3, <3>2, ObjectFacts DEF Claims, IInv, TypeOK, OneToOne
        <4> QED BY <4>1 DEF IInv, NamesInv, Undrained
      <3>4. records[ids.by_obj[NodeOf(n)]].sync = i
        BY <2>1, <2>3, <3>1, <3>2, <3>3 DEF IInv, ServerInv, EntitiesInv
      <3>5. ids.by_obj[NodeOf(n)] \in DOMAIN records
        BY <3>1, <3>3 DEF IInv, ServerInv, RecordsInv
      <3> QED BY <3>4, <3>5 DEF Named
    <2> QED BY <2>1, <2>2, <2>3, NodesApart
  <1> QED BY <1>1, InvariantHolds, PTL

(***************************************************************************)
(* What the server takes for acknowledged the client has in its place,     *)
(* the synchronizer a spawn record names included, as long as it unloads   *)
(* no bound node: whichever snapshots and acknowledgements are lost.       *)
(***************************************************************************)
THEOREM AcknowledgedIsPlaced == Spec => []AckedIsPlaced
PROOF
  <1>1. IInv => AckedIsPlaced
    BY DEF IInv, TypeOK, ClientInv, TakenInv, AckedIsPlaced
  <1> QED BY <1>1, InvariantHolds, PTL

(***************************************************************************)
(* The ids the client keeps for nodes it built are of nodes the server     *)
(* spawned: a despawn never frees a node of the client's own.              *)
(***************************************************************************)
THEOREM BuiltNodesAreSpawned == Spec => []BuiltAreSpawned
PROOF
  <1>1. IInv => BuiltAreSpawned
    BY DEF IInv, ClientInv
  <1> QED BY <1>1, InvariantHolds, PTL

-----------------------------------------------------------------------------
\* A node the client knows by an id the server offers goes by no other in the
\* snapshot on its way.
HeldAgrees == \A c \in Called(c_ids) \cap Told(records), d \in Told(snapshot.records) :
    c[2] = d[2] => c = d

\* All the client's ids are a server's.
AllLearned == \A i \in DOMAIN c_ids.by_id : c_ids.by_id[i].learned

SharedInv == IInv /\ HeldAgrees /\ AllLearned

\* Records of a node each tell one id of every node they name.
LEMMA ToldOnce ==
    ASSUME NEW f, Distinct(f)
    PROVE  \A c, d \in Told(f) : c[2] = d[2] => c = d
PROOF
  <1>1. \A c \in Told(f) : \E i \in DOMAIN f :
           \/ c = <<i, f[i].node>>
           \/ f[i].sync # 0 /\ c = <<f[i].sync, SyncOf(f[i].node[2])>>
    BY DEF Told, WithSync
  <1>2. \A i \in DOMAIN f : f[i].sync # 0 => \E n \in Nodes : f[i].node = NodeOf(n)
    BY DEF Distinct, IsBind, IsSpawn
  <1>3. \A i \in DOMAIN f, n \in Nodes : f[i].node # SyncOf(n)
    BY NodesApart DEF Distinct, IsBind, IsSpawn
  <1>4. \A i, j \in DOMAIN f : f[i].node = f[j].node => i = j
    BY DEF Distinct
  <1> SUFFICES ASSUME NEW c \in Told(f), NEW d \in Told(f), c[2] = d[2] PROVE c = d
    OBVIOUS
  <1>5. PICK i \in DOMAIN f : \/ c = <<i, f[i].node>>
                              \/ f[i].sync # 0 /\ c = <<f[i].sync, SyncOf(f[i].node[2])>>
    BY <1>1
  <1>6. PICK j \in DOMAIN f : \/ d = <<j, f[j].node>>
                              \/ f[j].sync # 0 /\ d = <<f[j].sync, SyncOf(f[j].node[2])>>
    BY <1>1
  <1>7. CASE c = <<i, f[i].node>> /\ d = <<j, f[j].node>>
    BY <1>4, <1>7
  <1>8. CASE f[i].sync # 0 /\ c = <<f[i].sync, SyncOf(f[i].node[2])>>
    <2>1. PICK n \in Nodes : f[i].node = NodeOf(n)
      BY <1>2, <1>8
    <2>2. c = <<f[i].sync, SyncOf(n)>> /\ d[2] = SyncOf(n)
      BY <1>8, <2>1, NodesApart
    <2>3. f[j].sync # 0 /\ d = <<f[j].sync, SyncOf(f[j].node[2])>>
      BY <1>3, <1>6, <2>2
    <2>4. PICK k \in Nodes : f[j].node = NodeOf(k)
      BY <1>2, <2>3
    <2>5. k = n
      BY <2>2, <2>3, <2>4, NodesApart
    <2>6. i = j
      BY <1>4, <2>1, <2>4, <2>5
    <2> QED BY <1>8, <2>3, <2>6
  <1>9. CASE c = <<i, f[i].node>> /\ f[j].sync # 0 /\ d = <<f[j].sync, SyncOf(f[j].node[2])>>
    BY <1>2, <1>3, <1>9, NodesApart
  <1> QED BY <1>5, <1>6, <1>7, <1>8, <1>9

\* What one pair in a map or a record's is.
LEMMA OfferedFacts ==
    ASSUME IInv, NEW c \in Told(records)
    PROVE  /\ c \in Claims /\ c = <<c[1], c[2]>>
           /\ \/ c[1] \in DOMAIN records /\ c[2] = records[c[1]].node
              \/ \E i \in DOMAIN records, n \in Nodes :
                    /\ records[i].sync # 0 /\ records[i].node = NodeOf(n)
                    /\ c = <<records[i].sync, SyncOf(n)>>
PROOF
  <1>1. c \in Claims
    BY DEF Claims
  <1>2. CASE \E i \in DOMAIN records : c = <<i, records[i].node>>
    BY <1>1, <1>2
  <1>3. ASSUME NEW i \in WithSync(records), c = <<records[i].sync, SyncOf(records[i].node[2])>>
        PROVE  \E n \in Nodes : /\ records[i].sync # 0 /\ records[i].node = NodeOf(n)
                                /\ c = <<records[i].sync, SyncOf(n)>>
    <2>1. i \in DOMAIN records /\ records[i].sync # 0
      BY DEF WithSync
    <2>2. PICK n \in Nodes : records[i].node = NodeOf(n)
      BY <2>1, RecordFacts DEF IsSpawn
    <2> QED BY <1>3, <2>1, <2>2, NodesApart
  <1>4. \A i \in WithSync(records) : i \in DOMAIN records
    BY DEF WithSync
  <1> QED BY <1>1, <1>2, <1>3, <1>4 DEF Told

-----------------------------------------------------------------------------
\* The tree has nodes, and none of the freed ones.
LEMMA PresentFacts ==
    ASSUME TypeOK
    PROVE  Present \subseteq Objects \ NodesOf(freed)
PROOF
  BY NodesApart DEF TypeOK, Present, NodesOf

(***************************************************************************)
(* A step of the server's game moves nodes, and takes back only what is of *)
(* no node in the tree.                                                    *)
(***************************************************************************)
LEMMA MoveMaps ==
    ASSUME TypeOK, TypeOK', Told(records') \subseteq Told(records),
           \A c \in Told(records) \ Told(records') : c[2] \notin Present',
           born \subseteq born', freed \subseteq freed', freed' \ freed \subseteq born,
           ids'.next = ids.next, UNCHANGED <<peer, snapshot, c_ids>>
    PROVE  Shared!Move
PROOF
  <1>1. Present' \subseteq Objects \ NodesOf(freed')
    BY PresentFacts, NodesApart DEF TypeOK, Present, NodesOf
  <1>2. NodesOf(freed') = NodesOf(freed) \cup (NodesOf(Nodes) \cap (Present \ Present'))
    <2>1. \A n \in Nodes : NodeOf(n) \in Present <=> n \in born \ freed
      BY NodesApart DEF TypeOK, Present, NodesOf
    <2>2. \A n \in Nodes : NodeOf(n) \in Present' <=> n \in born' \ freed'
      BY NodesApart DEF TypeOK, Present, NodesOf
    <2>3. freed' \subseteq Nodes /\ freed \subseteq Nodes
      BY DEF TypeOK
    <2> QED BY <2>1, <2>2, <2>3, NodesApart DEF NodesOf
  <1>3. UNCHANGED <<ids.next, Told(snapshot.records), Called(c_ids), peer>>
    OBVIOUS
  <1> QED BY <1>1, <1>2, <1>3 DEF Shared!Move, Shared!WithdrawsGone

\* What remove_entity takes back is of the node it removes.
LEMMA RemoveWithdraws ==
    ASSUME IInv, NEW o \in Syncs, RemoveEntity(Id(ids, o))
    PROVE  /\ Told(records') \subseteq Told(records)
           /\ \A c \in Told(records) \ Told(records') : c[2] = o /\ o \in PlacedSyncs
PROOF
  <1> DEFINE x == Id(ids, o)
  <1>1. /\ DOMAIN records' = DOMAIN records \ {x}
        /\ \A i \in DOMAIN records' : records'[i] = records[i]
    BY DEF RemoveEntity, Despawned
  <1>2. ASSUME x \in DOMAIN records
        PROVE  records[x].node = o /\ o \in PlacedSyncs /\ records[x].sync = 0
    <2>1. /\ records[x].node \in DOMAIN ids.by_obj /\ ids.by_obj[records[x].node] = x
          /\ x \in Nat \ {0} /\ (IsBind(records[x]) \/ IsSpawn(records[x]))
      BY <1>2, RecordFacts
    <2>2. o \in DOMAIN ids.by_obj /\ ids.by_obj[o] = x
      BY <2>1 DEF Id
    <2>3. records[x].node = o
      BY <2>1, <2>2 DEF IInv, OneToOne, IsInverse
    <2> QED BY <2>1, <2>3, NodesApart DEF IsBind, IsSpawn
  <1> HIDE DEF x
  <1>3. Told(records') \subseteq Told(records)
    BY <1>1, ToldShrinks
  <1>4. ASSUME NEW c \in Told(records) \ Told(records') PROVE c[2] = o /\ o \in PlacedSyncs
    <2>1. CASE \E i \in DOMAIN records : c = <<i, records[i].node>>
      <3>1. PICK i \in DOMAIN records : c = <<i, records[i].node>>
        BY <2>1
      <3>2. i = x
        BY <1>1, <1>4, <3>1 DEF Told
      <3> QED BY <1>2, <3>1, <3>2
    <2>2. CASE \E i \in WithSync(records) : c = <<records[i].sync, SyncOf(records[i].node[2])>>
      <3>1. PICK i \in WithSync(records) : c = <<records[i].sync, SyncOf(records[i].node[2])>>
        BY <2>2
      <3>2. i # x
        BY <1>2 DEF WithSync
      <3>3. i \in WithSync(records') /\ records'[i] = records[i]
        BY <1>1, <3>2 DEF WithSync
      <3> QED BY <1>4, <3>1, <3>3 DEF Told
    <2> QED BY <1>4, <2>1, <2>2 DEF Told
  <1> QED BY <1>3, <1>4

\* A synchronizer leaves the tree.
LEMMA ExitMoves ==
    ASSUME IInv, IInv', NEW o \in Syncs \cap owned, Exit(o), UNCHANGED born,
           \/ UNCHANGED freed
           \/ \E n \in born : freed' = freed \cup {n}
    PROVE  Shared!Move
PROOF
  <1>1. /\ owned' = owned \ {o} /\ ids' = Release(ids, o) /\ RemoveEntity(Id(ids, o))
        /\ UNCHANGED <<peer, snapshot, c_ids>>
    BY DEF Exit, air, client
  <1>2. ids'.next = ids.next
    BY <1>1, ReleaseFacts DEF IInv, TypeOK, OneToOne
  <1>3. o \notin Present'
    BY <1>1, NodesApart DEF Present, NodesOf, IInv, TypeOK
  <1>4. TypeOK /\ TypeOK'
    BY DEF IInv
  <1>5. freed \subseteq freed' /\ freed' \ freed \subseteq born /\ born \subseteq born'
    OBVIOUS
  <1>6. /\ Told(records') \subseteq Told(records)
        /\ \A c \in Told(records) \ Told(records') : c[2] = o
    BY <1>1, RemoveWithdraws
  <1> QED BY <1>1, <1>2, <1>3, <1>4, <1>5, <1>6, MoveMaps

\* What the games do.
LEMMA GameMaps ==
    ASSUME IInv, IInv', Game
    PROVE  Shared!Move \/ Shared!Unload \/ UNCHANGED Shared!vars
PROOF
  <1>0. TypeOK /\ TypeOK'
    BY DEF IInv
  <1>1. ASSUME NEW o \in PlacedSyncs, PlacedEnters(o) PROVE Shared!Move
    <2>1. UNCHANGED <<born, freed, records, peer, snapshot, c_ids, ids>>
      BY <1>1 DEF PlacedEnters, game, core, air, client
    <2> QED BY <1>0, <2>1, MoveMaps
  <1>2. ASSUME NEW o \in PlacedSyncs, PlacedExits(o) PROVE Shared!Move
    <2>1. o \in Syncs \cap owned /\ Exit(o) /\ UNCHANGED born /\ UNCHANGED freed
      BY <1>2, NodesApart DEF PlacedExits, game
    <2> QED BY <2>1, ExitMoves
  <1>3. ASSUME NEW n \in Nodes, Spawn(n) PROVE Shared!Move
    <2>1. /\ born' = born \cup {n}
          /\ UNCHANGED <<freed, records, peer, snapshot, c_ids, ids>>
      BY <1>3 DEF Spawn, core, air, client
    <2> QED BY <1>0, <2>1, MoveMaps
  <1>4. ASSUME NEW n \in Nodes, Free(n) PROVE Shared!Move
    <2>1. n \in born \ freed /\ freed' = freed \cup {n} /\ UNCHANGED born
      BY <1>4 DEF Free
    <2>2. CASE SyncOf(n) \in owned
      <3>1. SyncOf(n) \in Syncs \cap owned /\ Exit(SyncOf(n))
        BY <1>4, <2>2, NodesApart DEF Free
      <3> QED BY <2>1, <3>1, ExitMoves
    <2>3. CASE SyncOf(n) \notin owned
      <3>1. UNCHANGED <<records, peer, snapshot, c_ids, ids>>
        BY <1>4, <2>3 DEF Free, server, core, air, client
      <3> QED BY <1>0, <2>1, <3>1, MoveMaps
    <2> QED BY <2>2, <2>3
  <1>5. ASSUME NEW n \in Nodes, FreeSync(n) PROVE Shared!Move
    <2>1. /\ SyncOf(n) \in Syncs \cap owned /\ Exit(SyncOf(n))
          /\ UNCHANGED born /\ UNCHANGED freed
      BY <1>5, NodesApart DEF FreeSync, game
    <2> QED BY <2>1, ExitMoves
  <1>6. ASSUME NEW n \in Nodes, Reparent(n) PROVE Shared!Move
    <2>1. /\ SyncOf(n) \in Syncs /\ SyncOf(n) \notin PlacedSyncs
          /\ ids' = Release(ids, SyncOf(n)) /\ RemoveEntity(Id(ids, SyncOf(n)))
          /\ UNCHANGED <<born, freed, peer, snapshot, c_ids>>
      BY <1>6, NodesApart DEF Reparent, game, air, client
    <2>2. ids'.next = ids.next
      BY <2>1, ReleaseFacts DEF IInv, TypeOK, OneToOne
    <2>3. Told(records') \subseteq Told(records) /\ Told(records) \ Told(records') = {}
      BY <2>1, RemoveWithdraws
    <2> QED BY <1>0, <2>1, <2>2, <2>3, MoveMaps
  <1>7. ASSUME NEW o \in PlacedSyncs, ClientEnters(o) PROVE UNCHANGED Shared!vars
    <2>1. UNCHANGED <<born, freed, owned, ids, records, snapshot, peer, c_ids>>
      BY <1>7 DEF ClientEnters, game, server, core, air
    <2> QED BY <2>1 DEF Shared!vars, Present
  <1>8. ASSUME NEW o \in PlacedSyncs, ClientExits(o) PROVE Shared!Unload
    <2>1. /\ UNCHANGED <<born, freed, owned, ids, records, snapshot, peer>>
          /\ c_ids' = Release(c_ids, o)
      BY <1>8 DEF ClientExits, game, server, core, air
    <2>2. IsIds(c_ids, Objects) /\ IsInverse(c_ids) /\ o \in Objects /\ o \notin NodesOf(Nodes)
      BY NodesApart DEF IInv, TypeOK, OneToOne, NodesOf
    <2>3. /\ DOMAIN c_ids'.by_id = DOMAIN c_ids.by_id \ {Id(c_ids, o)}
          /\ \A i \in DOMAIN c_ids'.by_id : c_ids'.by_id[i] = c_ids.by_id[i]
      BY <2>1, <2>2, ReleaseFacts
    <2>4. \A i \in DOMAIN c_ids.by_id : c_ids.by_id[i].obj = o <=> i = Id(c_ids, o)
      BY <2>2 DEF Id, IsInverse, IsIds
    <2>5. Called(c_ids') = {c \in Called(c_ids) : c[2] # o}
      BY <2>3, <2>4 DEF Called
    <2> QED BY <2>1, <2>2, <2>5 DEF Shared!Unload, Present
  <1> QED BY <1>1, <1>2, <1>3, <1>4, <1>5, <1>6, <1>7, <1>8 DEF Game

-----------------------------------------------------------------------------
\* A poll offers nodes that are in the tree, under new ids, and takes back
\* what is of freed ones.
LEMMA PollOffers ==
    ASSUME IInv, IInv', NEW ticks \in BOOLEAN, ServerPoll(ticks), ticks => peer
    PROVE  /\ \A c \in Told(records') \ Told(records) :
                 c[1] \in ids.next .. (ids'.next - 1) /\ c[2] \in Present
           /\ \A c \in Told(records) \ Told(records') : c[2] \notin Present
           /\ \A c, d \in Told(records') : c[2] = d[2] => c = d
           /\ IF ticks THEN Told(snapshot'.records) \subseteq Told(records') ELSE snapshot' = snapshot
PROOF
  <1> DEFINE gone == Gone(server_spawned)
  <1>1. /\ ids.next \in Nat /\ ids'.next \in Nat
        /\ \A c \in Claims : c[1] \in Nat /\ c[1] < ids.next
        /\ \A i \in DOMAIN ids'.by_id : i \in Nat /\ i < ids'.next
        /\ \A o \in DOMAIN ids'.by_obj : /\ o \in Objects
                                        /\ ids'.by_obj[o] \in DOMAIN ids'.by_id
                                        /\ Object(ids', ids'.by_obj[o]) = o
        /\ \A i \in DOMAIN ids'.by_id :
              \/ i \in DOMAIN ids.by_id /\ Object(ids', i) = Object(ids, i)
              \/ i >= ids.next /\ Object(ids', i) \in Numbered(ticks)
        /\ \A i \in gone : i \in DOMAIN records /\ \E n \in freed : Object(ids, i) = NodeOf(n)
    BY PollIds, UsedAreOld DEF IsIds, IsInverse, Object
  <1>2. /\ \A i \in DOMAIN records \ gone : i \in DOMAIN records' /\ records'[i] = records[i]
        /\ \A i \in DOMAIN records' :
              \/ i \in DOMAIN records \ gone
              \/ /\ i >= ids.next /\ i \in DOMAIN ids'.by_id
                 /\ Object(ids', i) = records'[i].node
                 /\ \/ IsBind(records'[i])
                    \/ \E n \in Drained : IsDrainRecord(records'[i], n)
    BY PollRecords
  <1>3. /\ Drained \subseteq born \ freed /\ Drained \subseteq pending_spawns
        /\ born \subseteq Nodes /\ freed \subseteq Nodes
        /\ owned \subseteq Syncs /\ Adding(ticks) \subseteq owned
        /\ IsIds(ids, Objects) /\ IsInverse(ids)
    BY DEF IInv, TypeOK, OneToOne, Drained, Adding
  <1> HIDE DEF gone
  <1>4. \A o \in Numbered(ticks) : o \in Present
    BY <1>3 DEF Numbered, DrainObjects, Present, NodesOf
  \* Nothing claims a node before it is drained.
  <1>5. \A n \in Drained : \A i \in DOMAIN ids.by_id : Object(ids, i) # SyncOf(n)
    <2> SUFFICES ASSUME NEW n \in Drained, NEW i \in DOMAIN ids.by_id, Object(ids, i) = SyncOf(n)
                 PROVE  FALSE
      OBVIOUS
    <2>1. <<i, SyncOf(n)>> \in Claims /\ <<i, SyncOf(n)>>[2] = SyncOf(n)
      BY <1>3, ObjectFacts DEF Claims
    <2> QED BY <1>3, <2>1 DEF IInv, NamesInv, Undrained
  <1>6. ASSUME NEW i \in DOMAIN ids'.by_id, i >= ids.next
        PROVE  i \in ids.next .. (ids'.next - 1) /\ Object(ids', i) \in Present
    <2>1. i \notin DOMAIN ids.by_id
      <3>1. i \in DOMAIN ids.by_id => <<i, Object(ids, i)>> \in Claims
        BY <1>3, ObjectFacts DEF Claims
      <3> QED BY <1>1, <1>6, <3>1
    <2> QED BY <1>1, <1>4, <1>6, <2>1
  <1>7. ASSUME NEW c \in Told(records') \ Told(records)
        PROVE  c[1] \in ids.next .. (ids'.next - 1) /\ c[2] \in Present
    <2>1. CASE \E i \in DOMAIN records' : c = <<i, records'[i].node>>
      <3>1. PICK i \in DOMAIN records' : c = <<i, records'[i].node>>
        BY <2>1
      <3>2. i \notin DOMAIN records \ gone
        BY <1>2, <1>7, <3>1 DEF Told
      <3>3. i >= ids.next /\ i \in DOMAIN ids'.by_id /\ Object(ids', i) = records'[i].node
        BY <1>2, <3>2
      <3> QED BY <1>6, <3>1, <3>3
    <2>2. CASE \E i \in WithSync(records') : c = <<records'[i].sync, SyncOf(records'[i].node[2])>>
      <3>1. PICK i \in WithSync(records') : c = <<records'[i].sync, SyncOf(records'[i].node[2])>>
        BY <2>2
      <3>2. i \in DOMAIN records' /\ records'[i].sync # 0
        BY DEF WithSync
      <3>3. i \notin DOMAIN records \ gone
        BY <1>2, <1>7, <3>1, <3>2 DEF Told, WithSync
      <3>4. PICK n \in Drained : IsDrainRecord(records'[i], n)
        BY <1>2, <3>2, <3>3 DEF IsBind
      <3>5. /\ SyncOf(n) \in owned /\ SyncOf(n) \in DOMAIN ids'.by_obj
            /\ c = <<ids'.by_obj[SyncOf(n)], SyncOf(n)>>
        BY <1>3, <3>1, <3>2, <3>4, NodesApart DEF IsDrainRecord
      <3>6. ids'.by_obj[SyncOf(n)] \in DOMAIN ids'.by_id
            /\ Object(ids', ids'.by_obj[SyncOf(n)]) = SyncOf(n)
        BY <1>1, <3>5
      <3>7. ids'.by_obj[SyncOf(n)] >= ids.next
        BY <1>1, <1>5, <3>6
      <3> QED BY <1>6, <3>5, <3>6, <3>7
    <2> QED BY <1>7, <2>1, <2>2 DEF Told
  <1>8. ASSUME NEW c \in Told(records) \ Told(records')
        PROVE  c[2] \notin Present
    <2>0. \A i \in gone : \E n \in freed : records[i].node = NodeOf(n)
      BY <1>1, RecordFacts DEF IInv, ServerInv, RecordsInv
    <2>1. CASE \E i \in DOMAIN records : c = <<i, records[i].node>>
      <3>1. PICK i \in DOMAIN records : c = <<i, records[i].node>>
        BY <2>1
      <3>2. i \in gone
        BY <1>2, <1>8, <3>1 DEF Told
      <3> QED BY <1>3, <2>0, <3>1, <3>2, NodesApart DEF Present, NodesOf
    <2>2. CASE \E i \in WithSync(records) : c = <<records[i].sync, SyncOf(records[i].node[2])>>
      <3>1. PICK i \in WithSync(records) : c = <<records[i].sync, SyncOf(records[i].node[2])>>
        BY <2>2
      <3>2. i \in gone
        BY <1>2, <1>8, <3>1 DEF Told, WithSync
      <3>3. PICK n \in freed : records[i].node = NodeOf(n)
        BY <2>0, <3>2
      <3>4. c[2] = SyncOf(n) /\ n \in Nodes
        BY <1>3, <3>1, <3>3, NodesApart
      <3>5. SyncOf(n) \notin owned
        BY <3>4 DEF IInv, ServerInv, TreeInv
      <3> QED BY <3>4, <3>5, <1>3, NodesApart DEF Present, NodesOf
    <2> QED BY <1>8, <2>1, <2>2 DEF Told
  <1>9. \A c, d \in Told(records') : c[2] = d[2] => c = d
    <2>1. Distinct(records')
      BY DEF IInv, ServerInv, RecordsInv
    <2> QED BY <2>1, ToldOnce
  <1>10. IF ticks THEN Told(snapshot'.records) \subseteq Told(records') ELSE snapshot' = snapshot
    <2>1. CASE ticks
      <3>1. snapshot'.records = [i \in DOMAIN records' \ spawn_acked' |-> records'[i]]
        BY <2>1 DEF ServerPoll
      <3>2. /\ DOMAIN snapshot'.records \subseteq DOMAIN records'
            /\ \A i \in DOMAIN snapshot'.records : snapshot'.records[i] = records'[i]
        BY <3>1
      <3> QED BY <2>1, <3>2, ToldShrinks
    <2>2. CASE ~ticks
      BY <2>2 DEF ServerPoll
    <2> QED BY <2>1, <2>2
  <1> QED BY <1>7, <1>8, <1>9, <1>10

LEMMA PollMaps ==
    ASSUME IInv, IInv', NEW ticks \in BOOLEAN, ServerPoll(ticks), ticks => peer
    PROVE  Shared!Offer
PROOF
  <1>1. UNCHANGED <<born, freed, owned, peer, c_ids>>
    BY DEF ServerPoll, game, client
  <1>2. \A c, d \in Told(records') : c[1] = d[1] => c = d
    <2>1. \A c, d \in Claims' : c[1] = d[1] => c[2] = d[2]
      BY DEF IInv, NamesInv, OneName
    <2>2. \A c \in Told(records') : c \in Claims' /\ c = <<c[1], c[2]>>
      BY DEF Claims, Told
    <2> QED BY <2>1, <2>2
  <1>3. Told(snapshot'.records) = Told(snapshot.records)
           \/ (peer /\ Told(snapshot'.records) \subseteq Told(records'))
    <2>1. IF ticks THEN Told(snapshot'.records) \subseteq Told(records') ELSE snapshot' = snapshot
      BY PollOffers
    <2> QED BY <2>1
  <1>4. Present' = Present
    BY <1>1 DEF Present
  <1> QED BY <1>1, <1>2, <1>3, <1>4, PollOffers
          DEF Shared!Offer, Shared!OneToOne, Shared!WithdrawsGone

-----------------------------------------------------------------------------
(***************************************************************************)
(* bind learns its ids, and leaves the rest as they are.                   *)
(***************************************************************************)
LEMMA BindEachLearns ==
    ASSUME NEW m, NEW new
    PROVE  \A i \in DOMAIN BindEach(m, new).by_id :
              \/ /\ i \in DOMAIN new /\ BindEach(m, new).by_id[i].obj = new[i]
                 /\ BindEach(m, new).by_id[i].learned
              \/ i \in DOMAIN m.by_id /\ BindEach(m, new).by_id[i] = m.by_id[i]
PROOF
  <1> DEFINE objs == {new[i] : i \in DOMAIN new}
             kept == {i \in DOMAIN m.by_id \ DOMAIN new : m.by_id[i].obj \notin objs}
  <1>1. BindEach(m, new).by_id = [i \in kept \cup DOMAIN new |->
                                     IF i \in DOMAIN new THEN [obj |-> new[i], learned |-> TRUE]
                                     ELSE m.by_id[i]]
    BY DEF BindEach
  <1> QED BY <1>1

(***************************************************************************)
(* Taking records adds what they tell, learned, and of what the client     *)
(* knew it loses nothing that they do not tell otherwise.                  *)
(***************************************************************************)
LEMMA TakingAdds ==
    ASSUME IInv, NEW S \in SUBSET DOMAIN snapshot.records,
           NEW m, IsIds(m, Objects), IsInverse(m), Called(m) \subseteq Claims,
           NEW b, b = BindEach(m, Bindings(snapshot.records, S))
    PROVE  /\ IsIds(b, Objects) /\ IsInverse(b) /\ Called(b) \subseteq Claims
           /\ Called(b) \subseteq Called(m) \cup Told(snapshot.records)
           /\ \A c \in Called(m) :
                 (\A d \in Told(snapshot.records) : c[2] = d[2] => c = d) => c \in Called(b)
           /\ (\A i \in DOMAIN m.by_id : m.by_id[i].learned)
                 => \A i \in DOMAIN b.by_id : b.by_id[i].learned
PROOF
  <1> DEFINE new == Bindings(snapshot.records, S)
  <1>1. /\ IsIds(b, Objects) /\ IsInverse(b) /\ Called(b) \subseteq Claims
        /\ \A o \in Objects : \A i :
              /\ Object(m, i) = o
              /\ \A j : <<j, o>> \in Told(snapshot.records) => j = i
              => Object(b, i) = o
    BY TakingFacts
  <1>2. \A j \in DOMAIN new : <<j, new[j]>> \in Told(snapshot.records)
    BY BindingsFacts
  <1>0. b = BindEach(m, new)
    OBVIOUS
  <1> HIDE DEF new
  <1>3. \A i \in DOMAIN b.by_id :
           \/ i \in DOMAIN new /\ b.by_id[i].obj = new[i] /\ b.by_id[i].learned
           \/ i \in DOMAIN m.by_id /\ b.by_id[i] = m.by_id[i]
    BY ONLY <1>0, BindEachLearns
  <1>4. ASSUME NEW i \in DOMAIN b.by_id
        PROVE  <<i, b.by_id[i].obj>> \in Called(m) \cup Told(snapshot.records)
    <2>1. CASE i \in DOMAIN new /\ b.by_id[i].obj = new[i]
      BY <1>2, <2>1
    <2>2. CASE i \in DOMAIN m.by_id /\ b.by_id[i] = m.by_id[i]
      BY <2>2 DEF Called
    <2> QED BY <1>3, <2>1, <2>2
  <1>5. ASSUME NEW c \in Called(m),
               \A d \in Told(snapshot.records) : c[2] = d[2] => c = d
        PROVE  c \in Called(b)
    <2>1. PICK i \in DOMAIN m.by_id : c = <<i, Object(m, i)>> /\ Object(m, i) \in Objects
      BY ObjectFacts
    <2>2. \A j : <<j, Object(m, i)>> \in Told(snapshot.records) => j = i
      BY <1>5, <2>1
    <2>3. Object(b, i) = Object(m, i)
      BY <1>1, <2>1, <2>2
    <2>4. i \in DOMAIN b.by_id
      BY <2>1, <2>3, NoObjectAssumption DEF Object
    <2>5. c = <<i, b.by_id[i].obj>>
      BY <2>1, <2>3, <2>4 DEF Object
    <2> QED BY <2>4, <2>5 DEF Called
  <1>6. Called(b) \subseteq Called(m) \cup Told(snapshot.records)
    BY <1>4 DEF Called
  <1>7. (\A i \in DOMAIN m.by_id : m.by_id[i].learned)
           => \A i \in DOMAIN b.by_id : b.by_id[i].learned
    BY <1>3
  <1> QED BY <1>1, <1>5, <1>6, <1>7

(***************************************************************************)
(* What comes in a snapshot, the client gets; of what it had, it keeps all *)
(* that the server still offers.                                           *)
(***************************************************************************)
LEMMA ApplyTakes ==
    ASSUME SharedInv, Apply
    PROVE  /\ Called(c_ids') \subseteq Called(c_ids) \cup Told(snapshot.records)
           /\ Called(c_ids) \cap Told(records) \subseteq Called(c_ids')
           /\ AllLearned'
PROOF
  <1>0. IInv /\ HeldAgrees /\ AllLearned
    BY DEF SharedInv
  <1>1. PICK S \in SUBSET DOMAIN snapshot.records, T \in SUBSET DOMAIN snapshot.records :
           c_ids' = Despawn(TakenBoth(S, T), snapshot.despawns)
    BY ApplySteps
  <1> DEFINE f     == snapshot.records
             dead  == snapshot.despawns
             bound == BindEach(c_ids, Bindings(f, S))
             built == BindEach(bound, Bindings(f, T))
             syncs == BuiltSyncs(built, dead \cap client_spawned)
             D     == dead \cup {Id(built, o) : o \in syncs}
  <1>2. c_ids' = DropEach(built, D)
    BY <1>1 DEF TakenBoth, Despawn
  <1>3. /\ bound = BindEach(c_ids, Bindings(snapshot.records, S))
        /\ built = BindEach(bound, Bindings(snapshot.records, T))
    OBVIOUS
  <1>4. WithSyncs(built, dead, D)
    <2>1. \A o \in syncs : \E k \in Nodes : /\ o = SyncOf(k)
                                            /\ \E h \in dead : Object(built, h) = NodeOf(k)
      BY DEF BuiltSyncs
    <2> HIDE DEF built, syncs
    <2> QED BY <2>1 DEF WithSyncs
  <1> HIDE DEF bound, built, syncs, D
  <1>5. IsIds(c_ids, Objects) /\ IsInverse(c_ids) /\ Called(c_ids) \subseteq Claims
    BY <1>0 DEF IInv, TypeOK, OneToOne, Claims
  <1>6. /\ IsIds(bound, Objects) /\ IsInverse(bound) /\ Called(bound) \subseteq Claims
        /\ Called(bound) \subseteq Called(c_ids) \cup Told(f)
        /\ \A c \in Called(c_ids) :
              (\A d \in Told(f) : c[2] = d[2] => c = d) => c \in Called(bound)
        /\ \A i \in DOMAIN bound.by_id : bound.by_id[i].learned
    BY <1>0, <1>3, <1>5, TakingAdds DEF AllLearned
  <1>7. /\ IsIds(built, Objects) /\ IsInverse(built) /\ Called(built) \subseteq Claims
        /\ Called(built) \subseteq Called(c_ids) \cup Told(f)
        /\ \A c \in Called(c_ids) :
              (\A d \in Told(f) : c[2] = d[2] => c = d) => c \in Called(built)
        /\ \A i \in DOMAIN built.by_id : built.by_id[i].learned
    BY <1>0, <1>3, <1>6, TakingAdds
  <1>8. /\ IsIds(c_ids', Objects) /\ Called(c_ids') \subseteq Called(built)
        /\ \A i \in DOMAIN built.by_id \ DOMAIN c_ids'.by_id :
              i \in dead \/ \E k \in Nodes : /\ Object(built, i) = SyncOf(k)
                                           /\ \E h \in dead : Object(built, h) = NodeOf(k)
        /\ \A i \in DOMAIN c_ids'.by_id : c_ids'.by_id[i] = built.by_id[i]
    <2> HIDE DEF dead
    <2> QED BY <1>0, <1>2, <1>4, <1>7, DespawnFacts
  <1>9. DOMAIN c_ids'.by_id \subseteq DOMAIN built.by_id
    BY <1>2 DEF DropEach
  <1>10. AllLearned'
    BY <1>7, <1>8, <1>9 DEF AllLearned
  <1>11. ASSUME NEW c \in Called(c_ids) \cap Told(records) PROVE c \in Called(c_ids')
    <2>1. c \in Called(built)
      BY <1>0, <1>7 DEF HeldAgrees
    <2>2. PICK i \in DOMAIN built.by_id : c = <<i, built.by_id[i].obj>>
      BY <2>1 DEF Called
    <2>3. Object(built, i) = built.by_id[i].obj
      BY DEF Object
    <2>4. i \notin dead
      BY <1>0, <2>2, OfferedFacts DEF IInv, ClientInv, DespawnsInv
    <2>5. ASSUME NEW k \in Nodes, Object(built, i) = SyncOf(k),
                 NEW h \in dead, Object(built, h) = NodeOf(k)
          PROVE  FALSE
      <3>1. c = <<i, SyncOf(k)>>
        BY <2>2, <2>3, <2>5
      <3>2. PICK j \in DOMAIN records, n \in Nodes :
               records[j].sync # 0 /\ records[j].node = NodeOf(n)
               /\ c = <<records[j].sync, SyncOf(n)>>
        <4>1. ASSUME i \in DOMAIN records, records[i].node = SyncOf(k) PROVE FALSE
          <5>1. IsBind(records[i]) \/ IsSpawn(records[i])
            BY <1>0, <4>1, RecordFacts
          <5> QED BY <4>1, <5>1, NodesApart DEF IsBind, IsSpawn
        <4>2. c[1] = i /\ c[2] = SyncOf(k)
          BY <3>1
        <4>3. \E j \in DOMAIN records, n \in Nodes :
                 /\ records[j].sync # 0 /\ records[j].node = NodeOf(n)
                 /\ c = <<records[j].sync, SyncOf(n)>>
          BY <1>0, <4>1, <4>2, OfferedFacts
        <4> QED BY <4>3
      <3>3. n = k
        BY <3>1, <3>2, NodesApart
      <3>4. <<j, NodeOf(k)>> \in Claims
        BY <1>0, <3>2, <3>3, RecordFacts
      <3>5. <<h, NodeOf(k)>> \in Claims
        <4>1. h \in DOMAIN built.by_id
          BY <2>5, NodesApart, NoObjectAssumption DEF Object
        <4>2. <<h, built.by_id[h].obj>> \in Called(built) /\ built.by_id[h].obj = NodeOf(k)
          BY <2>5, <4>1 DEF Called, Object
        <4> QED BY <1>7, <4>2
      <3>6. h = j
        BY <1>0, <3>4, <3>5 DEF IInv, NamesInv, OneId
      <3> QED BY <1>0, <2>5, <3>6 DEF IInv, ClientInv, DespawnsInv
    <2>6. i \in DOMAIN c_ids'.by_id
      BY <1>8, <2>4, <2>5
    <2> QED BY <1>8, <2>2, <2>6 DEF Called
  <1>12. Called(c_ids') \subseteq Called(c_ids) \cup Told(snapshot.records)
    BY <1>7, <1>8
  <1> QED BY <1>10, <1>11, <1>12

LEMMA ApplyMaps ==
    ASSUME SharedInv, Apply PROVE Shared!Take
PROOF
  <1>1. /\ peer /\ snapshot' = Nothing
        /\ UNCHANGED <<born, freed, owned, ids, records, peer>>
    BY DEF Apply, game, server, core
  <1>2. Told(Nothing.records) = {}
    BY DEF Nothing, NoMap, Told, WithSync
  <1> QED BY <1>1, <1>2, ApplyTakes DEF Shared!Take, Present

-----------------------------------------------------------------------------
\* A session begins or ends with an empty map, or with the one it had.
LEMMA SessionMaps ==
    ASSUME SharedInv, Session
    PROVE  /\ Shared!NextSession
           /\ HeldAgrees' /\ AllLearned'
PROOF
  <1>1. /\ peer' = ~peer /\ snapshot' = Nothing
        /\ UNCHANGED <<born, freed, owned, ids, records>>
        /\ c_ids' = ForgetLearned(c_ids) \/ (peer /\ c_ids' = c_ids)
    BY DEF Session, Connect, Disconnect, ClientSwapsPeer, ForgetPeer, ResetClient,
           SharedInv, IInv, TypeOK, game, server, client
  <1>2. Told(Nothing.records) = {}
    BY DEF Nothing, NoMap, Told, WithSync
  <1>3. DOMAIN ForgetLearned(c_ids).by_id = {}
    BY DEF SharedInv, AllLearned, ForgetLearned, DropEach
  <1>4. Called(ForgetLearned(c_ids)) = {}
    BY <1>3 DEF Called
  <1>5. HeldAgrees'
    BY <1>1, <1>2 DEF HeldAgrees
  <1>6. AllLearned'
    BY <1>1, <1>3 DEF SharedInv, AllLearned
  <1> QED BY <1>1, <1>2, <1>4, <1>5, <1>6 DEF Shared!NextSession, Present

\* Steps of the others, too, leave the client to agree with the server.
LEMMA AgreesHolds ==
    ASSUME SharedInv, IInv', [Next]_vars PROVE HeldAgrees' /\ AllLearned'
PROOF
  <1>0. IInv /\ HeldAgrees /\ AllLearned
    BY DEF SharedInv
  <1>1. ASSUME Told(records') \subseteq Told(records),
               Told(snapshot'.records) \subseteq Told(snapshot.records),
               UNCHANGED c_ids
        PROVE  HeldAgrees' /\ AllLearned'
    BY <1>0, <1>1 DEF HeldAgrees, AllLearned
  <1>2. Told(Nothing.records) = {}
    BY DEF Nothing, NoMap, Told, WithSync
  <1>3. CASE Game
    <2>1. Shared!Move => Told(records') \subseteq Told(records)
      BY DEF Shared!Move
    <2>2. ASSUME NEW o \in PlacedSyncs, ClientExits(o) PROVE HeldAgrees' /\ AllLearned'
      <3>1. c_ids' = Release(c_ids, o) /\ UNCHANGED <<records, snapshot>>
        BY <2>2 DEF ClientExits, core, air
      <3>2. /\ DOMAIN c_ids'.by_id \subseteq DOMAIN c_ids.by_id
            /\ \A i \in DOMAIN c_ids'.by_id : c_ids'.by_id[i] = c_ids.by_id[i]
        BY <1>0, <3>1, ReleaseFacts DEF IInv, TypeOK, OneToOne
      <3>3. Called(c_ids') \subseteq Called(c_ids)
        BY <3>2, CalledShrinks
      <3> QED BY <1>0, <3>1, <3>2, <3>3 DEF HeldAgrees, AllLearned
    <2>3. ASSUME UNCHANGED <<snapshot, c_ids>> PROVE HeldAgrees' /\ AllLearned'
      <3>1. Shared!Unload \/ UNCHANGED Shared!vars => Told(records') = Told(records)
        BY DEF Shared!Unload, Shared!vars
      <3> QED BY <1>0, <1>1, <1>3, <2>1, <2>3, <3>1, GameMaps
    <2>4. \/ UNCHANGED <<snapshot, c_ids>>
          \/ \E o \in PlacedSyncs : ClientExits(o)
      BY <1>3 DEF Game, PlacedEnters, PlacedExits, Spawn, Free, FreeSync, Reparent, Exit,
                  ClientEnters, air, client
    <2> QED BY <2>2, <2>3, <2>4
  <1>4. ASSUME NEW ticks \in BOOLEAN, ServerPoll(ticks), ticks => peer
        PROVE  HeldAgrees' /\ AllLearned'
    <2>1. UNCHANGED c_ids
      BY <1>4 DEF ServerPoll, client
    <2>2. /\ \A c \in Told(records') \ Told(records) : c[1] \in ids.next .. (ids'.next - 1)
          /\ \A c, d \in Told(records') : c[2] = d[2] => c = d
          /\ IF ticks THEN Told(snapshot'.records) \subseteq Told(records')
             ELSE snapshot' = snapshot
      BY <1>0, <1>4, PollOffers
    <2>3. \A c \in Called(c_ids) : c[1] \in Nat /\ c[1] < ids.next /\ ids.next \in Nat
      BY <1>0, UsedAreOld DEF Claims
    <2>4. ids'.next \in Nat
      BY DEF IInv, TypeOK, IsIds
    <2>5. Called(c_ids) \cap Told(records') \subseteq Told(records)
      BY <2>2, <2>3, <2>4
    <2> QED BY <1>0, <2>1, <2>2, <2>5 DEF HeldAgrees, AllLearned
  <1>5. CASE Apply
    <2>1. snapshot' = Nothing
      BY <1>5 DEF Apply
    <2> QED BY <1>2, <1>5, <2>1, ApplyTakes DEF HeldAgrees
  <1>6. CASE Transport
    BY <1>1, <1>2, <1>6 DEF Transport, AckArrives, LoseSnapshot, LoseAck, core, client
  <1>7. CASE Session
    BY <1>7, SessionMaps
  <1>8. CASE UNCHANGED vars
    BY <1>1, <1>8 DEF vars, core, air, client
  <1> QED BY <1>3, <1>4, <1>5, <1>6, <1>7, <1>8 DEF Next, Poll, Tick

\* Every step is one of SharedNodes, or none.
LEMMA StepMaps ==
    ASSUME SharedInv, IInv', [Next]_vars
    PROVE  [Shared!Next]_(Shared!vars)
PROOF
  <1>0. IInv
    BY DEF SharedInv
  <1>1. CASE Game
    BY <1>0, <1>1, GameMaps DEF Shared!Next
  <1>2. CASE Poll \/ Tick
    BY <1>0, <1>2, PollMaps DEF Shared!Next, Poll, Tick
  <1>3. CASE Apply
    BY <1>3, ApplyMaps DEF Shared!Next
  <1>4. CASE Transport
    <2>1. UNCHANGED <<born, freed, owned, ids, records, peer, c_ids>>
      BY <1>4 DEF Transport, AckArrives, LoseSnapshot, LoseAck, game, server, core, client
    <2>2. snapshot' \in {snapshot, Nothing}
      BY <1>4 DEF Transport, AckArrives, LoseSnapshot, LoseAck
    <2>3. Told(Nothing.records) = {}
      BY DEF Nothing, NoMap, Told, WithSync
    <2> QED BY <2>1, <2>2, <2>3 DEF Shared!Next, Shared!Lose, Shared!vars, Present
  <1>5. CASE Session
    BY <1>5, SessionMaps DEF Shared!Next
  <1>6. CASE UNCHANGED vars
    BY <1>6 DEF vars, game, server, core, air, client, Shared!vars, Present
  <1> QED BY <1>1, <1>2, <1>3, <1>4, <1>5, <1>6 DEF Next

LEMMA InitMaps == Init => Shared!Init /\ HeldAgrees /\ AllLearned
PROOF
  <1> SUFFICES ASSUME Init PROVE Shared!Init /\ HeldAgrees /\ AllLearned
    OBVIOUS
  <1>1. NoIds.next = 1 /\ DOMAIN NoIds.by_id = {} /\ Called(NoIds) = {}
    BY DEF NoIds, Called
  <1>2. Told(NoMap) = {} /\ Nothing.records = NoMap
    BY DEF NoMap, Nothing, Told, WithSync
  <1>3. Present \subseteq Objects /\ NodesOf(freed) = {}
    BY NodesApart DEF Init, Present, NodesOf
  <1> QED BY <1>1, <1>2, <1>3 DEF Init, Shared!Init, HeldAgrees, AllLearned

(***************************************************************************)
(* Replication does what SharedNodes promises: for any scene, any number   *)
(* of spawned nodes and of ids, a client comes to have a node only as the  *)
(* server offers it, keeps it in a session while the server has it, and    *)
(* gets no node back that is freed, whatever is lost and in whatever order *)
(* records, despawns, acknowledgements and sessions come.                  *)
(***************************************************************************)
THEOREM ClientHasWhatServerOffers == Spec => ClientShares
PROOF
  <1>1. Init => Shared!Init /\ SharedInv
    BY InitHolds, InitMaps DEF SharedInv
  <1>2. SharedInv /\ [Next]_vars => SharedInv' /\ [Shared!Next]_(Shared!vars)
    <2>1. SharedInv /\ [Next]_vars => IInv'
      BY StepHolds DEF SharedInv
    <2> QED BY <2>1, AgreesHolds, StepMaps DEF SharedInv
  <1> QED BY <1>1, <1>2, PTL DEF Spec, ClientShares, Shared!Spec
=============================================================================
