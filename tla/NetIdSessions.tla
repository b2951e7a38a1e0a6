---------------------------- MODULE NetIdSessions ----------------------------
(***************************************************************************)
(* One process's net ids over a run of sessions: it hosts, it joins other  *)
(* servers, its synchronizers enter and leave the tree all the while.      *)
(* Which of the id map's operations run, and when the map is cleared, is   *)
(* GoldNetMultiplayer's: _object_configuration_add/remove, _add_entities,  *)
(* _apply_bind, _apply_despawn, _detect_despawns, and the lifecycle relays *)
(* with _set_multiplayer_peer.                                             *)
(***************************************************************************)
EXTENDS NetIds

CONSTANTS
    Objs,       \* the synchronizers of this process
    SwapsPeer,  \* the game may set a new peer in place of a connected one
    HostJoins,  \* a process that has hosted may join a server later
    MaxId       \* bound: ids handed out here, and ids other servers name

ASSUME ObjsAssumption   == IsFiniteSet(Objs) /\ NoObject \notin Objs
ASSUME SwitchAssumption == SwapsPeer \in BOOLEAN /\ HostJoins \in BOOLEAN
ASSUME MaxIdAssumption  == MaxId \in Nat

VARIABLES
    ids,             \* the id map
    owned,           \* synchronizers in the tree that goldnet claimed
    entities_to_add, \* those the core has not been handed yet
    bind_ids,        \* ids with a bind record in the core
    role,            \* "none", "host", "joining" or "client"
    hosted           \* this process has hosted before

vars == <<ids, owned, entities_to_add, bind_ids, role, hosted>>

Init ==
    /\ ids = NoIds
    /\ owned = {} /\ entities_to_add = {} /\ bind_ids = {}
    /\ role = "none" /\ hosted = FALSE

(***************************************************************************)
(* The tree                                                                *)
(***************************************************************************)

\* _object_configuration_add, on either end.
Register(o) ==
    /\ o \notin owned
    /\ owned' = owned \cup {o}
    /\ entities_to_add' = entities_to_add \cup {o}
    /\ UNCHANGED <<ids, bind_ids, role, hosted>>

UnregisterStillWaiting(o) ==
    /\ o \in owned
    /\ ids' = Release(ids, o)
    /\ owned' = owned \ {o}
    /\ bind_ids' = bind_ids \ {Id(ids, o)}
    /\ UNCHANGED <<entities_to_add, role, hosted>>

\* _object_configuration_remove: the id goes, and its bind record with it.
Unregister(o) ==
    /\ o \in owned
    /\ ids' = Release(ids, o)
    /\ owned' = owned \ {o}
    /\ entities_to_add' = entities_to_add \ {o}
    /\ bind_ids' = bind_ids \ {Id(ids, o)}
    /\ UNCHANGED <<role, hosted>>

(***************************************************************************)
(* Hosting                                                                 *)
(***************************************************************************)

\* The server's poll and tick: _detect_despawns, then _add_entities hands the
\* core every waiting synchronizer, each with a bind record.
Gone == {i \in bind_ids : Object(ids, i) = NoObject}

HostTick ==
    /\ role = "host"
    /\ ids.next + Cardinality(entities_to_add) <= MaxId + 1
    /\ \E num \in Numberings(ids, entities_to_add) :
          /\ ids' = AssignEach(ids, num)
          /\ bind_ids' = (bind_ids \ Gone)
                           \cup {Id(ids', o) : o \in entities_to_add}
    /\ entities_to_add' = {}
    /\ UNCHANGED <<owned, role, hosted>>

(***************************************************************************)
(* Being a client                                                          *)
(***************************************************************************)

\* _apply_bind: a record says which of our synchronizers an id is.
LearnId(i, o) ==
    /\ role = "client" /\ o \in owned
    /\ ids' = Bind(ids, i, o)
    /\ UNCHANGED <<owned, entities_to_add, bind_ids, role, hosted>>

\* _apply_despawn of a bind record.
UnlearnId(i) ==
    /\ role = "client" /\ i \in DOMAIN ids.by_id
    /\ ids' = Drop(ids, i)
    /\ UNCHANGED <<owned, entities_to_add, bind_ids, role, hosted>>

(***************************************************************************)
(* Sessions                                                                *)
(***************************************************************************)
KeepIds == ids' = ids
ForgetAllIds == ids' = NoIds

ForgetIds == ids' = ForgetLearned(ids)

StartHost ==
    /\ role = "none" \/ (SwapsPeer /\ role # "none")
    /\ role' = "host" /\ hosted' = TRUE
    /\ UNCHANGED <<ids, owned, entities_to_add, bind_ids>>

StartJoin ==
    /\ role = "none" \/ (SwapsPeer /\ role # "none")
    /\ hosted => HostJoins
    /\ role' = "joining"
    /\ UNCHANGED <<ids, owned, entities_to_add, bind_ids, hosted>>

\* _relay_connected_to_server: _reset_client_state.
Joined ==
    /\ role = "joining" /\ role' = "client"
    /\ ForgetIds
    /\ UNCHANGED <<owned, entities_to_add, bind_ids, hosted>>

\* _relay_connection_failed resets nothing.
JoinFails ==
    /\ role = "joining" /\ role' = "none"
    /\ UNCHANGED <<ids, owned, entities_to_add, bind_ids, hosted>>

\* _relay_server_disconnected, on a client or on a host whose peer closed.
SessionEnds ==
    /\ role \in {"host", "client"} /\ role' = "none"
    /\ ForgetIds
    /\ UNCHANGED <<owned, entities_to_add, bind_ids, hosted>>

Next ==
    \/ \E o \in Objs : Register(o) \/ Unregister(o)
    \/ HostTick
    \/ \E i \in 1..MaxId, o \in Objs : LearnId(i, o)
    \/ \E i \in 1..MaxId : UnlearnId(i)
    \/ StartHost \/ StartJoin \/ Joined \/ JoinFails \/ SessionEnds

Spec == Init /\ [][Next]_vars

-----------------------------------------------------------------------------
TypeOK ==
    /\ IsIds(ids, Objs)
    /\ owned \subseteq Objs /\ entities_to_add \subseteq owned
    /\ bind_ids \subseteq Nat \ {0}
    /\ role \in {"none", "host", "joining", "client"}
    /\ hosted \in BOOLEAN

(***************************************************************************)
(* "The server hands ids out, counting from 1 and never twice in a         *)
(* session" (goldnet_net_ids.h): no two nodes share an id, no node has     *)
(* two, whatever roles the process has been in before.                     *)
(***************************************************************************)
IdsOneToOne == IsInverse(ids)

(***************************************************************************)
(* While it hosts, every synchronizer the core was handed is named by a    *)
(* bind record that is still there: "A host's own, its server's, stay"     *)
(* (forget_learned) until the node itself goes.                            *)
(***************************************************************************)
HostsOwnStay == role = "host" =>
    \A o \in owned \ entities_to_add : Id(ids, o) \in bind_ids

(***************************************************************************)
(* A client's map is its present server's: outside a client session no id  *)
(* another server gave is left to be taken for one of this process's own.  *)
(***************************************************************************)
LearnedOnlyInSession == role \in {"none", "host"} =>
    \A i \in DOMAIN ids.by_id : ~ids.by_id[i].learned /\ i < ids.next
=============================================================================
