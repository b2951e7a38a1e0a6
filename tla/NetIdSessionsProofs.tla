------------------------- MODULE NetIdSessionsProofs -------------------------
(***************************************************************************)
(* Of a process that closes its session before it starts another: its id   *)
(* map stays one to one through every role it takes; and if it joins no    *)
(* server once it has hosted, a host's own ids stay.                       *)
(***************************************************************************)
EXTENDS NetIdSessions, NetIdsProofs

\* Ids handed out here lie below the next one.
OwnBelowNext == \A i \in DOMAIN ids.by_id : ~ids.by_id[i].learned => i < ids.next

\* Only a client holds ids another server gave.
LearnedByClient == role # "client" => \A i \in DOMAIN ids.by_id : ~ids.by_id[i].learned

\* Every synchronizer the core has been handed keeps the id of its bind record.
OwnNamed ==
    /\ role = "host" => hosted
    /\ hosted => role \in {"none", "host"}
    /\ \A o \in owned \ entities_to_add :
          hosted /\ o \in DOMAIN ids.by_obj /\ ids.by_obj[o] \in bind_ids

MapInv == TypeOK /\ IdsOneToOne /\ OwnBelowNext /\ LearnedByClient

-----------------------------------------------------------------------------

\* An empty map.
LEMMA MapInvInit == Init => MapInv
PROOF
  <1> SUFFICES ASSUME Init PROVE MapInv
    OBVIOUS
  <1>1. /\ ids.by_id = [i \in {} |-> i] /\ ids.by_obj = [o \in {} |-> o]
        /\ ids.next = 1 /\ ids = [by_id |-> ids.by_id, by_obj |-> ids.by_obj, next |-> ids.next]
    BY DEF Init, NoIds
  <1>2. IsIds(ids, Objs)
    BY <1>1 DEF IsIds
  <1>3. TypeOK
    BY <1>2 DEF Init, TypeOK
  <1>4. IdsOneToOne /\ OwnBelowNext /\ LearnedByClient
    BY <1>1 DEF IdsOneToOne, IsInverse, OwnBelowNext, LearnedByClient
  <1> QED BY <1>3, <1>4 DEF MapInv

\* Taking ids away keeps the invariant of the map.
LEMMA MapInvDrop ==
    ASSUME MapInv, NEW S, ids' = DropEach(ids, S)
    PROVE  /\ IsIds(ids, Objs)' /\ IdsOneToOne' /\ OwnBelowNext'
           /\ DOMAIN ids'.by_id = DOMAIN ids.by_id \ S
           /\ \A i \in DOMAIN ids'.by_id : ids'.by_id[i] = ids.by_id[i]
           /\ DOMAIN ids'.by_obj = {o \in DOMAIN ids.by_obj : ids.by_obj[o] \notin S}
           /\ \A o \in DOMAIN ids'.by_obj : ids'.by_obj[o] = ids.by_obj[o]
PROOF
  <1>1. IsIds(ids, Objs) /\ IsInverse(ids)
    BY DEF MapInv, TypeOK, IdsOneToOne
  <1>2. /\ IsIds(ids', Objs) /\ IsInverse(ids') /\ ids'.next = ids.next
        /\ DOMAIN ids'.by_id = DOMAIN ids.by_id \ S
        /\ \A i \in DOMAIN ids.by_id \ S : ids'.by_id[i] = ids.by_id[i]
        /\ DOMAIN ids'.by_obj = {o \in DOMAIN ids.by_obj : ids.by_obj[o] \notin S}
        /\ \A o \in DOMAIN ids'.by_obj : ids'.by_obj[o] = ids.by_obj[o]
    BY <1>1, DropEachFacts
  <1>3. OwnBelowNext'
    BY <1>2 DEF MapInv, OwnBelowNext
  <1> QED BY <1>2, <1>3 DEF IdsOneToOne

\* Releasing a node is dropping its id.
LEMMA ReleaseIsDropEach ==
    ASSUME MapInv, NEW o
    PROVE  Release(ids, o) = DropEach(ids, {Id(ids, o)})
PROOF BY DropIsDropEach DEF Release, MapInv, TypeOK

\* What a host's tick does to the map.
LEMMA MapInvTick ==
    ASSUME MapInv, HostTick
    PROVE  /\ IsIds(ids, Objs)' /\ IdsOneToOne'
           /\ \A i \in DOMAIN ids'.by_id : ~ids'.by_id[i].learned /\ i < ids'.next
           /\ DOMAIN ids'.by_obj = DOMAIN ids.by_obj \cup entities_to_add
           /\ \A o \in DOMAIN ids.by_obj : ids'.by_obj[o] = ids.by_obj[o]
           /\ bind_ids' = (bind_ids \ Gone) \cup {Id(ids', o) : o \in entities_to_add}
PROOF
  <1>1. PICK num \in Numberings(ids, entities_to_add) :
            /\ ids' = AssignEach(ids, num)
            /\ bind_ids' = (bind_ids \ Gone) \cup {Id(ids', o) : o \in entities_to_add}
    BY DEF HostTick
  <1>2. IsIds(ids, Objs) /\ IsInverse(ids)
    BY DEF MapInv, TypeOK, IdsOneToOne
  <1>3. entities_to_add \subseteq Objs /\ IsFiniteSet(entities_to_add)
    <2>1. entities_to_add \subseteq Objs
      BY DEF MapInv, TypeOK
    <2> QED BY <2>1, ObjsAssumption, FS_Subset
  <1>4. \A i \in DOMAIN ids.by_id : ~ids.by_id[i].learned /\ i < ids.next
    BY DEF MapInv, OwnBelowNext, LearnedByClient, HostTick
  <1>5. /\ IsIds(ids', Objs) /\ IsInverse(ids')
        /\ \A i \in DOMAIN ids'.by_id : i < ids'.next
        /\ DOMAIN ids'.by_obj = DOMAIN ids.by_obj \cup entities_to_add
        /\ \A o \in DOMAIN ids.by_obj : ids'.by_obj[o] = ids.by_obj[o]
        /\ \A i \in DOMAIN ids'.by_id :
              \/ i \in DOMAIN ids.by_id /\ ids'.by_id[i] = ids.by_id[i]
              \/ ~ids'.by_id[i].learned
    BY <1>1, <1>2, <1>3, <1>4, AssignEachFacts
  <1>6. \A i \in DOMAIN ids'.by_id : ~ids'.by_id[i].learned
    BY <1>4, <1>5
  <1> QED BY <1>1, <1>5, <1>6 DEF IdsOneToOne

(***************************************************************************)
(* Every step keeps the map's invariant, when no peer is set in place of   *)
(* one that is connected.                                                  *)
(***************************************************************************)
LEMMA MapInvNext ==
    ASSUME SwapsPeer = FALSE
    PROVE  MapInv /\ [Next]_vars => MapInv'
PROOF
  <1> SUFFICES ASSUME MapInv, [Next]_vars PROVE MapInv'
    OBVIOUS
  <1> USE DEF MapInv
  <1>1. ASSUME NEW o \in Objs, Register(o) PROVE MapInv'
    BY <1>1 DEF Register, TypeOK, IdsOneToOne, OwnBelowNext, LearnedByClient
  <1>2. ASSUME NEW o \in Objs, Unregister(o) PROVE MapInv'
    <2>1. ids' = DropEach(ids, {Id(ids, o)})
      BY <1>2, ReleaseIsDropEach DEF Unregister
    <2>2. /\ IsIds(ids, Objs)' /\ IdsOneToOne' /\ OwnBelowNext'
          /\ DOMAIN ids'.by_id \subseteq DOMAIN ids.by_id
          /\ \A i \in DOMAIN ids'.by_id : ids'.by_id[i] = ids.by_id[i]
      BY <2>1, MapInvDrop
    <2>3. LearnedByClient'
      BY <1>2, <2>2 DEF LearnedByClient, Unregister
    <2>4. TypeOK'
      BY <1>2, <2>2 DEF TypeOK, Unregister
    <2> QED BY <2>2, <2>3, <2>4
  <1>3. ASSUME HostTick PROVE MapInv'
    <2>1. /\ IsIds(ids, Objs)' /\ IdsOneToOne'
          /\ \A i \in DOMAIN ids'.by_id : ~ids'.by_id[i].learned /\ i < ids'.next
          /\ DOMAIN ids'.by_obj = DOMAIN ids.by_obj \cup entities_to_add
          /\ bind_ids' = (bind_ids \ Gone) \cup {Id(ids', o) : o \in entities_to_add}
      BY <1>3, MapInvTick
    <2>2. \A o \in entities_to_add : Id(ids', o) \in Nat \ {0}
      BY <2>1 DEF IsIds, Id
    <2>3. TypeOK'
      BY <1>3, <2>1, <2>2 DEF TypeOK, HostTick
    <2> QED BY <2>1, <2>3 DEF OwnBelowNext, LearnedByClient
  <1>4. ASSUME NEW i \in 1..MaxId, NEW o \in Objs, LearnId(i, o) PROVE MapInv'
    <2>1. IsIds(ids, Objs) /\ IsInverse(ids) /\ i \in Nat \ {0}
      BY MaxIdAssumption DEF TypeOK, IdsOneToOne
    <2>2. /\ IsIds(ids', Objs) /\ IsInverse(ids') /\ ids'.next = ids.next
          /\ DOMAIN ids'.by_id \subseteq DOMAIN ids.by_id \cup {i}
          /\ ids'.by_id[i] = [obj |-> o, learned |-> TRUE]
          /\ \A j \in DOMAIN ids'.by_id \ {i} : ids'.by_id[j] = ids.by_id[j]
      BY <1>4, <2>1, BindFacts DEF LearnId
    <2>3. OwnBelowNext'
      BY <2>2 DEF OwnBelowNext
    <2>4. role' = "client"
      BY <1>4 DEF LearnId
    <2>5. TypeOK'
      BY <1>4, <2>2 DEF TypeOK, LearnId
    <2> QED BY <2>2, <2>3, <2>4, <2>5 DEF IdsOneToOne, LearnedByClient
  <1>5. ASSUME NEW i \in 1..MaxId, UnlearnId(i) PROVE MapInv'
    <2>1. ids' = DropEach(ids, {i})
      BY <1>5, DropIsDropEach DEF UnlearnId, TypeOK
    <2>2. IsIds(ids, Objs)' /\ IdsOneToOne' /\ OwnBelowNext'
      BY <2>1, MapInvDrop
    <2>3. role' = "client"
      BY <1>5 DEF UnlearnId
    <2>4. TypeOK'
      BY <1>5, <2>2 DEF TypeOK, UnlearnId
    <2> QED BY <2>2, <2>3, <2>4 DEF LearnedByClient
  <1>6. ASSUME StartHost \/ StartJoin \/ JoinFails PROVE MapInv'
    <2>1. UNCHANGED <<ids, owned, entities_to_add, bind_ids>> /\ role # "client"
      BY <1>6 DEF StartHost, StartJoin, JoinFails
    <2>2. role' \in {"host", "joining", "none"} /\ hosted' \in BOOLEAN
      BY <1>6 DEF StartHost, StartJoin, JoinFails, TypeOK
    <2> QED BY <2>1, <2>2 DEF TypeOK, IdsOneToOne, OwnBelowNext, LearnedByClient
  <1>7. ASSUME Joined \/ SessionEnds PROVE MapInv'
    <2> DEFINE learned == {i \in DOMAIN ids.by_id : ids.by_id[i].learned}
    <2>1. ids' = DropEach(ids, learned)
      BY <1>7 DEF Joined, SessionEnds, ForgetIds, ForgetLearned
    <2>2. /\ IsIds(ids, Objs)' /\ IdsOneToOne' /\ OwnBelowNext'
          /\ DOMAIN ids'.by_id = DOMAIN ids.by_id \ learned
          /\ \A i \in DOMAIN ids'.by_id : ids'.by_id[i] = ids.by_id[i]
      BY <2>1, MapInvDrop
    <2>3. LearnedByClient'
      BY <2>2 DEF LearnedByClient
    <2>4. TypeOK'
      BY <1>7, <2>2 DEF TypeOK, Joined, SessionEnds
    <2> QED BY <2>2, <2>3, <2>4
  <1>8. CASE UNCHANGED vars
    BY <1>8 DEF vars, TypeOK, IdsOneToOne, OwnBelowNext, LearnedByClient
  <1> QED BY <1>1, <1>2, <1>3, <1>4, <1>5, <1>6, <1>7, <1>8 DEF Next

\* The map is as it should be in every state.
LEMMA MapAlways == ASSUME SwapsPeer = FALSE PROVE Spec => []MapInv
PROOF
  <1>1. Init => MapInv
    BY MapInvInit
  <1>2. MapInv /\ [Next]_vars => MapInv'
    BY MapInvNext
  <1> QED BY <1>1, <1>2, PTL DEF Spec

(***************************************************************************)
(* The state of a process's id map keeps its types.                        *)
(***************************************************************************)
THEOREM SessionTypes == ASSUME SwapsPeer = FALSE PROVE Spec => []TypeOK
PROOF
  <1>1. MapInv => TypeOK
    BY DEF MapInv
  <1> QED BY <1>1, MapAlways, PTL

(***************************************************************************)
(* No two nodes share an id and no node has two, whatever roles a process  *)
(* that closes each session before the next has taken.                     *)
(***************************************************************************)
THEOREM IdsStayOneToOne == ASSUME SwapsPeer = FALSE PROVE Spec => []IdsOneToOne
PROOF
  <1>1. MapInv => IdsOneToOne
    BY DEF MapInv
  <1> QED BY <1>1, MapAlways, PTL

(***************************************************************************)
(* No id another server gave outlives the session with it.                 *)
(***************************************************************************)
THEOREM LearnedGoWithSession ==
    ASSUME SwapsPeer = FALSE PROVE Spec => []LearnedOnlyInSession
PROOF
  <1>1. MapInv => LearnedOnlyInSession
    BY DEF MapInv, LearnedOnlyInSession, OwnBelowNext, LearnedByClient
  <1> QED BY <1>1, MapAlways, PTL

(***************************************************************************)
(* The ids of the synchronizers the core has: a step of a process that has *)
(* not hosted has none to lose, and a host holds no learned id to forget.  *)
(***************************************************************************)
LEMMA OwnNamedNext ==
    ASSUME SwapsPeer = FALSE, HostJoins = FALSE
    PROVE  MapInv /\ OwnNamed /\ [Next]_vars => OwnNamed'
PROOF
  <1> SUFFICES ASSUME MapInv, OwnNamed, [Next]_vars PROVE OwnNamed'
    OBVIOUS
  <1>0. /\ IsIds(ids, Objs) /\ IsInverse(ids) /\ entities_to_add \subseteq owned
        /\ owned \subseteq Objs
    BY DEF MapInv, TypeOK, IdsOneToOne
  <1>1. ASSUME NEW o \in Objs, Register(o) PROVE OwnNamed'
    BY <1>1 DEF Register, OwnNamed
  <1>2. ASSUME NEW o \in Objs, Unregister(o) PROVE OwnNamed'
    <2>1. ids' = DropEach(ids, {Id(ids, o)})
      BY <1>2, ReleaseIsDropEach DEF Unregister
    <2>2. /\ DOMAIN ids'.by_obj = {p \in DOMAIN ids.by_obj : ids.by_obj[p] \notin {Id(ids, o)}}
          /\ \A p \in DOMAIN ids'.by_obj : ids'.by_obj[p] = ids.by_obj[p]
      BY <2>1, MapInvDrop
    <2>3. \A p \in DOMAIN ids.by_obj : p # o => ids.by_obj[p] # Id(ids, o)
      BY <1>0 DEF IsInverse, IsIds, Id
    <2>4. \A p \in owned' \ entities_to_add' :
             /\ p # o /\ p \in owned \ entities_to_add
             /\ p \in DOMAIN ids'.by_obj /\ ids'.by_obj[p] \in bind_ids'
      BY <1>2, <2>2, <2>3 DEF Unregister, OwnNamed
    <2> QED BY <1>2, <2>4 DEF Unregister, OwnNamed
  <1>3. ASSUME HostTick PROVE OwnNamed'
    <2>1. /\ DOMAIN ids'.by_obj = DOMAIN ids.by_obj \cup entities_to_add
          /\ \A o \in DOMAIN ids.by_obj : ids'.by_obj[o] = ids.by_obj[o]
          /\ bind_ids' = (bind_ids \ Gone) \cup {Id(ids', o) : o \in entities_to_add}
      BY <1>3, MapInvTick
    <2>2. \A o \in owned \ entities_to_add :
             o \in DOMAIN ids'.by_obj /\ ids'.by_obj[o] \in bind_ids'
      <3> SUFFICES ASSUME NEW o \in owned \ entities_to_add
                   PROVE  o \in DOMAIN ids'.by_obj /\ ids'.by_obj[o] \in bind_ids'
        OBVIOUS
      <3>1. o \in DOMAIN ids.by_obj /\ ids.by_obj[o] \in bind_ids
        BY DEF OwnNamed
      <3>2. Object(ids, ids.by_obj[o]) = o /\ o # NoObject
        BY <1>0, <3>1, ObjsAssumption DEF IsInverse, Object
      <3>3. ids.by_obj[o] \notin Gone
        BY <3>2 DEF Gone
      <3> QED BY <2>1, <3>1, <3>3
    <2>3. \A o \in entities_to_add :
             o \in DOMAIN ids'.by_obj /\ ids'.by_obj[o] \in bind_ids'
      BY <2>1 DEF Id
    <2>4. /\ role = "host" /\ role' = role /\ hosted' = hosted
          /\ owned' = owned /\ entities_to_add' = {}
      BY <1>3 DEF HostTick
    <2> QED BY <2>2, <2>3, <2>4 DEF OwnNamed
  <1>4. ASSUME \/ \E i \in 1..MaxId, o \in Objs : LearnId(i, o)
               \/ \E i \in 1..MaxId : UnlearnId(i)
        PROVE  OwnNamed'
    <2>1. /\ UNCHANGED <<owned, entities_to_add, role, hosted>> /\ role = "client"
      BY <1>4 DEF LearnId, UnlearnId
    <2> QED BY <2>1 DEF OwnNamed
  <1>5. ASSUME StartHost \/ StartJoin \/ JoinFails PROVE OwnNamed'
    BY <1>5 DEF StartHost, StartJoin, JoinFails, OwnNamed
  <1>6. ASSUME Joined PROVE OwnNamed'
    BY <1>6 DEF Joined, OwnNamed
  <1>7. ASSUME SessionEnds PROVE OwnNamed'
    <2> DEFINE learned == {i \in DOMAIN ids.by_id : ids.by_id[i].learned}
    <2>1. ids' = DropEach(ids, learned)
      BY <1>7 DEF SessionEnds, ForgetIds, ForgetLearned
    <2>2. /\ DOMAIN ids'.by_obj = {o \in DOMAIN ids.by_obj : ids.by_obj[o] \notin learned}
          /\ \A o \in DOMAIN ids'.by_obj : ids'.by_obj[o] = ids.by_obj[o]
      BY <2>1, MapInvDrop
    <2>3. role = "host" => learned = {}
      BY DEF MapInv, LearnedByClient
    <2>4. UNCHANGED <<owned, entities_to_add, bind_ids, hosted>> /\ role' = "none"
      BY <1>7 DEF SessionEnds
    <2>5. CASE role = "host"
      BY <2>2, <2>3, <2>4, <2>5 DEF OwnNamed
    <2>6. CASE role = "client"
      BY <2>4, <2>6 DEF OwnNamed
    <2> QED BY <1>7, <2>5, <2>6 DEF SessionEnds
  <1>8. CASE UNCHANGED vars
    BY <1>8 DEF vars, OwnNamed
  <1> QED BY <1>1, <1>2, <1>3, <1>4, <1>5, <1>6, <1>7, <1>8 DEF Next

(***************************************************************************)
(* While a process hosts, every synchronizer the core was handed is named  *)
(* by a bind record that is still there, whatever sessions it joined       *)
(* before it first hosted and however often it hosts again.                *)
(***************************************************************************)
THEOREM HostsOwnNamed ==
    ASSUME SwapsPeer = FALSE, HostJoins = FALSE PROVE Spec => []HostsOwnStay
PROOF
  <1>1. Init => OwnNamed
    BY DEF Init, OwnNamed
  <1>2. MapInv /\ OwnNamed /\ [Next]_vars => OwnNamed'
    BY OwnNamedNext
  <1>3. OwnNamed => HostsOwnStay
    BY DEF OwnNamed, HostsOwnStay, Id
  <1> QED BY <1>1, <1>2, <1>3, MapAlways, PTL DEF Spec

=============================================================================
