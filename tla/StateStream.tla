----------------------------- MODULE StateStream -----------------------------
(***************************************************************************)
(* The state of one synchronizer, from the host's properties to a          *)
(* client's: what a tick reads of it and when, what a snapshot says of it  *)
(* against a baseline, and what the client makes of that with the coding   *)
(* it worked out itself.                                                   *)
(*                                                                         *)
(* The goldnet core is external.  It stamps what a tick reads, codes a     *)
(* snapshot against the newest one the client acknowledged, whole before   *)
(* there is one, and hands each end the values it holds of that baseline.  *)
(* It applies no snapshot older than the last, acknowledges one whose      *)
(* entity was refused for good (ENTITY_SKIP), and passes over an update    *)
(* against a snapshot it has no values of.  Snapshots and acknowledgements *)
(* may be lost; a snapshot is known by its number, and its header says it  *)
(* was sent at ServerTime of that.                                         *)
(*                                                                         *)
(* game is what the two games have in their scenes and do with them.       *)
(***************************************************************************)
EXTENDS SlotCodings, SendClock

CONSTANTS
    Games,     \* the games looked at
    Followed   \* the synchronizer whose state it is

ASSUME FollowedAssumption == Followed \in Syncs

\* A slot with no property here, which reads as nil and is not set.
Hole == "hole"

\* Values have the widths' room.  A scene has a property once, and what both
\* ends have of it is at one place.
ASSUME GamesAssumption == \A g \in Games :
    /\ g.frames \in Nat
    /\ Hole \notin DOMAIN g.values
    /\ \A a \in DOMAIN g.values : \A v \in g.values[a] : InWidth(v)
    /\ \A p, q \in {SyncSlots(g.server), SyncSlots(g.client)} : \A s \in DOMAIN p :
          /\ p[s].grid \in Int
          /\ \A i \in DOMAIN q : p[s].at = q[i].at /\ p[s].at # Hole => s = i

VARIABLES
    game,     \* one of Games
    prop,     \* host: name -> the property's value, Nil once its node is freed
    entity,   \* host: "none", "waiting" in entities_to_add, or "added" to the core
    dirty,    \* host: the next tick reads all of it
    route,    \* host: dirty_route of the node: Unset, Nobody, or a synchronizer
    stamped,  \* host: slot -> the value last read
    frames,   \* snapshots sent, each the values, the baseline it was coded against, and
              \* history: how many baselines it takes back to a whole one
    acked,    \* host: the newest one acknowledged, 0 none
    inside,   \* client: its synchronizer is in the tree
    coding,   \* client: its client_slot_codings entry
    held,     \* client: snapshot -> the values it has of it, <<>> none
    shown,    \* client: name -> the property's value
    told,     \* history: who was marked since the last change: "no", "node", "sync"
    written   \* history: the client's game wrote the property since it was last set

stream == <<stamped, frames, acked>>
client == <<inside, coding, held, shown, written>>
vars == <<game, prop, entity, dirty, route, stream, client, told, clock>>

Unset == "unset"
Nobody == "nobody"
NoCoding == <<>>

Names == DOMAIN prop
Does(what) == what \in game.does

ServerSlots == SyncSlots(game.server)
ClientSlots == SyncSlots(game.client)
ServerCoding == MakeSlotCoding(game.server)
Latest == IF DOMAIN held = {} THEN 0 ELSE Max(DOMAIN held)
ServerTime(k) == 2 * k

TypeOK ==
    /\ game \in Games
    /\ \A a \in Names : prop[a] \in game.values[a] \cup {Nil}
    /\ entity \in {"none", "waiting", "added"}
    /\ dirty \in BOOLEAN /\ inside \in BOOLEAN
    /\ route \in Syncs \cup {Unset, Nobody}
    /\ entity = "none" <=> Followed \notin owned
    /\ DOMAIN stamped = DOMAIN ServerSlots
    /\ Len(frames) <= game.frames
    /\ acked \in 0 .. Len(frames)
    /\ DOMAIN held \subseteq DOMAIN frames
    /\ acked # 0 => acked \in DOMAIN held
    /\ coding \in {NoCoding, MakeSlotCoding(game.client)}
    /\ told \in {"no", "node", "sync"}
    /\ written \subseteq Names
    /\ ClockTypeOK

\* The stream of an entity the core has not had.
NewStream == /\ stamped' = [s \in DOMAIN ServerSlots |-> Nil]
             /\ frames' = <<>> /\ acked' = 0

Init ==
    /\ game \in Games
    /\ prop \in {f \in [DOMAIN game.values -> UNION {game.values[a] : a \in DOMAIN game.values}] :
                   \A a \in DOMAIN f : f[a] \in game.values[a]}
    /\ entity = "none" /\ dirty = FALSE /\ route = Unset
    /\ stamped = [s \in DOMAIN ServerSlots |-> Nil] /\ frames = <<>> /\ acked = 0
    /\ inside = ~Does("waits")
    /\ coding = NoCoding /\ held = <<>>
    /\ shown = [a \in Names |-> Nil]
    /\ told = "sync" /\ written = {}
    /\ ClockInit

-----------------------------------------------------------------------------
\* The host.

\* The game writes a property.
Change(a, v) ==
    /\ prop[a] # v /\ (prop[a] = Nil => Nil \in game.values[a])
    /\ prop' = [prop EXCEPT ![a] = v]
    /\ told' = "no"
    /\ UNCHANGED <<game, entity, dirty, route, stream, client, clock>>

\* The node with the properties is freed, the synchronizer stays.
FreeTarget ==
    /\ Does("frees") /\ \E a \in Names : prop[a] # Nil
    /\ prop' = [a \in Names |-> Nil]
    /\ told' = "no"
    /\ UNCHANGED <<game, entity, dirty, route, stream, client, clock>>

\* A synchronizer comes into the tree, or leaves it and the core.
Enter(s) ==
    /\ s \notin owned
    /\ s = Followed \/ Does("marks") \/ Does("timer")
    /\ Registers(s)
    /\ entity' = IF s = Followed THEN "waiting" ELSE entity
    /\ UNCHANGED <<game, prop, dirty, route, stream, client, told>>

Exit(s) ==
    /\ s \in owned /\ (Does("marks") \/ Does("timer"))
    /\ Unregisters(s)
    /\ IF s = Followed
       THEN /\ entity' = "none" /\ dirty' = FALSE /\ held' = <<>>
            /\ NewStream
       ELSE UNCHANGED <<entity, dirty, held, stream>>
    /\ UNCHANGED <<game, prop, route, inside, coding, shown, written, told>>

\* server.mark_dirty of a synchronizer's id, which it has once it is the core's.
CoreMarks(s) == dirty' = (dirty \/ (s = Followed /\ entity = "added"))

\* mark_dirty of a synchronizer.
MarkSync ==
    /\ Does("marks")
    /\ CoreMarks(IF Followed \in owned THEN Followed ELSE Nobody)
    /\ told' = "sync"
    /\ UNCHANGED <<game, prop, entity, route, stream, client, clock>>

\* mark_dirty's scan of a node: the first child of it that is registered.
Scan == IF owned = {} THEN Nobody
        ELSE IF Followed \in owned THEN Followed ELSE CHOOSE s \in owned : TRUE

\* mark_dirty of the node, which is answered once and for all.
MarkNode ==
    LET answer == IF route = Unset THEN Scan ELSE route
    IN  /\ Does("marks")
        /\ route' = answer
        /\ CoreMarks(IF answer \in owned THEN answer ELSE Nobody)
        /\ told' = "node"
        /\ UNCHANGED <<game, prop, entity, stream, client, clock>>

\* A mutated form: a property that is not there has no slot.
SlotPlanNoHoles(config) ==
    LET here == SelectSeq(SyncSlots(config), LAMBDA e : e.at # Hole)
    IN  [s \in DOMAIN SyncSlots(config) |-> IF s \in DOMAIN here THEN here[s].at ELSE Hole]

\* cache_slot_plan: whose property each slot is.
SlotPlan(config) == [s \in DOMAIN SyncSlots(config) |-> SyncSlots(config)[s].at]

\* What the host's property of a slot is now.
Property(s) == LET a == SlotPlan(game.server)[s] IN IF a \in Names THEN prop[a] ELSE Nil

\* A mutated form: an entity's first tick reads what is polled only.
PolledOnlyFirst == ~dirty

\* An entity's first tick, and one after it was marked, read all of it.
PolledOnly == ~dirty /\ entity = "added"

\* ServerHost::read
ReadSlots ==
    [s \in DOMAIN ServerSlots |->
        IF PolledOnly /\ Pushed(game.server)[s] THEN stamped[s] ELSE Property(s)]

\* The snapshot sent next.
Snapshot == [is |-> stamped', base |-> acked,
             chain |-> IF acked = 0 THEN 0 ELSE frames[acked].chain + 1]

\* _server_tick: _add_entities, then the core's tick, which may have no
\* packet for the client.
Tick ==
    /\ IF entity = "none" THEN UNCHANGED <<entity, dirty, stream>>
       ELSE /\ entity' = "added" /\ dirty' = FALSE
            /\ stamped' = ReadSlots
            /\ UNCHANGED acked
            /\ \/ UNCHANGED frames
               \/ /\ Len(frames) < game.frames
                  /\ frames' = Append(frames, Snapshot)
    /\ UNCHANGED <<game, prop, route, client, told>>

\* _poll, and send_snapshots, which the game calls when it likes.
Poll(gap) ==
    /\ Does("timer")
    /\ PollTimer(gap)
    /\ IF Due(gap) THEN Tick
       ELSE UNCHANGED <<game, prop, entity, dirty, route, stream, client, told>>

SendSnapshots == Tick /\ UNCHANGED clock

SetRate(r) ==
    /\ Does("timer") /\ r # rate /\ SetSnapshotRate(r)
    /\ UNCHANGED <<game, prop, entity, dirty, route, stream, client, told>>

SetInterval(s, n) ==
    /\ Does("timer") /\ n # interval[s] /\ SetReplicationInterval(s, n)
    /\ UNCHANGED <<game, prop, entity, dirty, route, stream, client, told>>

SetManual(b) ==
    /\ Does("timer") /\ b # manual /\ SetManualSend(b)
    /\ UNCHANGED <<game, prop, entity, dirty, route, stream, client, told>>

AckArrives(k) ==
    /\ k > acked /\ acked' = k
    /\ UNCHANGED <<game, prop, entity, dirty, route, stamped, frames, client, told, clock>>

-----------------------------------------------------------------------------
\* What a snapshot says of the entity.

Whole(k) == frames[k].base = 0
ServerBase(k, s) == IF Whole(k) THEN NoBase ELSE frames[frames[k].base].is[s]

\* The core codes the slots stamped since the baseline, also one that is
\* back at its value there.
Changed(k) == {s \in DOMAIN ServerSlots :
                 \E j \in (frames[k].base + 1) .. k : frames[j].is[s] # ServerBase(k, s)}

\* ServerHost::encode
Encoded(k, s) ==
    LET c == ServerCoding[s]
    IN  PutSlot(c.kind, c.grid, c.quant, frames[k].is[s], ServerBase(k, s), ServerTime(k))

-----------------------------------------------------------------------------
\* The client.

\* Its synchronizer gets into the tree.  Until then it answers NOT_READY.
ClientEnters ==
    /\ ~inside /\ inside' = TRUE
    /\ UNCHANGED <<game, prop, entity, dirty, route, stream, coding, held, shown, written,
                   told, clock>>

\* A mutated form: what the node has now.
ClientBaseShown(k, s) ==
    IF Whole(k) THEN NoBase
    ELSE IF ClientSlots[s].at = Hole THEN Nil ELSE shown[ClientSlots[s].at]

\* u.base: the value it decoded into that baseline.
ClientBase(k, s) == IF Whole(k) THEN NoBase ELSE held[frames[k].base][s]

Decoded(k, s) ==
    LET c == coding'[s]
    IN  GetSlot(c.kind, c.grid, Encoded(k, s), ClientBase(k, s), ServerTime(k))

\* ClientHost::entity refuses an entity coded otherwise; the core has no use
\* for an update of one it refused.
Refused(k) == \/ Whole(k) /\ Check(ServerCoding) # Check(coding')
              \/ ~Whole(k) /\ held[frames[k].base] = <<>>

\* The core has snapshot k, with these values of the entity.
Takes(k, is) == held' = [j \in DOMAIN held \cup {k} |-> IF j = k THEN is ELSE held[j]]

Receive(k) ==
    /\ inside /\ k > Latest
    /\ coding' = MakeSlotCoding(game.client)
    /\ IF Refused(k)
       THEN Takes(k, <<>>) /\ UNCHANGED <<shown, written>>
       ELSE LET is  == [s \in DOMAIN ServerSlots |->
                          IF s \in Changed(k) THEN Decoded(k, s) ELSE ClientBase(k, s)]
                plan == SlotPlan(game.client)
                set == {plan[s] : s \in Changed(k)} \ {Hole}
            IN  /\ Takes(k, is)
                /\ shown' = [a \in Names |->
                      IF a \in set THEN is[CHOOSE s \in DOMAIN plan : plan[s] = a]
                      ELSE shown[a]]
                /\ written' = written \ set
    /\ UNCHANGED <<game, prop, entity, dirty, route, stream, inside, told, clock>>

\* The client's game writes a replicated property itself.
Predict(a, v) ==
    /\ Does("predicts") /\ shown[a] # v
    /\ shown' = [shown EXCEPT ![a] = v]
    /\ written' = written \cup {a}
    /\ UNCHANGED <<game, prop, entity, dirty, route, stream, inside, coding, held, told, clock>>

-----------------------------------------------------------------------------
Next ==
    \/ \E a \in Names : \E v \in game.values[a] : Change(a, v)
    \/ FreeTarget
    \/ \E s \in Syncs : Enter(s)
    \/ \E s \in Syncs : Exit(s)
    \/ MarkSync
    \/ MarkNode
    \/ \E gap \in 0 .. MaxGap : Poll(gap)
    \/ SendSnapshots
    \/ \E r \in Rates \cup {0} : SetRate(r)
    \/ \E s \in Syncs, n \in Intervals : SetInterval(s, n)
    \/ \E b \in BOOLEAN : SetManual(b)
    \/ \E k \in DOMAIN held : AckArrives(k)
    \/ ClientEnters
    \/ \E k \in DOMAIN frames : Receive(k)
    \/ \E a \in Names : \E v \in game.values[a] : Predict(a, v)

Spec == Init /\ [][Next]_vars

-----------------------------------------------------------------------------
\* How far what a slot's kind keeps of a value may be from it, lost steps of an
\* angle later, and how far it is.
Loss(kind, grid, lost) ==
    CASE kind \in {"float_grid", "vec3_grid"} -> grid
      [] kind \in {"half", "vec3_half"} -> Half
      [] kind \in {"float", "vec3"} -> Single
      [] kind \in {"angle16", "angle16_step"} -> 2 * Single + 2 * (lost + 1) * (Turn \div Steps16)
      [] kind \in {"angle8", "angle8_step"} -> 2 * Single + 2 * (lost + 1) * (Turn \div Steps8)
      [] OTHER -> 0

Abs(n) == IF n < 0 THEN -n ELSE n
Apart(n, m) == 2 * Abs(n - m)
TurnApart(n, m) == 2 * Min({(n - m) % Turn, (m - n) % Turn})

CloseAs(kind, grid, v, w, lost) ==
    LET loss == Loss(kind, grid, lost)
    IN  CASE kind \in {"vec3", "vec3_half", "vec3_grid"} ->
               \A a \in Axes : Apart(AsVec3(v)[a], AsVec3(w)[a]) <= loss
          [] kind \in {"angle16", "angle8"} \cup AngleSteps ->
               TurnApart(AsFloat(v), AsFloat(w)) <= loss
          [] kind = "bool" -> AsBool(v) = AsBool(w)
          [] kind \in {"int_step", "int", "time_delta"} -> AsInt(v) = AsInt(w)
          [] kind \in {"float", "half", "float_grid"} -> Apart(AsFloat(v), AsFloat(w)) <= loss
          [] OTHER -> v = w

\* Only an angle that goes in steps loses any: one for each baseline at most.
Close(c, v, w, chain) ==
    CloseAs(IF c.kind = "tagged" THEN TagFor(v, c.quant) ELSE c.kind, c.grid, v, w,
            IF c.kind \in AngleSteps THEN chain ELSE 0)

(***************************************************************************)
(* Of every snapshot it took the client has the values the host read, each *)
(* no further off than one rounding of its kind, whatever was lost between *)
(* and through however many steps: neither the rounding of a number, nor   *)
(* of one on a grid, nor an int that wraps adds up, and what the client's  *)
(* game writes does not get in.  An angle that goes in steps does drift:   *)
(* what was decoded is cut to a step again as a base, and may lose one     *)
(* each time.  It is behind by one for each baseline since a whole         *)
(* snapshot at most, also across 0.                                        *)
(***************************************************************************)
HeldIsClose ==
    \A k \in DOMAIN held : \A s \in DOMAIN held[k] :
        Close(ServerCoding[s], frames[k].is[s], held[k][s], frames[k].chain)

(***************************************************************************)
(* A property of the client has the value of the host's property of that   *)
(* name in the last snapshot, as close as HeldIsClose says, unless its own *)
(* game wrote it since: slots keep their places past properties that are   *)
(* not replicated, or that one end does not have.                          *)
(***************************************************************************)
ShownInPlace ==
    Latest # 0 /\ held[Latest] # <<>> =>
        \A s \in DOMAIN ServerSlots : \A a \in Names \ written :
            ServerSlots[s].at = a /\ (\E i \in DOMAIN ClientSlots : ClientSlots[i].at = a)
              => /\ Close(ServerCoding[s], frames[Latest].is[s], shown[a], frames[Latest].chain)
                 /\ frames[Latest].is[s] \in game.values[a] \/ Does("frees")

(***************************************************************************)
(* A client whose scene types or hints the properties otherwise has none   *)
(* of the entity's state, not in later snapshots either: its properties    *)
(* are as they were but for what its own game wrote.                       *)
(***************************************************************************)
OtherCodingIgnored ==
    (\E s \in DOMAIN ServerCoding :
        \/ ServerCoding[s].kind # MakeSlotCoding(game.client)[s].kind
        \/ /\ ServerCoding[s].kind \in {"float_grid", "vec3_grid"}
           /\ ServerCoding[s].grid # MakeSlotCoding(game.client)[s].grid)
      => \A a \in Names \ written : shown[a] = Nil

(***************************************************************************)
(* What the game announced with mark_dirty after its last write is read by *)
(* the next tick, also when the entity was not the core's yet.  Announced  *)
(* by the node, only if the node's synchronizer is the one its first mark  *)
(* found: that answer, or that there is none, is never looked up again.    *)
(***************************************************************************)
MarkedIsRead ==
    entity = "added" /\ (told = "sync" \/ (told = "node" /\ route = Followed)) =>
        \/ dirty
        \/ \A s \in DOMAIN ServerSlots :
             Pushed(game.server)[s] => stamped[s] = Property(s)

(***************************************************************************)
(* A turn goes the short way round: no step of an angle is more than half  *)
(* a turn, so a small turn across 0 is a small step.                       *)
(***************************************************************************)
TurnsAreShort ==
    \A k \in DOMAIN frames : \A s \in Changed(k) :
        ServerCoding[s].kind \in AngleSteps /\ ~Whole(k) =>
            LET step == Turn \div Steps(ServerCoding[s].kind)
            IN  2 * step * Abs(Encoded(k, s)) <=
                  TurnApart(AsFloat(frames[k].is[s]), AsFloat(ServerBase(k, s))) + 2 * (step + Single)
=============================================================================
