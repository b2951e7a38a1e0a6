----------------------------- MODULE SlotCodings -----------------------------
(***************************************************************************)
(* How a value goes on the wire: behind a tag, or as a slot of a           *)
(* synchronizer, whose coding both ends work out from the same scene.      *)
(*                                                                         *)
(* Numbers are integers, floats counted in a fine unit: an int 1 is One of *)
(* them, an f32 keeps multiples of Single, a binary16 multiples of Half    *)
(* (their relative precision is not modelled), and a whole turn is Turn.   *)
(* The widths are narrow: an int is one of IntRange, an angle16 one of     *)
(* Steps16, an angle8 one of Steps8 (2^64, 2^16 and 2^8 in the code).  A   *)
(* payload is the number written, with nothing that says how to read it.   *)
(***************************************************************************)
EXTENDS Integers, Sequences

CONSTANTS IntRange, Steps16, Steps8, One, Single, Half, Turn

\* An f32 keeps more of a turn than the steps do, though not each of them.
ASSUME WidthsAssumption ==
    /\ {IntRange, Steps16, Steps8, One, Single, Half, Turn} \subseteq Nat \ {0}
    /\ IntRange % 2 = 0
    /\ \A n \in {Steps16, Steps8} : Turn % n = 0 /\ Single <= Turn \div n

\* Variants.
Nil       == [type |-> "nil"]
Integer(n) == [type |-> "int", is |-> n]
Float(n)  == [type |-> "float", is |-> n]
Bool(n)   == [type |-> "bool", is |-> n]
Vec3(f)   == [type |-> "vec3", axes |-> f]
Other(x)  == [type |-> "other", what |-> x]
Axes == 1 .. 3
Zero == [a \in Axes |-> 0]

\* No value at the baseline.
NoBase == [type |-> "none"]

\* A Variant's conversions, 0 for what is no number.
Toward0(n, d) == IF n >= 0 THEN n \div d ELSE -((-n) \div d)
AsInt(v)   == CASE v.type \in {"int", "bool"} -> v.is
                [] v.type = "float" -> Toward0(v.is, One)
                [] OTHER -> 0
AsFloat(v) == CASE v.type = "float" -> v.is
                [] v.type \in {"int", "bool"} -> v.is * One
                [] OTHER -> 0
AsBool(v)  == IF v.type \in {"int", "bool", "float"} /\ v.is # 0 THEN 1 ELSE 0
AsVec3(v)  == IF v.type = "vec3" THEN v.axes ELSE Zero

\* What the widths have room for, as any value of a game does.
InWidth(v) ==
    /\ v.type # "none"
    /\ -(IntRange \div 2) <= AsInt(v) /\ AsInt(v) < IntRange \div 2
    /\ AsInt(v) \in Int /\ AsFloat(v) \in Int /\ AsVec3(v) \in [Axes -> Int]

\* n in steps of g, halves away from 0.
Nearest(n, g) == IF n >= 0 THEN (2 * n + g) \div (2 * g) ELSE -((g - 2 * n) \div (2 * g))
F32(n) == Single * Nearest(n, Single)
F16(n) == Half * Nearest(n, Half)

\* An int in two's complement.
Wrapped(n) == ((n + IntRange \div 2) % IntRange) - IntRange \div 2

\* The core's angles: radians to steps of a turn, cut short, and back to an f32,
\* which may be short of that step: cut again, it is then one step less.
AngleQuanta(n, steps) == (F32(n) \div (Turn \div steps)) % steps
AngleOf(q, steps) == F32(q * (Turn \div steps))

-----------------------------------------------------------------------------
\* Tagged values.

\* gn_quant_from_name
Hints == {"angle16", "angle8", "half", "vec3_half", "time_delta"}
QuantFromName(name) == IF name \in Hints THEN name ELSE "auto"

\* gn_tag_for: a stamp's hint only fits an int.
TagFor(v, quant) ==
    CASE quant \in Hints \ {"time_delta"} -> quant
      [] quant = "time_delta" /\ v.type = "int" -> quant
      [] quant \notin Hints \/ v.type # "int" ->
            IF v.type \in {"float", "int", "vec3", "bool"} THEN v.type ELSE "opaque"

\* gn_put_payload, in a packet whose header says now.
PutPayload(tag, v, now) ==
    CASE tag = "angle16"    -> AngleQuanta(AsFloat(v), Steps16)
      [] tag = "angle8"     -> AngleQuanta(AsFloat(v), Steps8)
      [] tag = "half"       -> F16(AsFloat(v))
      [] tag = "vec3_half"  -> [a \in Axes |-> F16(AsVec3(v)[a])]
      [] tag = "time_delta" -> AsInt(v) - now
      [] tag = "float"      -> F32(AsFloat(v))
      [] tag = "int"        -> AsInt(v)
      [] tag = "vec3"       -> [a \in Axes |-> F32(AsVec3(v)[a])]
      [] tag = "bool"       -> AsBool(v)
      [] OTHER              -> v

\* gn_get_tagged, in a packet whose header says ref.
GetTagged(tag, p, ref) ==
    CASE tag = "angle16"    -> Float(AngleOf(p, Steps16))
      [] tag = "angle8"     -> Float(AngleOf(p, Steps8))
      [] tag \in {"half", "float"} -> Float(p)
      [] tag \in {"vec3_half", "vec3"} -> Vec3(p)
      [] tag = "time_delta" -> Integer(ref + p)
      [] tag = "int"        -> Integer(p)
      [] tag = "bool"       -> Bool(p)
      [] OTHER              -> p

\* gn_put_value, gn_get_value
PutValue(v, quant, now) ==
    [tag |-> TagFor(v, quant), payload |-> PutPayload(TagFor(v, quant), v, now)]
GetValue(w, ref) == GetTagged(w.tag, w.payload, ref)

-----------------------------------------------------------------------------
\* Slots.

AngleSteps == {"angle16_step", "angle8_step"}
Steps(kind) == IF kind = "angle16_step" THEN Steps16 ELSE Steps8
AngleTag(kind) == IF kind = "angle16_step" THEN "angle16" ELSE "angle8"

\* A mutated form: the way round is not looked at.
AngleStepPlain(to, from, steps) == to - from

\* angle_step: the shortest way round.
AngleStep(to, from, steps) ==
    ((to - from + steps \div 2) % steps) - steps \div 2

\* grid_q
GridQ(n, grid) == Nearest(n, grid)

\* put_slot: whole, or as its step from the base.
PutSlot(kind, grid, quant, v, base, now) ==
    CASE kind = "int_step" -> Wrapped(AsInt(v) - AsInt(base))
      [] kind \in AngleSteps ->
            IF base = NoBase THEN PutPayload(AngleTag(kind), v, now)
            ELSE AngleStep(AngleQuanta(AsFloat(v), Steps(kind)),
                           AngleQuanta(AsFloat(base), Steps(kind)), Steps(kind))
      [] kind = "float_grid" -> GridQ(AsFloat(v), grid) - GridQ(AsFloat(base), grid)
      [] kind = "vec3_grid" ->
            [a \in Axes |-> GridQ(AsVec3(v)[a], grid) - GridQ(AsVec3(base)[a], grid)]
      [] kind = "tagged" -> PutValue(v, quant, now)
      [] OTHER -> PutPayload(kind, v, now)

\* get_slot
GetSlot(kind, grid, p, base, ref) ==
    CASE kind = "int_step" -> Integer(Wrapped(AsInt(base) + p))
      [] kind \in AngleSteps ->
            IF base = NoBase THEN GetTagged(AngleTag(kind), p, ref)
            ELSE Float(AngleOf((AngleQuanta(AsFloat(base), Steps(kind)) + p) % Steps(kind),
                               Steps(kind)))
      [] kind = "float_grid" -> Float((GridQ(AsFloat(base), grid) + p) * grid)
      [] kind = "vec3_grid" -> Vec3([a \in Axes |-> (GridQ(AsVec3(base)[a], grid) + p[a]) * grid])
      [] kind = "tagged" -> GetValue(p, ref)
      [] OTHER -> GetTagged(kind, p, ref)

-----------------------------------------------------------------------------
\* A synchronizer's layout.  Its configuration is a sequence of properties:
\* mode "never", "always" or "on_change"; its declared type, "nil" when it is
\* untyped or names nothing here; the hint and the grid its metas give, and
\* whether its gn_push names it.

\* get_sync_slots, short of its cap
SyncSlots(config) == SelectSeq(config, LAMBDA e : e.mode # "never")

\* _read_push
Pushed(config) == [s \in DOMAIN SyncSlots(config) |-> SyncSlots(config)[s].push]

\* The kind _make_slot_coding gives a property, by its declared type.
FloatKind(q, grid) ==
    IF grid > 0 THEN "float_grid"
    ELSE CASE q = "angle16" -> "angle16_step"
           [] q = "angle8"  -> "angle8_step"
           [] q = "half"    -> "half"
           [] OTHER         -> "float"

Vec3Kind(q, grid) == IF grid > 0 THEN "vec3_grid" ELSE IF q = "vec3_half" THEN q ELSE "vec3"

Kind(e) ==
    LET q == QuantFromName(e.hint)
    IN  CASE e.type = "int"   -> IF q = "time_delta" THEN q ELSE "int_step"
          [] e.type = "bool"  -> "bool"
          [] e.type = "float" -> FloatKind(q, e.grid)
          [] e.type = "vec3"  -> Vec3Kind(q, e.grid)
          [] OTHER            -> "tagged"

\* _make_slot_coding, of what cache_slot_plan resolved
MakeSlotCoding(config) ==
    [s \in DOMAIN SyncSlots(config) |->
        LET e == SyncSlots(config)[s]
        IN  [kind |-> Kind(e), grid |-> e.grid, quant |-> QuantFromName(e.hint)]]

\* A mutated form: the kinds only.
CheckOfKinds(coding) == [s \in DOMAIN coding |-> [kind |-> coding[s].kind, grid |-> 0]]

\* The check of a coding: what its hash is made from, the hash's collisions left out.
Check(coding) ==
    [s \in DOMAIN coding |->
        [kind |-> coding[s].kind,
         grid |-> IF coding[s].kind \in {"float_grid", "vec3_grid"} THEN coding[s].grid ELSE 0]]
=============================================================================
