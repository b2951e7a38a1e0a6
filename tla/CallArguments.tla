---------------------------- MODULE CallArguments ----------------------------
(***************************************************************************)
(* The arguments of a call: in a message of the netchan, each behind its   *)
(* tag; and in a command, as the fields of its stream, which are those of  *)
(* the method's declaration, or of the table CommandStream.mark gave it.   *)
(***************************************************************************)
EXTENDS SlotCodings

CONSTANTS
    MaxFields,    \* the core's MAX_COMMAND_FIELDS
    Arguments,    \* the Variants looked at
    Declarations  \* the methods' declarations, one end's or the other's

ASSUME MaxFieldsAssumption == MaxFields \in Nat

\* Types an RPC passes that a snapshot has no tag for, and a Dictionary,
\* a function of its keys.
Text(x)  == [type |-> "string", what |-> x]
Name(x)  == [type |-> "string_name", what |-> x]
Bytes(x) == [type |-> "bytes", what |-> x]
Dict(f)  == [type |-> "dict", of |-> f]

\* A Variant as Godot has it: a Vector3's axes are single already.
WellFormed(v) ==
    CASE v.type = "nil"         -> v = Nil
      [] v.type = "int"         -> v = Integer(v.is) /\ v.is \in Int
      [] v.type = "float"       -> v = Float(v.is) /\ v.is \in Int
      [] v.type = "bool"        -> v = Bool(v.is) /\ v.is \in {0, 1}
      [] v.type = "vec3"        -> /\ v = Vec3(v.axes) /\ v.axes \in [Axes -> Int]
                                   /\ \A a \in Axes : F32(v.axes[a]) = v.axes[a]
      [] v.type = "string"      -> v = Text(v.what)
      [] v.type = "string_name" -> v = Name(v.what)
      [] v.type = "bytes"       -> v = Bytes(v.what)
      [] OTHER                  -> TRUE

ASSUME ArgumentsAssumption == \A v \in Arguments : WellFormed(v)

\* No two fields of a declaration have one name: they are a Dictionary's
\* keys, or a method's parameters.
ASSUME DeclarationsAssumption ==
    \A d \in Declarations :
        /\ d.fields \in Seq({d.fields[k] : k \in DOMAIN d.fields})
        /\ \A j, k \in DOMAIN d.fields : d.fields[j].name = d.fields[k].name => j = k

-----------------------------------------------------------------------------
\* put_arg: a float that an f32 would change goes as a double.

\* A mutated form: it is not looked at.
PutArgSingle(v) ==
    CASE v.type = "nil" -> [tag |-> "nil", payload |-> 0]
      [] v.type \in {"string", "string_name", "bytes"} -> [tag |-> v.type, payload |-> v.what]
      [] OTHER -> PutValue(v, "auto", 0)

PutArg(v) ==
    CASE v.type = "nil" -> [tag |-> "nil", payload |-> 0]
      [] v.type \in {"string", "string_name", "bytes"} -> [tag |-> v.type, payload |-> v.what]
      [] v.type = "float" /\ F32(AsFloat(v)) # AsFloat(v) -> [tag |-> "double", payload |-> v.is]
      [] OTHER -> PutValue(v, "auto", 0)

\* get_arg
GetArg(w) ==
    CASE w.tag = "nil" -> Nil
      [] w.tag \in {"string", "string_name", "bytes"} -> [type |-> w.tag, what |-> w.payload]
      [] w.tag = "double" -> Float(w.payload)
      [] OTHER -> GetTagged(w.tag, w.payload, 0)

-----------------------------------------------------------------------------
\* Commands.  A declaration is whether it is a table, and its fields: names
\* with their types, "nil" when none is given.

\* command_arg_form
Form(type) == IF type \in {"int", "float", "bool", "bytes"} THEN type ELSE "variant"

\* command_signature: none, when the fields are too many.
Signature(d) ==
    IF Len(d.fields) > MaxFields THEN {}
    ELSE {[table |-> d.table,
           fields |-> [k \in DOMAIN d.fields |->
                         [name |-> d.fields[k].name, form |-> Form(d.fields[k].type)]]]}

\* make_command_signature's id, of a method at one path on both ends, its
\* hash's collisions left out.
Stream(sig) == sig

\* What a call gives each field.
Given(sig, args) ==
    [k \in DOMAIN sig.fields |->
        IF sig.table THEN args[1].of[sig.fields[k].name] ELSE args[k]]

Number == {"int", "float", "bool"}

FieldTakes(form, v) ==
    CASE form \in Number -> v.type \in Number
      [] form = "bytes"  -> v.type = "bytes"
      [] OTHER           -> TRUE

\* A mutated form: a field the table does not declare is left out.
ShapeFitsLoosely(sig, args) ==
    IF sig.table
    THEN /\ Len(args) = 1 /\ args[1].type = "dict"
         /\ \A k \in DOMAIN sig.fields : sig.fields[k].name \in DOMAIN args[1].of
    ELSE Len(args) = Len(sig.fields)

\* A table's method takes one Dictionary with its fields and no others.
ShapeFits(sig, args) ==
    IF sig.table
    THEN /\ Len(args) = 1 /\ args[1].type = "dict"
         /\ DOMAIN args[1].of = {sig.fields[k].name : k \in DOMAIN sig.fields}
    ELSE Len(args) = Len(sig.fields)

\* command_from_args, or the call is dropped.
Fits(sig, args) ==
    /\ ShapeFits(sig, args)
    /\ \A k \in DOMAIN sig.fields : FieldTakes(sig.fields[k].form, Given(sig, args)[k])

FieldOf(form, v) ==
    CASE form = "int"   -> AsInt(v)
      [] form = "float" -> F32(AsFloat(v))
      [] form = "bool"  -> AsBool(v)
      [] form = "bytes" -> v.what
      [] OTHER          -> PutArg(v)

CommandFromArgs(sig, args) ==
    [k \in DOMAIN sig.fields |-> FieldOf(sig.fields[k].form, Given(sig, args)[k])]

\* _deliver_command: the arguments the method is called with.
Argument(form, f) ==
    CASE form = "int"   -> Integer(f)
      [] form = "float" -> Float(f)
      [] form = "bool"  -> Bool(f)
      [] form = "bytes" -> Bytes(f)
      [] OTHER          -> GetArg(f)

CalledWith(sig, cmd) ==
    LET arg == [k \in DOMAIN cmd |-> Argument(sig.fields[k].form, cmd[k])]
        at(n) == CHOOSE k \in DOMAIN cmd : sig.fields[k].name = n
    IN  IF sig.table
        THEN <<Dict([n \in {sig.fields[k].name : k \in DOMAIN cmd} |-> arg[at(n)]])>>
        ELSE arg

-----------------------------------------------------------------------------
\* What a message makes of each argument is that argument.
ArgumentsKept == \A v \in Arguments : GetArg(PutArg(v)) = v

\* A declared number is the argument as one, a float rounded to an f32;
\* anything else is the argument.
AsDeclared(type, v) ==
    CASE type = "int"   -> Integer(AsInt(v))
      [] type = "float" -> Float(F32(AsFloat(v)))
      [] type = "bool"  -> Bool(AsBool(v))
      [] OTHER          -> v

\* Arguments a game calls the method declared as d with, right or wrong ones.
Calls(d) ==
    LET names == {d.fields[k].name : k \in DOMAIN d.fields}
    IN  IF d.table
        THEN {<<Dict(f)>> : f \in UNION {[ns -> Arguments] : ns \in {names, names \cup {"extra"}}}}
             \cup {<<Nil>>, <<>>}
        ELSE UNION {[1 .. n -> Arguments] : n \in {0, Len(d.fields)}}

\* What e's end is called with, if it has the stream of d's.
Comes(d, e, args) ==
    \A sig \in Signature(d), there \in Signature(e) :
        Fits(sig, args) /\ Stream(sig) = Stream(there) =>
            LET called == CalledWith(there, CommandFromArgs(sig, args))
            IN  /\ d.table = e.table
                /\ IF e.table
                   THEN /\ DOMAIN called[1].of = DOMAIN args[1].of
                        /\ \A k \in DOMAIN e.fields :
                             called[1].of[e.fields[k].name] =
                               AsDeclared(e.fields[k].type, args[1].of[e.fields[k].name])
                   ELSE called = [k \in DOMAIN args |-> AsDeclared(e.fields[k].type, args[k])]

CommandsKept == \A d, e \in Declarations : \A args \in Calls(d) : Comes(d, e, args)
=============================================================================
