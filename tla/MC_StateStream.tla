--------------------------- MODULE MC_StateStream ---------------------------
(***************************************************************************)
(* Small games for StateStream: one property of each kind with values at   *)
(* the edges of its width, two ends that differ, and one game each of what *)
(* else a game may do.  Ints have 3 bits, a turn 64 units and 16 or 8      *)
(* steps, of which an f32 keeps some and falls short of others.            *)
(***************************************************************************)
EXTENDS ClientHelpers

CONSTANTS s1, s2

Prop(type, hint, grid) ==
    [at |-> "a", mode |-> "always", type |-> type, hint |-> hint, grid |-> grid, push |-> FALSE]

Game(server, cl, values, does, n) ==
    [server |-> server, client |-> cl, values |-> [a |-> values], does |-> does, frames |-> n]

Same(p, values) == Game(<<p>>, <<p>>, values, {}, 3)

Floats == {Float(0), Float(-3), Float(5), Float(15)}
Angles == {Float(-3), Float(8), Float(16), Float(17)}
Ints   == {Integer(-4), Integer(0), Integer(3)}
Vecs   == {Vec3(f) : f \in {<<0, 0, 0>>, <<-3, 5, 0>>, <<7, -3, 1>>}}

Kinds ==
    {Same(Prop("int", "none", 0), Ints),
     Same(Prop("int", "time_delta", 0), {Integer(0), Integer(2), Integer(3)}),
     Same(Prop("bool", "none", 0), {Bool(0), Bool(1)}),
     Same(Prop("float", "half", 3), Floats),
     Same(Prop("float", "angle16", 0), Angles),
     Same(Prop("float", "angle8", 0), Angles),
     Same(Prop("float", "half", 0), Floats),
     Same(Prop("float", "none", 0), Floats),
     Same(Prop("vec3", "none", 3), Vecs),
     Same(Prop("vec3", "vec3_half", 0), Vecs),
     Same(Prop("vec3", "none", 0), Vecs),
     Same(Prop("nil", "none", 0), {Nil, Integer(3), Float(5), Other("x")}),
     Same(Prop("nil", "time_delta", 0), {Integer(3), Float(5)}),
     Same(Prop("nil", "angle8", 0), {Integer(1), Float(15)})}

Differ ==
    {Game(<<Prop("float", "none", 3)>>, <<Prop("float", "none", 4)>>, Floats, {"predicts"}, 3),
     Game(<<Prop("float", "angle16", 0)>>, <<Prop("float", "angle8", 0)>>, Angles, {}, 3),
     Game(<<Prop("int", "none", 0)>>, <<Prop("nil", "none", 0)>>, Ints, {}, 3)}

Spawned == [Prop("int", "none", 0) EXCEPT !.mode = "never", !.at = "b"]
Absent == [Prop("nil", "none", 0) EXCEPT !.at = "hole"]

Others ==
    {Game(<<Spawned, Absent, Prop("int", "none", 0)>>, <<Spawned, Absent, Prop("int", "none", 0)>>,
          Ints, {"waits"}, 3),
     [Game(<<Absent, Prop("int", "none", 0)>>,
           <<[Absent EXCEPT !.at = "b"], Prop("int", "none", 0)>>, Ints, {}, 2)
        EXCEPT !.values = [a |-> Ints, b |-> {Nil}]],
     Game(<<Prop("int", "none", 0)>>, <<Prop("int", "none", 0)>>, Ints, {"predicts", "frees"}, 3),
     Game(<<[Prop("bool", "none", 0) EXCEPT !.push = TRUE]>>, <<Prop("bool", "none", 0)>>,
          {Bool(0), Bool(1)}, {"marks"}, 2),
     Game(<<Prop("bool", "none", 0)>>, <<Prop("bool", "none", 0)>>, {Bool(0)}, {"timer"}, 1)}

AllGames == Kinds \cup Differ \cup Others

-----------------------------------------------------------------------------
\* For InterpolationBuffer.
SomeVelocities == {-6, 12}
=============================================================================
