--------------------------- MODULE MC_RpcDispatch ---------------------------
(***************************************************************************)
(* A small instance of RpcDispatch, nodes and paths alike, and of the      *)
(* arguments of its calls: one of each type, a float an f32 keeps and one  *)
(* it does not; and methods that differ in the order, the types and the    *)
(* number of what they take.                                               *)
(***************************************************************************)
EXTENDS RpcArguments, TLC

Symmetry == Permutations(Objects) \cup Permutations(Paths)

SomeArguments ==
    {Nil, Integer(-4), Integer(3), Float(3), Float(8), Bool(1), Vec3(<<0, 2, -4>>),
     Text("x"), Name("x"), Bytes("x"), Other("x")}

Declared(table, types) ==
    [table |-> table,
     fields |-> [k \in DOMAIN types |-> [name |-> types[k][1], type |-> types[k][2]]]]

SomeDeclarations ==
    {Declared(table, types) : table \in BOOLEAN,
       types \in {<<>>, << <<"a", "int">> >>, << <<"a", "float">>, <<"b", "bool">> >>,
                  << <<"b", "bool">>, <<"a", "float">> >>, << <<"a", "nil">>, <<"b", "bytes">> >>,
                  << <<"a", "string">> >>, << <<"a", "int">>, <<"b", "int">>, <<"c", "int">> >>}}
=============================================================================
