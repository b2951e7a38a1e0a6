---------------------------- MODULE RpcArguments ----------------------------
(***************************************************************************)
(* RpcDispatch says which method a message or a command calls, and         *)
(* CallArguments what with: while one runs, its arguments are the          *)
(* caller's.                                                               *)
(***************************************************************************)
EXTENDS RpcDispatch, CallArguments

Runs(how) == \E k \in DOMAIN stack : stack[k].how = how

(***************************************************************************)
(* The method a message calls has the arguments the caller gave it, their  *)
(* types too, and a float to its last digit.                               *)
(***************************************************************************)
ArgumentsExact == Runs("message") => ArgumentsKept

(***************************************************************************)
(* A command calls the host's method with what the client's call gave it,  *)
(* as the host's declaration has it: all of it and nothing else, each      *)
(* field in its place.  Two ends whose declarations give the fields other  *)
(* names or other forms have different streams, and the one's commands     *)
(* call nothing on the other; types of one form, as String and untyped,    *)
(* carry the argument as it is, so there the call comes all the same.      *)
(***************************************************************************)
CommandsCarry == Runs("command") => CommandsKept
=============================================================================
