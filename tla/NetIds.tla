------------------------------- MODULE NetIds -------------------------------
(***************************************************************************)
(* The map from net ids to nodes that each end keeps (goldnet_net_ids.h).  *)
(* The server hands ids out, counting from 1; a client binds the ids the   *)
(* server's records name.  A map is a record: by_id gives an id's node and *)
(* whether it was learned from a server, by_obj gives a node's id, next is *)
(* the next id to hand out.  Id 0 names nothing.                           *)
(***************************************************************************)
EXTENDS Naturals, FiniteSets

CONSTANT NoObject  \* what object() gives for an id that names nothing

NoIds == [by_id |-> [i \in {} |-> i], by_obj |-> [o \in {} |-> o], next |-> 1]

\* The node an id names / the id of a node; NoObject and 0 where there is none.
Object(m, i) == IF i \in DOMAIN m.by_id THEN m.by_id[i].obj ELSE NoObject
Id(m, o)     == IF o \in DOMAIN m.by_obj THEN m.by_obj[o] ELSE 0

Without(f, x) == [z \in DOMAIN f \ {x} |-> f[z]]
With(f, x, y) == [z \in DOMAIN f \cup {x} |-> IF z = x THEN y ELSE f[z]]

\* put: whatever the two named before is overwritten on one side only.
PutId(m, i, o, learned) ==
    [by_id  |-> With(m.by_id, i, [obj |-> o, learned |-> learned]),
     by_obj |-> With(m.by_obj, o, i),
     next   |-> m.next]

\* drop: i names nothing any more.
Drop(m, i) ==
    IF i \in DOMAIN m.by_id
    THEN [by_id  |-> Without(m.by_id, i),
          by_obj |-> Without(m.by_obj, m.by_id[i].obj),
          next   |-> m.next]
    ELSE m

\* release: o has no id any more.
Release(m, o) == Drop(m, Id(m, o))

\* assign: o's id, handing it the next one if it has none.
Assign(m, o) ==
    IF o \in DOMAIN m.by_obj THEN m
    ELSE [PutId(m, m.next, o, FALSE) EXCEPT !.next = @ + 1]

BindOver(m, i, o) == PutId(Drop(m, i), i, o, TRUE)

\* bind: the server says i names o, instead of what either named before.
Bind(m, i, o) == PutId(Release(Drop(m, i), o), i, o, TRUE)

(***************************************************************************)
(* The calls of assign a loop over the set S makes: those of S without an  *)
(* id get the next ones, in the order the loop meets them.  A numbering is *)
(* one such order.                                                         *)
(***************************************************************************)
Unnumbered(m, S) == {o \in S : o \notin DOMAIN m.by_obj}

Numberings(m, S) ==
    LET U == Unnumbered(m, S)
    IN {num \in [U -> m.next .. (m.next + Cardinality(U) - 1)] :
            \A o, p \in U : num[o] = num[p] => o = p}

\* A mutated form: ids counted from the number in use, so handed out twice.
AssignEachReusing(m, num) ==
    LET ids == {num[o] : o \in DOMAIN num}
    IN [by_id  |-> [i \in DOMAIN m.by_id \cup ids |->
                       IF i \in ids
                       THEN [obj |-> CHOOSE o \in DOMAIN num : num[o] = i,
                             learned |-> FALSE]
                       ELSE m.by_id[i]],
        by_obj |-> [o \in DOMAIN m.by_obj \cup DOMAIN num |->
                       IF o \in DOMAIN num THEN num[o] ELSE m.by_obj[o]],
        next   |-> Cardinality(DOMAIN m.by_id \cup ids) + 1]

AssignEach(m, num) ==
    LET ids == {num[o] : o \in DOMAIN num}
    IN [by_id  |-> [i \in DOMAIN m.by_id \cup ids |->
                       IF i \in ids
                       THEN [obj |-> CHOOSE o \in DOMAIN num : num[o] = i,
                             learned |-> FALSE]
                       ELSE m.by_id[i]],
        by_obj |-> [o \in DOMAIN m.by_obj \cup DOMAIN num |->
                       IF o \in DOMAIN num THEN num[o] ELSE m.by_obj[o]],
        next   |-> m.next + Cardinality(DOMAIN num)]

\* A mutated form: a bind that leaves the id its node had.
BindEachOver(m, new) ==
    LET objs == {new[i] : i \in DOMAIN new}
    IN [by_id  |-> [i \in DOMAIN m.by_id \cup DOMAIN new |->
                       IF i \in DOMAIN new THEN [obj |-> new[i], learned |-> TRUE]
                       ELSE m.by_id[i]],
        by_obj |-> [o \in DOMAIN m.by_obj \cup objs |->
                       IF o \in objs THEN CHOOSE i \in DOMAIN new : new[i] = o
                       ELSE m.by_obj[o]],
        next   |-> m.next]

\* The calls of bind that take every record of one snapshot: new gives the ids
\* their nodes, each node once.
BindEach(m, new) ==
    LET objs == {new[i] : i \in DOMAIN new}
        kept == {i \in DOMAIN m.by_id \ DOMAIN new : m.by_id[i].obj \notin objs}
    IN [by_id  |-> [i \in kept \cup DOMAIN new |->
                       IF i \in DOMAIN new THEN [obj |-> new[i], learned |-> TRUE]
                       ELSE m.by_id[i]],
        by_obj |-> [o \in {m.by_id[i].obj : i \in kept} \cup objs |->
                       IF o \in objs THEN CHOOSE i \in DOMAIN new : new[i] = o
                       ELSE m.by_obj[o]],
        next   |-> m.next]

\* The calls of drop for every id of the set S.
DropEach(m, S) ==
    LET gone == {m.by_id[i].obj : i \in DOMAIN m.by_id \cap S}
    IN [by_id  |-> [i \in DOMAIN m.by_id \ S |-> m.by_id[i]],
        by_obj |-> [o \in DOMAIN m.by_obj \ gone |-> m.by_obj[o]],
        next   |-> m.next]

\* forget_learned: every id a server gave is dropped, a host's own stay.
ForgetLearned(m) == DropEach(m, {i \in DOMAIN m.by_id : m.by_id[i].learned})

(***************************************************************************)
(* by_id and by_obj are inverse to each other: no node has two ids, and no *)
(* id names two nodes.                                                     *)
(***************************************************************************)
IsInverse(m) ==
    /\ \A i \in DOMAIN m.by_id : /\ m.by_id[i].obj \in DOMAIN m.by_obj
                                 /\ m.by_obj[m.by_id[i].obj] = i
    /\ \A o \in DOMAIN m.by_obj : /\ m.by_obj[o] \in DOMAIN m.by_id
                                  /\ m.by_id[m.by_obj[o]].obj = o

IsIds(m, Objs) ==
    /\ m = [by_id |-> m.by_id, by_obj |-> m.by_obj, next |-> m.next]
    /\ m.by_id = [i \in DOMAIN m.by_id |-> m.by_id[i]]
    /\ DOMAIN m.by_id \subseteq Nat \ {0}
    /\ \A i \in DOMAIN m.by_id : m.by_id[i] \in [obj : Objs, learned : BOOLEAN]
    /\ m.by_obj = [o \in DOMAIN m.by_obj |-> m.by_obj[o]]
    /\ DOMAIN m.by_obj \subseteq Objs
    /\ \A o \in DOMAIN m.by_obj : m.by_obj[o] \in Nat \ {0}
    /\ m.next \in Nat \ {0}
=============================================================================
