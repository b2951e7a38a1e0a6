----------------------------- MODULE SharedNodes -----------------------------
(***************************************************************************)
(* What replication promises of a server's nodes and their copies on a     *)
(* client, as pairs of an id and the node it names.  A pair is offered     *)
(* while its node is there, under an id never given before; what is        *)
(* offered is on its way to the client, or is lost; what has come the      *)
(* client holds, until the server offers it no more.                       *)
(***************************************************************************)
EXTENDS Naturals

CONSTANTS
    Things,  \* nodes
    Once     \* those that never come back once they are gone

VARIABLES
    there,    \* nodes in the server's tree
    gone,     \* of Once, those that were there and are not
    next,     \* the next id: none from it on was given
    offered,  \* the pairs the server offers
    coming,   \* those on their way to the client
    held,     \* those the client has
    up        \* the session

vars == <<there, gone, next, offered, coming, held, up>>

Init ==
    /\ there \subseteq Things /\ gone = {} /\ next = 1
    /\ offered = {} /\ coming = {} /\ held = {} /\ up = FALSE

\* What is not offered any more is of nodes that are not there.
WithdrawsGone == \A c \in offered \ offered' : c[2] \notin there'

\* The server's game: nodes come and go.
Move ==
    /\ there' \subseteq Things \ gone'
    /\ gone' = gone \cup (Once \cap (there \ there'))
    /\ offered' \subseteq offered /\ WithdrawsGone
    /\ UNCHANGED <<next, coming, held, up>>

\* No two pairs of one id, nor of one node.
OneToOne(P) == \A c, d \in P : c[1] = d[1] \/ c[2] = d[2] => c = d

\* The server's poll offers nodes and, in a session, may send.
Offer ==
    /\ \A c \in offered' \ offered : c[2] \in there /\ c[1] \in next .. (next' - 1)
    /\ OneToOne(offered') /\ WithdrawsGone
    /\ coming' = coming \/ (up /\ coming' \subseteq offered')
    /\ UNCHANGED <<there, gone, held, up>>

\* What comes: the client loses only what is not offered any more.
Take ==
    /\ up
    /\ held' \subseteq held \cup coming
    /\ (held \ held') \cap offered = {}
    /\ coming' = {}
    /\ UNCHANGED <<there, gone, next, offered, up>>

\* The client's game takes its own copy of a node out, which may come again.
Unload ==
    /\ \E t \in Things \ Once : held' = {c \in held : c[2] # t}
    /\ UNCHANGED <<there, gone, next, offered, coming, up>>

Lose ==
    /\ coming' = {}
    /\ UNCHANGED <<there, gone, next, offered, held, up>>

\* A session begins with nothing, and leaves nothing unless the client just
\* goes away from it.
NextSession ==
    /\ up' = ~up
    /\ coming' = {} /\ held' \in (IF up THEN {{}, held} ELSE {{}})
    /\ UNCHANGED <<there, gone, next, offered>>

Next == Move \/ Offer \/ Take \/ Unload \/ Lose \/ NextSession

Spec == Init /\ [][Next]_vars
=============================================================================
