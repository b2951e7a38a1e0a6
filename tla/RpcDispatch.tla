----------------------------- MODULE RpcDispatch -----------------------------
(***************************************************************************)
(* One process that makes and takes RPCs: which way a call goes out, which *)
(* node a message or a command that comes in is called on, and what        *)
(* get_remote_sender_id() answers to the method called.                    *)
(*                                                                         *)
(* The game changes the tree at any time, in the called methods too: nodes *)
(* enter it at a path, leave it, and are freed.  What the process has      *)
(* remembered about the tree is then of an older one: the node a message's *)
(* target resolved to, and the nodes the last scan found marked.           *)
(*                                                                         *)
(* stack is what runs: the inner calls the GoldNetLink ("link") or a game  *)
(* method ("inner"), a packet of the link brings messages and commands,    *)
(* and any of the methods may call one with call_local ("local").          *)
(*                                                                         *)
(* The inner API is external.  It runs a call_local copy with its sender   *)
(* overridden by its own id, and clears the override after it.             *)
(***************************************************************************)
EXTENDS Integers, Sequences, FiniteSets

CONSTANTS
    Objects,    \* nodes with an @rpc method
    NoObject,
    Paths,      \* where in the tree they may be
    Peers,      \* the other processes; 1 is the host
    Me,         \* this process's id as a client
    MaxDepth    \* bound: calls that run at once

ASSUME IdsAssumption ==
    /\ Peers \subseteq Nat \ {0, 1} /\ Peers # {}
    /\ Me \in Nat \ {0, 1} /\ Me \notin Peers
ASSUME NoneAssumption == NoObject \notin Objects \cup Paths
ASSUME DepthAssumption == MaxDepth \in Nat

VARIABLES
    role,             \* "host" or "client"
    tree,             \* path -> the node there
    freed,            \* nodes freed
    marked,           \* nodes whose gn_commands meta lists the method
    msg_targets,      \* path -> the node remembered for the peer's messages, where registered
    command_targets,  \* path -> the marked node the last scan found there
    scanned_recently, \* command_scan_ms is less than a second ago
    stack,            \* what runs, innermost last
    command_sender,   \* whose message or command is being called; 0 none
    sender_override,  \* the inner's override of its sender; 0 none
    home,             \* history: the path a node was last at
    moved,            \* history: nodes put at another path than before
    newer             \* history: nodes marked or put in the tree since the last scan

vars == <<role, tree, freed, marked, msg_targets, command_targets,
          scanned_recently, stack, command_sender, sender_override, home, moved, newer>>
nodes    == <<tree, freed, marked, home, moved>>
commands == <<command_targets, scanned_recently, newer>>
calls    == <<stack, command_sender, sender_override>>

Roles == {"host", "client"}
Self(r)   == IF r = "host" THEN 1 ELSE Me
Others(r) == IF r = "host" THEN Peers ELSE {1} \cup Peers

\* The peer whose packets this process takes: its server, or one client.
Remote == IF role = "host" THEN CHOOSE p \in Peers : TRUE ELSE 1

InTree(o) == \E x \in Paths : tree[x] = o
Somewhere == Objects \cup {NoObject}

TypeOK ==
    /\ role \in Roles
    /\ tree \in [Paths -> Somewhere]
    /\ \A x, y \in Paths : tree[x] = tree[y] /\ x # y => tree[x] = NoObject
    /\ {freed, marked, moved, newer} \subseteq SUBSET Objects
    /\ DOMAIN msg_targets \subseteq Paths
    /\ \A x \in DOMAIN msg_targets : msg_targets[x] \in Somewhere
    /\ command_targets \in [Paths -> Somewhere]
    /\ scanned_recently \in BOOLEAN
    /\ stack \in Seq([how : {"link", "inner", "message", "command", "local"},
                      outer : {0} \cup Others(role)])
    /\ Len(stack) <= MaxDepth
    /\ command_sender \in {0} \cup Others(role)
    /\ sender_override \in {0, Self(role)}
    /\ home \in [Objects -> Paths \cup {NoObject}]

Init ==
    /\ role \in Roles
    /\ tree = [x \in Paths |-> NoObject]
    /\ freed = {} /\ marked = {} /\ moved = {} /\ newer = {}
    /\ msg_targets = <<>>
    /\ command_targets = [x \in Paths |-> NoObject]
    /\ scanned_recently = FALSE
    /\ stack = <<>> /\ command_sender = 0 /\ sender_override = 0
    /\ home = [o \in Objects |-> NoObject]

-----------------------------------------------------------------------------
\* The game's tree.

EnterTree(o, x) ==
    /\ tree[x] = NoObject /\ ~InTree(o) /\ o \notin freed
    /\ tree' = [tree EXCEPT ![x] = o]
    /\ home' = [home EXCEPT ![o] = x]
    /\ moved' = IF home[o] \in {x, NoObject} THEN moved ELSE moved \cup {o}
    /\ newer' = newer \cup {o}
    /\ UNCHANGED <<role, freed, marked, msg_targets, command_targets,
                   scanned_recently, calls>>

ExitTree(x) ==
    /\ tree[x] # NoObject
    /\ tree' = [tree EXCEPT ![x] = NoObject]
    /\ UNCHANGED <<role, freed, marked, home, moved, msg_targets, commands, calls>>

FreeNode(o) ==
    /\ o \notin freed
    /\ freed' = freed \cup {o}
    /\ tree' = [x \in Paths |-> IF tree[x] = o THEN NoObject ELSE tree[x]]
    /\ UNCHANGED <<role, marked, home, moved, msg_targets, commands, calls>>

\* CommandStream.mark, at any time before or after it enters the tree.
Mark(o) ==
    /\ o \notin freed \cup marked
    /\ marked' = marked \cup {o}
    /\ newer' = newer \cup {o}
    /\ UNCHANGED <<role, tree, freed, home, moved, msg_targets, command_targets,
                   scanned_recently, calls>>

\* A second goes by.
SecondPasses ==
    /\ scanned_recently /\ scanned_recently' = FALSE
    /\ UNCHANGED <<role, nodes, msg_targets, command_targets, newer, calls>>

-----------------------------------------------------------------------------
\* Which node is called.

\* A mutated form: a remembered node is called wherever it is.
MessageNodeAlive(x) ==
    IF msg_targets[x] \in Objects \ freed THEN msg_targets[x] ELSE tree[x]

\* _deliver_message: the remembered node while it lives and is in the tree,
\* else the one at the path.
MessageNode(x) ==
    LET known == msg_targets[x]
    IN  IF known \in Objects \ freed /\ InTree(known) THEN known ELSE tree[x]

\* _scan_command_targets, from the root.
ScanFinds == [x \in Paths |-> IF tree[x] \in marked THEN tree[x] ELSE NoObject]

Alive(o) == o # NoObject /\ o \notin freed

\* A mutated form: a node remembered stands, freed or not.
RescansUnknown(x) == command_targets[x] = NoObject /\ ~scanned_recently

\* _command_target rescans when the remembered node is no more and a second
\* has passed since it last did.
Rescans(x) == ~Alive(command_targets[x]) /\ ~scanned_recently

CommandNode(x) == IF Rescans(x) THEN ScanFinds[x]
                  ELSE IF Alive(command_targets[x]) THEN command_targets[x] ELSE NoObject

-----------------------------------------------------------------------------
\* What runs.

Push(how, sender) ==
    /\ Len(stack) < MaxDepth
    /\ stack' = Append(stack, [how |-> how, outer |-> command_sender])
    /\ command_sender' = sender

Top == stack[Len(stack)].how

InnerSender == IF sender_override # 0 THEN sender_override
               ELSE IF stack # <<>> /\ stack[1].how \in {"link", "inner"} THEN Remote
               ELSE 0

\* _get_remote_sender_id
RemoteSender == IF command_sender # 0 THEN command_sender ELSE InnerSender

\* The inner's poll takes a packet: the link's, or another RPC's.
InnerCalls(how) ==
    /\ stack = <<>>
    /\ Push(how, command_sender)
    /\ UNCHANGED <<role, nodes, msg_targets, commands, sender_override>>

\* A registration in the link's packet.
RegisterTarget(x) ==
    /\ stack # <<>> /\ Top = "link"
    /\ x \notin DOMAIN msg_targets
    /\ msg_targets' = [y \in DOMAIN msg_targets \cup {x} |->
                         IF y = x THEN NoObject ELSE msg_targets[y]]
    /\ UNCHANGED <<role, nodes, commands, calls>>

\* A mutated form: a host takes it to be from the server as well.
MessageFromServer == 1

\* Whose message it is: UplinkHost's peer, which on_uplink was told by the
\* link's sender; ClientHost's is the server.
MessageFrom == IF role = "host" THEN RemoteSender ELSE 1

\* A call in it, to a target registered: remembered, and called if it is
\* here and the caller may.
DeliverMessage(x, permitted) ==
    /\ stack # <<>> /\ Top = "link"
    /\ x \in DOMAIN msg_targets
    /\ msg_targets' = [msg_targets EXCEPT ![x] = MessageNode(x)]
    /\ IF MessageNode(x) # NoObject /\ permitted
       THEN Push("message", MessageFrom)
       ELSE UNCHANGED <<stack, command_sender>>
    /\ UNCHANGED <<role, nodes, commands, sender_override>>

\* A command in an uplink packet, for the stream of the method at x.
DeliverCommand(x, permitted) ==
    /\ role = "host" /\ stack # <<>> /\ Top = "link"
    /\ IF Rescans(x)
       THEN command_targets' = ScanFinds /\ scanned_recently' = TRUE /\ newer' = {}
       ELSE UNCHANGED commands
    /\ IF CommandNode(x) # NoObject /\ permitted
       THEN Push("command", RemoteSender)
       ELSE UNCHANGED <<stack, command_sender>>
    /\ UNCHANGED <<role, nodes, msg_targets, sender_override>>

\* A mutated form: the sender stays.
RestoredNever == command_sender

\* The method or the link's handler returns; a local copy's override with it.
Restored == stack[Len(stack)].outer

Return ==
    /\ stack # <<>>
    /\ stack' = SubSeq(stack, 1, Len(stack) - 1)
    /\ command_sender' = Restored
    /\ sender_override' = IF Top = "local" THEN 0 ELSE sender_override
    /\ UNCHANGED <<role, nodes, msg_targets, commands>>

\* The game calls a method with call_local: inner->rpc runs it here.
LocalCopy ==
    /\ Push("local", command_sender)
    /\ sender_override' = Self(role)
    /\ UNCHANGED <<role, nodes, msg_targets, commands>>

\* The session ends, maybe in a called method: what the peer named goes.
ForgetTargets ==
    /\ msg_targets # <<>> /\ msg_targets' = <<>>
    /\ UNCHANGED <<role, nodes, commands, calls>>

-----------------------------------------------------------------------------
\* Which way a call goes.  r is the caller's role, t is rpc's peer: one, 0 for
\* all, -p for all but p; m is the method called.

\* The inner's own rpc (MultiplayerAPI): the peers it sends to, and whether
\* it runs a local copy.
InnerReach(r, t) == IF t > 0 THEN {t} \cap Others(r) ELSE Others(r) \ {-t}
InnerLocal(r, t, m) ==
    m.call_local /\ (t \in {0, Self(r)} \/ (t < 0 /\ t # -Self(r)))

\* What became of a call: peers reached by netchan or uplink, peers inner->rpc
\* was called for, and peers charged.
Outcome(net, rpcs, charged) == [net |-> net, rpcs |-> rpcs, charged |-> charged]

\* _charge_rpc: the host's recipients.
Charged(r, t) == IF r = "host" THEN InnerReach(r, t) ELSE {}

\* _sim_send's calls of inner->rpc: under a link cap a broadcast is split.
SimSend(r, t, capped) == IF capped /\ t <= 0 THEN InnerReach(r, t) ELSE {t}

\* _netchan_rpc takes it: on channel 0, between the host and a client.
NetchanTakes(r, t, m, fits) ==
    /\ m.channel = 0
    /\ IF r = "client" THEN t = 1 /\ fits
       ELSE t # 1 /\ (t > 0 => t \in Others(r))

\* The host's recipients of a call on the netchan.
NetchanTargets(t) == IF t > 0 THEN {t} ELSE {p \in Others("host") : p # -t}

\* A mutated form: "all but ourselves" is all with us.
NetchanLocalAlways(t, m) == m.call_local /\ t <= 0

NetchanLocal(t, m) == m.call_local /\ (t = 0 \/ (t < 0 /\ t # -1))

\* _netchan_rpc: what does not fit a datagram is charged and left to the inner.
NetchanRpc(r, t, m, fits) ==
    LET targets == IF r = "client" THEN {1} ELSE NetchanTargets(t)
        left    == IF fits THEN {} ELSE targets
        local   == IF r = "host" /\ NetchanLocal(t, m) THEN {1} ELSE {}
    IN  Outcome(targets \ left, left \cup local, left)

\* _rpc: a marked method's call to the host goes on the uplink, as a command.
RpcRoute(r, t, m, fits, capped) ==
    IF r = "client" /\ t = 1 /\ m.command THEN Outcome({1}, {}, {})
    ELSE IF NetchanTakes(r, t, m, fits) THEN NetchanRpc(r, t, m, fits)
    ELSE Outcome({}, SimSend(r, t, capped), Charged(r, t))

-----------------------------------------------------------------------------
Next ==
    \/ \E o \in Objects, x \in Paths : EnterTree(o, x)
    \/ \E x \in Paths : ExitTree(x)
    \/ \E o \in Objects : FreeNode(o)
    \/ \E o \in Objects : Mark(o)
    \/ SecondPasses
    \/ \E how \in {"link", "inner"} : InnerCalls(how)
    \/ \E x \in Paths : RegisterTarget(x)
    \/ \E x \in Paths, permitted \in BOOLEAN : DeliverMessage(x, permitted)
    \/ \E x \in Paths, permitted \in BOOLEAN : DeliverCommand(x, permitted)
    \/ Return
    \/ LocalCopy
    \/ ForgetTargets

Spec == Init /\ [][Next]_vars

-----------------------------------------------------------------------------
(***************************************************************************)
(* A message that comes now is called on the node at its path, as if       *)
(* nothing were remembered, unless the node remembered was moved to        *)
(* another path of the tree: that one goes on being called.                *)
(***************************************************************************)
MessagesReach ==
    \A x \in DOMAIN msg_targets :
        MessageNode(x) # tree[x] => MessageNode(x) \in moved

(***************************************************************************)
(* A command that comes now is called on the marked node at its path.  The *)
(* exceptions: the node the last scan found is alive and elsewhere, since  *)
(* _command_target does not ask where it is; or the one at the path was    *)
(* marked or came after a scan less than a second ago.                     *)
(***************************************************************************)
CommandsReach ==
    \A x \in Paths :
        tree[x] \in marked =>
            \/ CommandNode(x) = tree[x]
            \/ Alive(command_targets[x]) /\ tree[x] # command_targets[x]
            \/ scanned_recently /\ tree[x] \in newer

(***************************************************************************)
(* In the method of a message or command get_remote_sender_id() is the     *)
(* peer that sent it; when none is running, however deep and in whatever   *)
(* order they were, it is what the inner says.                             *)
(***************************************************************************)
Delivered(k) == stack[k].how \in {"message", "command"}

SenderAnswered ==
    /\ stack # <<>> /\ Delivered(Len(stack)) => RemoteSender = Remote
    /\ (\A k \in DOMAIN stack : ~Delivered(k)) => RemoteSender = InnerSender

(***************************************************************************)
(* Whatever it is addressed to, a call reaches each peer the inner would   *)
(* have sent it to, once, by one of the ways; the local copy is run when   *)
(* the inner would have, once; and the host charges exactly the peers the  *)
(* inner is asked to reach.  Under a simulated link cap the local copy of  *)
(* a broadcast the inner carries is lost: _sim_send splits it.             *)
(***************************************************************************)
Methods == [channel : {0, 1}, call_local : BOOLEAN, command : BOOLEAN]

RoutesAsInner(r) ==
    \A t \in {0, 1, Me, -1, -Me} \cup Peers \cup {-p : p \in Peers}, m \in Methods,
       fits, capped \in BOOLEAN :
        LET out == RpcRoute(r, t, m, fits, capped)
            ways(p) == {x \in out.rpcs : p \in InnerReach(r, x)}
            split   == capped /\ t <= 0 /\ ~NetchanTakes(r, t, m, fits)
        IN  /\ \A p \in Others(r) :
                 (IF p \in out.net THEN 1 ELSE 0) + Cardinality(ways(p))
                   = IF p \in InnerReach(r, t) THEN 1 ELSE 0
            /\ r = "host" => out.charged = {p \in Others(r) : ways(p) # {}}
            /\ Cardinality({x \in out.rpcs : InnerLocal(r, x, m)})
                 = IF InnerLocal(r, t, m) /\ ~split THEN 1 ELSE 0

RouteChecked == [r \in Roles |-> RoutesAsInner(r)]

RouteAsInner == RouteChecked[role]
=============================================================================
