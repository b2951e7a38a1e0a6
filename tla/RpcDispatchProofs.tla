------------------------- MODULE RpcDispatchProofs -------------------------
(***************************************************************************)
(* Of any process, at any depth of nested calls: whom a called method sees *)
(* as the sender.  Of any tree: which node a message or a command is       *)
(* called on, whatever was remembered.  Of any declarations: the arguments *)
(* it is called with.                                                      *)
(***************************************************************************)
EXTENDS RpcArguments, FiniteSetTheorems, TLAPS

Hows == {"link", "inner", "message", "command", "local"}

\* The variables have their types.
CallTypes ==
    /\ role \in Roles
    /\ stack \in Seq([how : Hows, outer : {0} \cup Others(role)])
    /\ Len(stack) <= MaxDepth
    /\ command_sender \in {0} \cup Others(role)
    /\ sender_override \in {0, Self(role)}

TreeTypes ==
    /\ tree \in [Paths -> Somewhere]
    /\ \A x, y \in Paths : tree[x] = tree[y] /\ x # y => tree[x] = NoObject
    /\ {freed, marked, moved, newer} \subseteq SUBSET Objects
    /\ DOMAIN msg_targets \subseteq Paths
    /\ \A x \in DOMAIN msg_targets : msg_targets[x] \in Somewhere
    /\ command_targets \in [Paths -> Somewhere]
    /\ scanned_recently \in BOOLEAN
    /\ home \in [Objects -> Paths \cup {NoObject}]

\* A message or a command is the second thing that runs, under the link.
UnderLink == 2 \in DOMAIN stack /\ Delivered(2)

\* What a frame puts back, and what is set now, is the remote peer exactly
\* while the message or command is below.
Nesting ==
    /\ \A k \in DOMAIN stack :
          /\ stack[k].how \in {"link", "inner"} => k = 1
          /\ Delivered(k) => k = 2 /\ stack[1].how = "link"
          /\ stack[k].outer = IF k > 2 /\ UnderLink THEN Remote ELSE 0
    /\ command_sender = IF UnderLink THEN Remote ELSE 0
    /\ sender_override # 0 => \E k \in DOMAIN stack : stack[k].how = "local"

\* Where a node was last at is where it is, and where it was remembered for,
\* unless it was moved.
Homes ==
    /\ \A x \in Paths : tree[x] # NoObject => home[tree[x]] = x /\ tree[x] \notin freed
    /\ \A x \in DOMAIN msg_targets : msg_targets[x] # NoObject =>
          msg_targets[x] \in moved \/ home[msg_targets[x]] = x

\* While a scan is recent it found every node that is not newer.
Scanned ==
    \A x \in Paths :
        scanned_recently /\ tree[x] \in marked =>
            tree[x] \in newer \/ command_targets[x] = tree[x]

CallInv == CallTypes /\ Nesting
TreeInv == TreeTypes /\ Homes /\ Scanned

-----------------------------------------------------------------------------
\* The remote peer is another process, and never 0.
LEMMA RemoteIsOther ==
    ASSUME role \in Roles
    PROVE  Remote \in Others(role) /\ Remote # 0 /\ Remote \in Nat
PROOF
  <1>1. PICK p : p \in Peers
    BY IdsAssumption
  <1>2. (CHOOSE q \in Peers : TRUE) \in Peers
    BY <1>1, Zenon
  <1>3. role = "host" => Remote \in Peers
    BY <1>2, Zenon DEF Remote
  <1>4. role # "host" => Remote = 1
    BY DEF Remote
  <1>5. CASE role = "host"
    BY <1>3, <1>5, IdsAssumption DEF Others
  <1>6. CASE role # "host"
    BY <1>4, <1>6 DEF Others
  <1> QED BY <1>5, <1>6

\* What Push does, when it runs something that may run there.
LEMMA PushNests ==
    ASSUME CallInv, NEW how \in Hows, NEW sender,
           how \in {"link", "inner"} => stack = <<>> /\ sender = command_sender,
           how \in {"message", "command"} =>
               stack # <<>> /\ Top = "link" /\ sender = Remote,
           how = "local" => sender = command_sender,
           Push(how, sender), role' = role,
           sender_override' = IF how = "local" THEN Self(role) ELSE sender_override
    PROVE  CallInv'
PROOF
  <1> DEFINE n == Len(stack)
  <1> USE DEF CallInv, CallTypes
  <1>1. /\ n \in Nat /\ DOMAIN stack = 1 .. n
        /\ DOMAIN stack' = 1 .. (n + 1)
        /\ stack' \in Seq([how : Hows, outer : {0} \cup Others(role)])
        /\ Len(stack') = n + 1
        /\ stack'[n + 1].how = how /\ stack'[n + 1].outer = command_sender
        /\ \A k \in 1 .. n : stack'[k] = stack[k]
    BY DEF Push
  <1>2. /\ Remote' = Remote /\ Others(role)' = Others(role)
        /\ Self(role)' = Self(role)
    BY DEF Remote, Others, Self
  <1>9. sender \in {0, Remote}
    BY DEF Nesting, Hows
  <1>3. CallTypes'
    BY <1>1, <1>2, <1>9, RemoteIsOther, DepthAssumption DEF Push
  <1>4. how \in {"message", "command"} => n = 1 /\ stack[1].how = "link"
    BY <1>1 DEF Top, Nesting
  <1>5. UnderLink' <=> UnderLink \/ how \in {"message", "command"}
    BY <1>1, <1>4 DEF UnderLink, Delivered, Nesting
  <1>6. command_sender' = IF UnderLink' THEN Remote ELSE 0
    <2>1. CASE how \in {"message", "command"}
      BY <1>5, <2>1 DEF Push
    <2>2. CASE how \notin {"message", "command"}
      BY <1>5, <2>2 DEF Push, Nesting, Hows
    <2> QED BY <2>1, <2>2
  <1>7. ASSUME NEW k \in DOMAIN stack'
        PROVE /\ stack'[k].how \in {"link", "inner"} => k = 1
              /\ Delivered(k)' => k = 2 /\ stack'[1].how = "link"
              /\ stack'[k].outer = IF k > 2 /\ UnderLink' THEN Remote ELSE 0
    <2>1. CASE k = n + 1
      BY <1>1, <1>4, <1>5, <2>1 DEF Nesting, UnderLink, Delivered
    <2>2. CASE k \in 1 .. n
      BY <1>1, <1>4, <1>5, <2>2 DEF Nesting, UnderLink, Delivered
    <2> QED BY <1>1, <2>1, <2>2
  <1>8. sender_override' # 0 => \E k \in DOMAIN stack' : stack'[k].how = "local"
    BY <1>1 DEF Nesting
  <1> QED BY <1>2, <1>3, <1>6, <1>7, <1>8 DEF Nesting

\* A call returns.
LEMMA ReturnNests == CallInv /\ Return => CallInv'
PROOF
  <1> SUFFICES ASSUME CallInv, Return PROVE CallInv'
    OBVIOUS
  <1> DEFINE n == Len(stack)
  <1> USE DEF CallInv, CallTypes
  <1>1. /\ n \in Nat \ {0} /\ DOMAIN stack = 1 .. n
        /\ DOMAIN stack' = 1 .. (n - 1) /\ Len(stack') = n - 1
        /\ stack' \in Seq([how : Hows, outer : {0} \cup Others(role)])
        /\ \A k \in 1 .. (n - 1) : stack'[k] = stack[k]
    <2> DEFINE F == [how : Hows, outer : {0} \cup Others(role)]
    <2>1. stack \in Seq(F) /\ stack # <<>> /\ stack' = SubSeq(stack, 1, n - 1)
      BY DEF Return
    <2> HIDE DEF F
    <2>2. n \in Nat \ {0} /\ DOMAIN stack = 1 .. n
      BY <2>1
    <2>3. stack' \in Seq(F) /\ Len(stack') = n - 1
          /\ \A k \in 1 .. (n - 1) : stack'[k] = stack[k]
      BY <2>1, <2>2
    <2> QED BY <2>2, <2>3 DEF F
  <1>2. /\ role' = role /\ Remote' = Remote /\ Others(role)' = Others(role)
        /\ Self(role)' = Self(role)
    BY DEF Return, Remote, Others, Self
  <1>3. UnderLink' <=> UnderLink /\ n > 2
    BY <1>1 DEF UnderLink, Delivered
  <1>4. command_sender' = IF UnderLink' THEN Remote ELSE 0
    BY <1>1, <1>3 DEF Return, Restored, Nesting
  <1>5. CallTypes'
    BY <1>1, <1>2, <1>4, RemoteIsOther, DepthAssumption DEF Return
  <1>6. ASSUME NEW k \in DOMAIN stack'
        PROVE /\ stack'[k].how \in {"link", "inner"} => k = 1
              /\ Delivered(k)' => k = 2 /\ stack'[1].how = "link"
              /\ stack'[k].outer = IF k > 2 /\ UnderLink' THEN Remote ELSE 0
    BY <1>1, <1>3 DEF Nesting, Delivered
  <1>7. sender_override' # 0 => \E k \in DOMAIN stack' : stack'[k].how = "local"
    <2> SUFFICES ASSUME sender_override' # 0
                 PROVE  \E k \in 1 .. (n - 1) : stack'[k].how = "local"
      BY <1>1
    <2>1. stack[n].how # "local" /\ sender_override # 0
      BY DEF Return, Top
    <2>2. PICK k \in 1 .. n : stack[k].how = "local"
      BY <1>1, <2>1 DEF Nesting
    <2>3. k \in 1 .. (n - 1)
      BY <1>1, <2>1, <2>2
    <2> QED BY <1>1, <2>2, <2>3
  <1> QED BY <1>2, <1>4, <1>5, <1>6, <1>7 DEF Nesting

\* Every step keeps the nesting.
LEMMA CallInvNext == CallInv /\ [Next]_vars => CallInv'
PROOF
  <1> SUFFICES ASSUME CallInv, [Next]_vars PROVE CallInv'
    OBVIOUS
  <1>1. ASSUME UNCHANGED <<role, calls>> PROVE CallInv'
    <2>1. /\ role' = role /\ stack' = stack /\ command_sender' = command_sender
          /\ sender_override' = sender_override
      BY <1>1 DEF calls
    <2> QED BY <2>1 DEF CallInv, CallTypes, Nesting, UnderLink, Delivered, Remote, Others, Self
  <1>2. ASSUME NEW how \in {"link", "inner"}, InnerCalls(how) PROVE CallInv'
    BY <1>2, PushNests DEF InnerCalls, Hows
  <1>3. ASSUME LocalCopy PROVE CallInv'
    BY <1>3, PushNests DEF LocalCopy, Hows
  <1>4. ASSUME stack # <<>>, Top = "link"
        PROVE  RemoteSender = Remote
    <2> DEFINE n == Len(stack)
    <2>3. n \in Nat \ {0} /\ DOMAIN stack = 1 .. n
      BY <1>4 DEF CallInv, CallTypes
    <2>4. stack[n].how = "link" /\ n = 1
      BY <1>4, <2>3 DEF CallInv, Nesting, Top
    <2>1. DOMAIN stack = {1} /\ stack[1].how = "link"
      BY <2>3, <2>4
    <2>2. command_sender = 0 /\ sender_override = 0
      BY <2>1 DEF CallInv, Nesting, UnderLink
    <2> QED BY <1>4, <2>1, <2>2 DEF RemoteSender, InnerSender
  <1>5. ASSUME NEW x \in Paths, NEW permitted \in BOOLEAN, DeliverMessage(x, permitted)
        PROVE  CallInv'
    <2>1. MessageFrom = Remote
      BY <1>4, <1>5 DEF DeliverMessage, MessageFrom, Remote, CallInv, CallTypes, Roles
    <2> QED BY <1>1, <1>5, <2>1, PushNests DEF DeliverMessage, Hows, calls
  <1>6. ASSUME NEW x \in Paths, NEW permitted \in BOOLEAN, DeliverCommand(x, permitted)
        PROVE  CallInv'
    BY <1>1, <1>4, <1>6, PushNests DEF DeliverCommand, Hows, calls
  <1>7. ASSUME Return PROVE CallInv'
    BY <1>7, ReturnNests
  <1>8. CASE \/ \E o \in Objects, x \in Paths : EnterTree(o, x)
             \/ \E x \in Paths : ExitTree(x)
             \/ \E o \in Objects : FreeNode(o)
             \/ \E o \in Objects : Mark(o)
             \/ SecondPasses
             \/ \E x \in Paths : RegisterTarget(x)
             \/ ForgetTargets
             \/ UNCHANGED vars
    BY <1>1, <1>8 DEF EnterTree, ExitTree, FreeNode, Mark, SecondPasses, RegisterTarget,
                      ForgetTargets, vars, calls
  <1> QED BY <1>2, <1>3, <1>5, <1>6, <1>7, <1>8 DEF Next

LEMMA CallInvInit == Init => CallInv
PROOF
  <1> SUFFICES ASSUME Init PROVE CallInv
    OBVIOUS
  <1>1. stack = <<>> /\ Len(stack) = 0 /\ DOMAIN stack = {}
    BY DEF Init
  <1> QED BY <1>1, DepthAssumption
          DEF Init, CallInv, CallTypes, Nesting, UnderLink

LEMMA CallInvAlways == Spec => []CallInv
PROOF BY CallInvInit, CallInvNext, PTL DEF Spec

(***************************************************************************)
(* SenderAnswered, of any other processes and to any depth: a method       *)
(* called off a message or a command sees the peer that sent it, and with  *)
(* none of them running the inner's answer is not touched.                 *)
(***************************************************************************)
THEOREM SenderAlwaysAnswered == Spec => []SenderAnswered
PROOF
  <1>1. CallInv => SenderAnswered
    <2> SUFFICES ASSUME CallInv PROVE SenderAnswered
      OBVIOUS
    <2> USE DEF CallInv
    <2>1. Len(stack) \in Nat /\ DOMAIN stack = 1 .. Len(stack)
      BY DEF CallTypes
    <2>2. stack # <<>> /\ Delivered(Len(stack)) => RemoteSender = Remote
      BY <2>1, RemoteIsOther DEF CallTypes, Nesting, UnderLink, RemoteSender
    <2>3. (\A k \in DOMAIN stack : ~Delivered(k)) => RemoteSender = InnerSender
      BY DEF Nesting, UnderLink, RemoteSender
    <2> QED BY <2>2, <2>3 DEF SenderAnswered
  <1> QED BY <1>1, CallInvAlways, PTL

-----------------------------------------------------------------------------
\* What a message resolves to is a node of the tree, or none.
LEMMA MessageNodeFacts ==
    ASSUME TreeInv, NEW x \in DOMAIN msg_targets
    PROVE  /\ MessageNode(x) \in Somewhere
           /\ MessageNode(x) # NoObject =>
                \/ home[MessageNode(x)] = x
                \/ MessageNode(x) \in moved
           /\ MessageNode(x) # tree[x] => MessageNode(x) \in moved
PROOF
  <1> USE DEF TreeInv, TreeTypes, Homes
  <1>1. x \in Paths /\ tree[x] \in Somewhere /\ msg_targets[x] \in Somewhere
    OBVIOUS
  <1>2. CASE msg_targets[x] \in Objects \ freed /\ InTree(msg_targets[x])
    <2>1. PICK y \in Paths : tree[y] = msg_targets[x]
      BY <1>2 DEF InTree
    <2>2. msg_targets[x] # NoObject /\ home[msg_targets[x]] = y
      BY <1>2, <2>1, NoneAssumption
    <2> QED BY <1>1, <1>2, <2>1, <2>2 DEF MessageNode
  <1>3. CASE ~(msg_targets[x] \in Objects \ freed /\ InTree(msg_targets[x]))
    BY <1>1, <1>3 DEF MessageNode
  <1> QED BY <1>2, <1>3

\* A node enters the tree.
LEMMA TreeInvEnter ==
    ASSUME TreeInv, NEW o \in Objects, NEW x \in Paths, EnterTree(o, x)
    PROVE  TreeInv'
PROOF
  <1> USE DEF TreeInv, TreeTypes
  <1>1. /\ tree' \in [Paths -> Somewhere] /\ tree'[x] = o
        /\ \A y \in Paths \ {x} : tree'[y] = tree[y] /\ tree[y] # o
        /\ home' \in [Objects -> Paths \cup {NoObject}] /\ home'[o] = x
        /\ \A p \in Objects \ {o} : home'[p] = home[p]
    BY DEF EnterTree, Somewhere, InTree
  <1>2. /\ UNCHANGED <<freed, marked, msg_targets, command_targets, scanned_recently>>
        /\ moved \subseteq moved' /\ moved' \subseteq Objects /\ newer' = newer \cup {o}
        /\ o \notin freed
        /\ home[o] \in {x, NoObject} \/ o \in moved'
    BY DEF EnterTree
  <1>3. TreeTypes'
    BY <1>1, <1>2
  <1>4. \A y \in Paths : tree'[y] # NoObject =>
            home'[tree'[y]] = y /\ tree'[y] \notin freed'
    BY <1>1, <1>2 DEF Homes, Somewhere
  <1>5. ASSUME NEW y \in DOMAIN msg_targets, msg_targets[y] # NoObject
        PROVE  msg_targets[y] \in moved' \/ home'[msg_targets[y]] = y
    <2>1. msg_targets[y] \in Objects /\ y \in Paths
      BY <1>5 DEF Somewhere
    <2>2. CASE msg_targets[y] = o
      BY <1>1, <1>2, <1>5, <2>1, <2>2, NoneAssumption DEF Homes
    <2>3. CASE msg_targets[y] # o
      BY <1>1, <1>2, <1>5, <2>1, <2>3 DEF Homes
    <2> QED BY <2>2, <2>3
  <1>6. Scanned'
    BY <1>1, <1>2 DEF Scanned
  <1> QED BY <1>2, <1>3, <1>4, <1>5, <1>6 DEF Homes

\* Nodes may leave the tree, be freed, and a peer's targets be forgotten.
LEMMA TreeInvLess ==
    ASSUME TreeInv, tree' \in [Paths -> Somewhere],
           \A x \in Paths : tree'[x] \in {tree[x], NoObject},
           freed \subseteq freed', freed' \subseteq Objects,
           \A x \in Paths : tree'[x] # NoObject => tree'[x] \notin freed',
           msg_targets' = msg_targets \/ msg_targets' = <<>>,
           UNCHANGED <<marked, moved, newer, home, command_targets, scanned_recently>>
    PROVE  TreeInv'
PROOF
  <1> USE DEF TreeInv, TreeTypes
  <1>1. DOMAIN msg_targets' \subseteq DOMAIN msg_targets
        /\ \A x \in DOMAIN msg_targets' : msg_targets'[x] = msg_targets[x]
    OBVIOUS
  <1>2. TreeTypes'
    BY <1>1
  <1>3. Homes'
    BY <1>1 DEF Homes
  <1>4. Scanned'
    BY NoneAssumption DEF Scanned
  <1> QED BY <1>2, <1>3, <1>4

LEMMA TreeInvNext == TreeInv /\ [Next]_vars => TreeInv'
PROOF
  <1> SUFFICES ASSUME TreeInv, [Next]_vars PROVE TreeInv'
    OBVIOUS
  <1>1. ASSUME UNCHANGED <<nodes, msg_targets, commands>> PROVE TreeInv'
    BY <1>1 DEF nodes, commands, TreeInv, TreeTypes, Homes, Scanned
  <1>2. ASSUME NEW o \in Objects, NEW x \in Paths, EnterTree(o, x) PROVE TreeInv'
    BY <1>2, TreeInvEnter
  <1>3. ASSUME NEW x \in Paths, ExitTree(x) PROVE TreeInv'
    <2>1. /\ tree' \in [Paths -> Somewhere]
          /\ \A y \in Paths : tree'[y] \in {tree[y], NoObject}
          /\ UNCHANGED <<freed, marked, moved, newer, home, msg_targets, command_targets,
                         scanned_recently>>
      BY <1>3 DEF ExitTree, TreeInv, TreeTypes, Somewhere, nodes, commands
    <2> QED BY <2>1, TreeInvLess DEF TreeInv, TreeTypes, Homes
  <1>4. ASSUME NEW o \in Objects, FreeNode(o) PROVE TreeInv'
    <2>1. /\ tree' \in [Paths -> Somewhere]
          /\ \A y \in Paths : tree'[y] \in {tree[y], NoObject}
          /\ freed' = freed \cup {o}
          /\ UNCHANGED <<marked, moved, newer, home, msg_targets, command_targets,
                         scanned_recently>>
      BY <1>4 DEF FreeNode, TreeInv, TreeTypes, Somewhere, nodes, commands
    <2>2. \A y \in Paths : tree'[y] # NoObject => tree'[y] \notin freed'
      BY <1>4, <2>1 DEF FreeNode, TreeInv, Homes
    <2> QED BY <2>1, <2>2, TreeInvLess DEF TreeInv, TreeTypes
  <1>5. ASSUME NEW o \in Objects, Mark(o) PROVE TreeInv'
    BY <1>5 DEF Mark, TreeInv, TreeTypes, Homes, Scanned
  <1>6. ASSUME SecondPasses PROVE TreeInv'
    BY <1>6 DEF SecondPasses, nodes, TreeInv, TreeTypes, Homes, Scanned
  <1>7. ASSUME NEW x \in Paths, RegisterTarget(x) PROVE TreeInv'
    BY <1>7, NoneAssumption
    DEF RegisterTarget, nodes, commands, Somewhere, TreeInv, TreeTypes, Homes, Scanned
  <1>8. ASSUME NEW x \in Paths, NEW permitted \in BOOLEAN, DeliverMessage(x, permitted)
        PROVE  TreeInv'
    <2>1. /\ UNCHANGED <<nodes, commands>> /\ x \in DOMAIN msg_targets
          /\ DOMAIN msg_targets' = DOMAIN msg_targets
          /\ msg_targets'[x] = MessageNode(x)
          /\ \A y \in DOMAIN msg_targets \ {x} : msg_targets'[y] = msg_targets[y]
      BY <1>8 DEF DeliverMessage
    <2>2. \A y \in DOMAIN msg_targets' : msg_targets'[y] \in Somewhere
      BY <2>1, MessageNodeFacts DEF TreeInv, TreeTypes
    <2>3. TreeTypes' /\ Scanned'
      BY <2>1, <2>2 DEF nodes, commands, TreeInv, TreeTypes, Scanned
    <2>4. Homes'
      BY <2>1, MessageNodeFacts DEF nodes, TreeInv, Homes
    <2> QED BY <2>3, <2>4 DEF TreeInv
  <1>9. ASSUME NEW x \in Paths, NEW permitted \in BOOLEAN, DeliverCommand(x, permitted)
        PROVE  TreeInv'
    <2>1. CASE Rescans(x)
      <3>1. /\ UNCHANGED <<nodes, msg_targets>>
            /\ command_targets' = ScanFinds /\ scanned_recently' = TRUE /\ newer' = {}
        BY <1>9, <2>1 DEF DeliverCommand
      <3>2. /\ ScanFinds \in [Paths -> Somewhere]
            /\ \A y \in Paths : tree[y] \in marked => ScanFinds[y] = tree[y]
        BY DEF ScanFinds, TreeInv, TreeTypes, Somewhere
      <3> QED BY <3>1, <3>2 DEF nodes, TreeInv, TreeTypes, Homes, Scanned
    <2>2. CASE ~Rescans(x)
      BY <1>1, <1>9, <2>2 DEF DeliverCommand
    <2> QED BY <2>1, <2>2
  <1>10. ASSUME ForgetTargets PROVE TreeInv'
    BY <1>10, TreeInvLess DEF ForgetTargets, nodes, commands, TreeInv, TreeTypes, Homes
  <1>11. CASE \/ \E how \in {"link", "inner"} : InnerCalls(how)
              \/ Return
              \/ LocalCopy
              \/ UNCHANGED vars
    BY <1>1, <1>11 DEF InnerCalls, Return, LocalCopy, vars, nodes, commands
  <1> QED BY <1>2, <1>3, <1>4, <1>5, <1>6, <1>7, <1>8, <1>9, <1>10, <1>11 DEF Next

LEMMA TreeInvInit == Init => TreeInv
PROOF
  <1> SUFFICES ASSUME Init PROVE TreeInv
    OBVIOUS
  <1>1. DOMAIN msg_targets = {}
    BY DEF Init
  <1>2. TreeTypes
    BY <1>1 DEF Init, TreeTypes, Somewhere
  <1> QED BY <1>1, <1>2 DEF Init, TreeInv, Homes, Scanned

LEMMA TreeInvAlways == Spec => []TreeInv
PROOF BY TreeInvInit, TreeInvNext, PTL DEF Spec

-----------------------------------------------------------------------------
(***************************************************************************)
(* The variables keep their types, however the game changes its tree and   *)
(* its methods call one another.                                           *)
(***************************************************************************)
THEOREM TypesHold == Spec => []TypeOK
PROOF
  <1>1. CallInv /\ TreeInv => TypeOK
    BY DEF CallInv, CallTypes, TreeInv, TreeTypes, TypeOK, Hows
  <1> QED BY <1>1, CallInvAlways, TreeInvAlways, PTL

(***************************************************************************)
(* MessagesReach, of any nodes and paths: what a target is remembered as   *)
(* makes a message call another node than the one at its path only when    *)
(* the game moved that node.                                               *)
(***************************************************************************)
THEOREM MessagesAlwaysReach == Spec => []MessagesReach
PROOF
  <1>1. TreeInv => MessagesReach
    BY MessageNodeFacts DEF MessagesReach
  <1> QED BY <1>1, TreeInvAlways, PTL

(***************************************************************************)
(* CommandsReach, of any nodes and paths: the last scan and its throttle   *)
(* keep a command from the marked node at its path only in the two ways    *)
(* the property names.                                                     *)
(***************************************************************************)
THEOREM CommandsAlwaysReach == Spec => []CommandsReach
PROOF
  <1>1. ASSUME TreeInv, NEW x \in Paths, tree[x] \in marked
        PROVE  \/ CommandNode(x) = tree[x]
               \/ Alive(command_targets[x]) /\ tree[x] # command_targets[x]
               \/ scanned_recently /\ tree[x] \in newer
    <2>1. Alive(tree[x])
      BY <1>1, NoneAssumption DEF TreeInv, TreeTypes, Homes, Alive
    <2>2. CASE Rescans(x)
      BY <1>1, <2>2 DEF CommandNode, ScanFinds
    <2>3. CASE ~Rescans(x) /\ Alive(command_targets[x])
      BY <2>3 DEF CommandNode
    <2>4. CASE ~Rescans(x) /\ ~Alive(command_targets[x])
      BY <1>1, <2>1, <2>4 DEF Rescans, TreeInv, Scanned
    <2> QED BY <2>2, <2>3, <2>4
  <1>2. TreeInv => CommandsReach
    BY <1>1 DEF CommandsReach
  <1> QED BY <1>2, TreeInvAlways, PTL

-----------------------------------------------------------------------------
\* Ways.

\* What the inner does of a call to one peer, and what of a broadcast.
LEMMA InnerFacts ==
    ASSUME NEW r \in Roles, NEW t \in Int, NEW m \in Methods
    PROVE  /\ Others(r) \subseteq Nat \ {0} /\ Self(r) \notin Others(r)
           /\ Self(r) \in Nat \ {0}
           /\ InnerReach(r, t) \subseteq Others(r)
           /\ \A x \in Others(r) : InnerReach(r, x) = {x} /\ ~InnerLocal(r, x, m)
           /\ InnerLocal(r, t, m) \in BOOLEAN
PROOF
  <1>1. Others(r) \subseteq Nat \ {0} /\ Self(r) \notin Others(r) /\ Self(r) \in Nat \ {0}
    BY IdsAssumption DEF Roles, Others, Self
  <1>2. InnerReach(r, t) \subseteq Others(r)
    BY DEF InnerReach
  <1>3. ASSUME NEW x \in Others(r) PROVE InnerReach(r, x) = {x} /\ ~InnerLocal(r, x, m)
    <2>1. x \in Nat \ {0} /\ x > 0 /\ x # Self(r)
      BY <1>1
    <2> QED BY <2>1 DEF InnerReach, InnerLocal
  <1>4. m.call_local \in BOOLEAN
    BY DEF Methods
  <1> QED BY <1>1, <1>2, <1>3, <1>4 DEF InnerLocal

\* What RoutesAsInner says of one call.
Routed(out, r, t, m, split) ==
    LET ways(p) == {x \in out.rpcs : p \in InnerReach(r, x)}
    IN  /\ \A p \in Others(r) :
             (IF p \in out.net THEN 1 ELSE 0) + Cardinality(ways(p))
               = IF p \in InnerReach(r, t) THEN 1 ELSE 0
        /\ r = "host" => out.charged = {p \in Others(r) : ways(p) # {}}
        /\ Cardinality({x \in out.rpcs : InnerLocal(r, x, m)})
             = IF InnerLocal(r, t, m) /\ ~split THEN 1 ELSE 0

\* A call handed to the inner for each peer of a set, and maybe for this
\* process, the rest of its peers reached otherwise.
LEMMA ByPeers ==
    ASSUME NEW r \in Roles, NEW t \in Int, NEW m \in Methods, NEW split \in BOOLEAN,
           NEW net, NEW left, NEW local \in BOOLEAN, NEW charged,
           net \cup left = InnerReach(r, t), net \cap left = {},
           r = "host" => charged = left,
           local => InnerLocal(r, Self(r), m) /\ r = "host",
           local = (InnerLocal(r, t, m) /\ ~split)
    PROVE  Routed(Outcome(net, left \cup (IF local THEN {Self(r)} ELSE {}), charged), r, t, m, split)
PROOF
  <1> DEFINE rpcs == left \cup (IF local THEN {Self(r)} ELSE {})
             ways(p) == {x \in rpcs : p \in InnerReach(r, x)}
             here == {x \in rpcs : InnerLocal(r, x, m)}
  <1>1. /\ Others(r) \subseteq Nat \ {0} /\ Self(r) \notin Others(r)
        /\ InnerReach(r, t) \subseteq Others(r)
        /\ \A x \in Others(r) : InnerReach(r, x) = {x} /\ ~InnerLocal(r, x, m)
    BY InnerFacts
  <1>2. InnerReach(r, Self(r)) = {}
    BY <1>1, InnerFacts DEF InnerReach
  <1>3. left \subseteq Others(r)
    BY <1>1
  <1>4. ASSUME NEW p \in Others(r) PROVE ways(p) = IF p \in left THEN {p} ELSE {}
    BY <1>1, <1>2, <1>3
  <1>5. ASSUME NEW p \in Others(r)
        PROVE  (IF p \in net THEN 1 ELSE 0) + Cardinality(ways(p))
                 = IF p \in InnerReach(r, t) THEN 1 ELSE 0
    <2>1. Cardinality(ways(p)) = IF p \in left THEN 1 ELSE 0
      <3> HIDE DEF ways
      <3> QED BY <1>4, FS_EmptySet, FS_Singleton
    <2> HIDE DEF ways
    <2> QED BY <2>1
  <1>6. {p \in Others(r) : ways(p) # {}} = left
    <2>1. \A p \in Others(r) : ways(p) # {} <=> p \in left
      BY <1>4
    <2> HIDE DEF ways
    <2> QED BY <1>3, <2>1
  <1>7. here = IF local THEN {Self(r)} ELSE {}
    BY <1>1, <1>3
  <1>8. Cardinality(here) = IF local THEN 1 ELSE 0
    <2> HIDE DEF here
    <2> QED BY <1>7, FS_EmptySet, FS_Singleton
  <1> QED BY <1>5, <1>6, <1>8 DEF Routed, Outcome

\* A call handed to the inner as it is.
LEMMA ByInner ==
    ASSUME NEW r \in Roles, NEW t \in Int, NEW m \in Methods, NEW charged,
           r = "host" => charged = InnerReach(r, t)
    PROVE  Routed(Outcome({}, {t}, charged), r, t, m, FALSE)
PROOF
  <1> DEFINE ways(p) == {x \in {t} : p \in InnerReach(r, x)}
             here == {x \in {t} : InnerLocal(r, x, m)}
  <1>1. InnerReach(r, t) \subseteq Others(r)
    BY InnerFacts
  <1>2. ASSUME NEW p \in Others(r)
        PROVE  ways(p) = IF p \in InnerReach(r, t) THEN {t} ELSE {}
    OBVIOUS
  <1>3. ASSUME NEW p \in Others(r)
        PROVE  Cardinality(ways(p)) = IF p \in InnerReach(r, t) THEN 1 ELSE 0
    <2> HIDE DEF ways
    <2> QED BY <1>2, FS_EmptySet, FS_Singleton
  <1>4. {p \in Others(r) : ways(p) # {}} = InnerReach(r, t)
    <2>1. \A p \in Others(r) : ways(p) # {} <=> p \in InnerReach(r, t)
      BY <1>2
    <2> HIDE DEF ways
    <2> QED BY <1>1, <2>1
  <1>5. here = IF InnerLocal(r, t, m) THEN {t} ELSE {}
    OBVIOUS
  <1>6. Cardinality(here) = IF InnerLocal(r, t, m) THEN 1 ELSE 0
    <2> HIDE DEF here
    <2> QED BY <1>5, FS_EmptySet, FS_Singleton
  <1>7. ASSUME NEW p \in Others(r)
        PROVE  (IF p \in {} THEN 1 ELSE 0) + Cardinality(ways(p))
                 = IF p \in InnerReach(r, t) THEN 1 ELSE 0
    <2> HIDE DEF ways
    <2> QED BY <1>3
  <1> QED BY <1>4, <1>6, <1>7 DEF Routed, Outcome

\* Every call is one of these: taken by the netchan or the uplink, split, or
\* the inner's.
LEMMA EveryCallRouted ==
    ASSUME NEW r \in Roles, NEW t \in Int, NEW m \in Methods,
           NEW fits \in BOOLEAN, NEW capped \in BOOLEAN
    PROVE  Routed(RpcRoute(r, t, m, fits, capped), r, t, m,
                  capped /\ t <= 0 /\ ~NetchanTakes(r, t, m, fits))
PROOF
  <1> DEFINE takes == NetchanTakes(r, t, m, fits)
             split == capped /\ t <= 0 /\ ~takes
             out == RpcRoute(r, t, m, fits, capped)
             uplink == r = "client" /\ t = 1 /\ m.command
  <1>1. /\ Others(r) \subseteq Nat \ {0} /\ Self(r) \notin Others(r) /\ Self(r) \in Nat \ {0}
        /\ InnerReach(r, t) \subseteq Others(r)
        /\ InnerLocal(r, t, m) \in BOOLEAN
    BY InnerFacts
  <1>2. m.call_local \in BOOLEAN /\ m.command \in BOOLEAN /\ takes \in BOOLEAN
    BY DEF Methods, NetchanTakes
  <1>3. CASE r = "client" /\ t = 1 /\ (m.command \/ takes)
    <2>1. InnerReach(r, t) = {1} /\ ~InnerLocal(r, t, m)
      BY <1>3, IdsAssumption DEF InnerReach, InnerLocal, Others, Self
    <2>2. out = Outcome({1}, {}, {})
      BY <1>3 DEF RpcRoute, NetchanTakes, NetchanRpc, Outcome
    <2>3. Routed(Outcome({1}, {} \cup (IF FALSE THEN {Self(r)} ELSE {}), {}), r, t, m, split)
      BY <1>2, <1>3, <2>1, ByPeers
    <2> QED BY <2>2, <2>3
  <1>4. CASE r = "host" /\ takes
    <2> DEFINE targets == NetchanTargets(t)
               left == IF fits THEN {} ELSE targets
               local == NetchanLocal(t, m)
    <2>1. t # 1 /\ (t > 0 => t \in Others(r)) /\ Self(r) = 1 /\ r # "client"
      BY <1>4 DEF NetchanTakes, Self
    <2>2. targets = InnerReach(r, t)
      BY <1>1, <1>4, <2>1 DEF NetchanTargets, InnerReach
    <2>3. local = (InnerLocal(r, t, m) /\ ~split) /\ local \in BOOLEAN
      BY <1>2, <1>4, <2>1 DEF NetchanLocal, InnerLocal
    <2>4. local => InnerLocal(r, Self(r), m)
      BY <2>1 DEF NetchanLocal, InnerLocal
    <2>5. out = Outcome(targets \ left, left \cup (IF local THEN {Self(r)} ELSE {}), left)
      BY <1>4, <2>1 DEF RpcRoute, NetchanRpc
    <2>6. (targets \ left) \cup left = InnerReach(r, t) /\ (targets \ left) \cap left = {}
      BY <2>2
    <2>7. split \in BOOLEAN
      BY <1>2
    <2>8. Routed(out, r, t, m, split)
      <3> HIDE DEF targets, left, local, split, out
      <3>1. Routed(Outcome(targets \ left, left \cup (IF local THEN {Self(r)} ELSE {}), left),
                   r, t, m, split)
        <4>1. r \in Roles /\ t \in Int /\ m \in Methods /\ split \in BOOLEAN /\ local \in BOOLEAN
          BY <2>3, <2>7
        <4>2. (r = "host" => left = left) /\ (local => InnerLocal(r, Self(r), m) /\ r = "host")
          BY <1>4, <2>4
        <4>3. local = (InnerLocal(r, t, m) /\ ~split)
          BY <2>3
        <4> QED BY ONLY <2>6, <4>1, <4>2, <4>3, ByPeers, ZenonT(40)
      <3> QED BY <2>5, <3>1
    <2> QED BY <2>8
  <1>5. CASE ~uplink /\ ~takes
    <2>1. out = Outcome({}, SimSend(r, t, capped), Charged(r, t))
      BY <1>5 DEF RpcRoute
    <2>2. r = "host" => Charged(r, t) = InnerReach(r, t)
      BY DEF Charged
    <2>3. CASE capped /\ t <= 0
      <3>1. SimSend(r, t, capped) = InnerReach(r, t) \cup (IF FALSE THEN {Self(r)} ELSE {})
        BY <2>3 DEF SimSend
      <3>2. split
        BY <1>5, <2>3
      <3>3. FALSE = (InnerLocal(r, t, m) /\ ~TRUE)
        OBVIOUS
      <3>4. Routed(Outcome({}, InnerReach(r, t) \cup (IF FALSE THEN {Self(r)} ELSE {}), Charged(r, t)),
                   r, t, m, TRUE)
        <4>1. {} \cup InnerReach(r, t) = InnerReach(r, t) /\ {} \cap InnerReach(r, t) = {}
          OBVIOUS
        <4> QED BY <2>2, <3>3, <4>1, ByPeers
      <3>5. split = TRUE
        BY <3>2
      <3> QED BY <2>1, <3>1, <3>4, <3>5
    <2>4. CASE ~(capped /\ t <= 0)
      <3>1. SimSend(r, t, capped) = {t}
        BY <2>4 DEF SimSend
      <3>2. split = FALSE
        BY <2>4
      <3> QED BY <2>1, <2>2, <3>1, <3>2, ByInner
    <2> QED BY <2>3, <2>4
  <1>6. takes /\ r # "host" => r = "client" /\ t = 1
    BY DEF NetchanTakes, Roles
  <1> QED BY <1>2, <1>3, <1>4, <1>5, <1>6

(***************************************************************************)
(* RouteAsInner, of any peers: _rpc and _netchan_rpc reach whom the inner  *)
(* would have, once, whomever the call is addressed to, and the host       *)
(* charges those the inner is left to reach.                               *)
(***************************************************************************)
THEOREM CallsRouteAsInner == Spec => []RouteAsInner
PROOF
  <1>1. ASSUME NEW r \in Roles PROVE RoutesAsInner(r)
    <2> SUFFICES ASSUME NEW t \in {0, 1, Me, -1, -Me} \cup Peers \cup {-p : p \in Peers},
                        NEW m \in Methods, NEW fits \in BOOLEAN, NEW capped \in BOOLEAN
                 PROVE  Routed(RpcRoute(r, t, m, fits, capped), r, t, m,
                               capped /\ t <= 0 /\ ~NetchanTakes(r, t, m, fits))
      BY DEF RoutesAsInner, Routed
    <2>1. t \in Int
      BY IdsAssumption
    <2> QED BY <2>1, EveryCallRouted
  <1>2. role \in Roles => RouteAsInner
    BY <1>1 DEF RouteAsInner, RouteChecked
  <1>3. CallInv => role \in Roles
    BY DEF CallInv, CallTypes
  <1> QED BY <1>2, <1>3, CallInvAlways, PTL

-----------------------------------------------------------------------------
(***************************************************************************)
(* put_arg and get_arg: what a message makes of any Variant is that        *)
(* Variant.                                                                *)
(***************************************************************************)
LEMMA ArgumentKept == ASSUME NEW v, WellFormed(v) PROVE GetArg(PutArg(v)) = v
PROOF
  <1>1. CASE v.type = "nil"
    BY <1>1, Zenon DEF PutArg, GetArg, WellFormed
  <1>2. CASE v.type \in {"string", "string_name", "bytes"}
    <2>1. v = [type |-> v.type, what |-> v.what]
      BY <1>2 DEF WellFormed, Text, Name, Bytes
    <2>2. PutArg(v) = [tag |-> v.type, payload |-> v.what]
      BY <1>2 DEF PutArg
    <2> QED BY <1>2, <2>1, <2>2 DEF GetArg
  <1>3. CASE v.type = "float" /\ F32(AsFloat(v)) # AsFloat(v)
    <2>1. v = Float(v.is)
      BY <1>3 DEF WellFormed
    <2>2. PutArg(v) = [tag |-> "double", payload |-> v.is]
      BY <1>3 DEF PutArg
    <2> QED BY <2>1, <2>2 DEF GetArg
  <1>4. CASE /\ v.type \notin {"nil", "string", "string_name", "bytes"}
             /\ ~(v.type = "float" /\ F32(AsFloat(v)) # AsFloat(v))
    <2> DEFINE t == IF v.type \in {"float", "int", "vec3", "bool"} THEN v.type ELSE "opaque"
               p == PutPayload(t, v, 0)
    <2>1. PutArg(v) = [tag |-> t, payload |-> p]
      <3>1. TagFor(v, "auto") = t
        BY DEF TagFor, Hints
      <3>2. PutArg(v) = PutValue(v, "auto", 0)
        BY <1>4 DEF PutArg
      <3> QED BY <3>1, <3>2 DEF PutValue
    <2>2. GetArg(PutArg(v)) = GetTagged(t, p, 0)
      BY <2>1 DEF GetArg
    <2>3. CASE v.type = "int"
      <3>1. v = Integer(v.is) /\ t = "int"
        BY <2>3 DEF WellFormed
      <3>2. p = v.is
        BY <2>3, <3>1 DEF PutPayload, AsInt
      <3> QED BY <2>2, <3>1, <3>2 DEF GetTagged
    <2>4. CASE v.type = "float"
      <3>1. v = Float(v.is) /\ t = "float"
        BY <2>4 DEF WellFormed
      <3>2. p = F32(AsFloat(v)) /\ AsFloat(v) = v.is
        BY <2>4, <3>1 DEF PutPayload, AsFloat
      <3>3. p = v.is
        BY <1>4, <2>4, <3>2
      <3> QED BY <2>2, <3>1, <3>3 DEF GetTagged
    <2>5. CASE v.type = "bool"
      <3>1. v = Bool(v.is) /\ v.is \in {0, 1} /\ t = "bool"
        BY <2>5 DEF WellFormed
      <3>2. p = AsBool(v)
        BY <3>1 DEF PutPayload
      <3>3. AsBool(v) = v.is
        BY <2>5, <3>1 DEF AsBool
      <3> QED BY <2>2, <3>1, <3>2, <3>3 DEF GetTagged
    <2>6. CASE v.type = "vec3"
      <3>1. v = Vec3(v.axes) /\ v.axes \in [Axes -> Int] /\ t = "vec3"
        BY <2>6 DEF WellFormed
      <3>2. \A a \in Axes : F32(v.axes[a]) = v.axes[a]
        BY <2>6 DEF WellFormed
      <3>3. p = [a \in Axes |-> F32(v.axes[a])]
        BY <2>6, <3>1 DEF PutPayload, AsVec3
      <3>4. p = v.axes
        BY <3>1, <3>2, <3>3
      <3> QED BY <2>2, <3>1, <3>4 DEF GetTagged
    <2>7. CASE v.type \notin {"int", "float", "bool", "vec3"}
      <3>1. t = "opaque"
        BY <2>7
      <3>2. p = v
        BY <3>1 DEF PutPayload
      <3> QED BY <2>2, <3>1, <3>2 DEF GetTagged
    <2> QED BY <2>3, <2>4, <2>5, <2>6, <2>7
  <1> QED BY <1>1, <1>2, <1>3, <1>4

\* A field of a command carries what it was given, as its declaration has it.
LEMMA FieldKept ==
    ASSUME NEW type, NEW v, WellFormed(v), FieldTakes(Form(type), v)
    PROVE  Argument(Form(type), FieldOf(Form(type), v)) = AsDeclared(type, v)
PROOF
  <1>1. CASE type \in {"int", "float", "bool"}
    BY <1>1 DEF Form, FieldOf, Argument, AsDeclared
  <1>2. CASE type = "bytes"
    <2>1. Form(type) = "bytes" /\ AsDeclared(type, v) = v
      BY <1>2 DEF Form, AsDeclared
    <2>2. v.type = "bytes"
      BY <2>1 DEF FieldTakes, Number
    <2>3. v = Bytes(v.what)
      BY <2>2 DEF WellFormed
    <2> QED BY <2>1, <2>3 DEF FieldOf, Argument
  <1>3. CASE type \notin {"int", "float", "bool", "bytes"}
    <2>1. Form(type) = "variant" /\ AsDeclared(type, v) = v
      BY <1>3 DEF Form, AsDeclared
    <2>2. Argument("variant", FieldOf("variant", v)) = GetArg(PutArg(v))
      BY DEF FieldOf, Argument
    <2> QED BY <2>1, <2>2, ArgumentKept
  <1> QED BY <1>1, <1>2, <1>3

\* command_signature keeps a declaration's fields, one by one.
LEMMA SignatureFacts ==
    \A d \in Declarations : \A sig \in Signature(d) :
        /\ sig.table = d.table
        /\ Len(d.fields) \in Nat /\ DOMAIN d.fields = 1 .. Len(d.fields)
        /\ DOMAIN sig.fields = 1 .. Len(d.fields) /\ Len(sig.fields) = Len(d.fields)
        /\ \A k \in 1 .. Len(d.fields) :
              sig.fields[k].name = d.fields[k].name /\ sig.fields[k].form = Form(d.fields[k].type)
PROOF
  <1> SUFFICES ASSUME NEW d \in Declarations, NEW sig \in Signature(d)
               PROVE  /\ sig.table = d.table
                      /\ Len(d.fields) \in Nat /\ DOMAIN d.fields = 1 .. Len(d.fields)
                      /\ DOMAIN sig.fields = 1 .. Len(d.fields) /\ Len(sig.fields) = Len(d.fields)
                      /\ \A k \in 1 .. Len(d.fields) : /\ sig.fields[k].name = d.fields[k].name
                                                       /\ sig.fields[k].form = Form(d.fields[k].type)
    OBVIOUS
  <1>1. /\ sig.table = d.table
        /\ sig.fields = [k \in DOMAIN d.fields |->
                           [name |-> d.fields[k].name, form |-> Form(d.fields[k].type)]]
    BY DEF Signature
  <1>2. DOMAIN d.fields = 1 .. Len(d.fields) /\ Len(d.fields) \in Nat
    BY DeclarationsAssumption
  <1>3. sig.fields = [k \in 1 .. Len(d.fields) |->
                        [name |-> d.fields[k].name, form |-> Form(d.fields[k].type)]]
    BY <1>1, <1>2
  <1> QED BY <1>1, <1>2, <1>3

\* A table's method that takes a call was called with a Dictionary of arguments.
LEMMA TableCalls ==
    ASSUME NEW d \in Declarations, d.table, NEW args \in Calls(d),
           Len(args) = 1, args[1].type = "dict"
    PROVE  /\ args = <<Dict(args[1].of)>>
           /\ \A n \in {d.fields[k].name : k \in DOMAIN d.fields} : args[1].of[n] \in Arguments
PROOF
  <1> DEFINE names == {d.fields[k].name : k \in DOMAIN d.fields}
             given == UNION {[ns -> Arguments] : ns \in {names, names \cup {"extra"}}}
  <1>1. args \in {<<Dict(f)>> : f \in given} \cup {<<Nil>>, <<>>}
    BY DEF Calls
  <1>2. args # <<>>
    OBVIOUS
  <1>3. args # <<Nil>>
    BY DEF Nil
  <1>4. PICK f \in given : args = <<Dict(f)>>
    BY <1>1, <1>2, <1>3
  <1>5. args[1].of = f
    BY <1>4 DEF Dict
  <1>6. \A n \in names : f[n] \in Arguments
    BY <1>4
  <1> QED BY <1>4, <1>5, <1>6

\* What a call that is not dropped gives each field.
LEMMA GivenFits ==
    ASSUME NEW d \in Declarations, NEW sig \in Signature(d), NEW args \in Calls(d), Fits(sig, args)
    PROVE  \A k \in DOMAIN d.fields :
              /\ WellFormed(Given(sig, args)[k])
              /\ FieldTakes(Form(d.fields[k].type), Given(sig, args)[k])
PROOF
  <1>1. ShapeFits(sig, args)
    BY DEF Fits
  <1> SUFFICES ASSUME NEW k \in DOMAIN d.fields
               PROVE  /\ WellFormed(Given(sig, args)[k])
                      /\ FieldTakes(Form(d.fields[k].type), Given(sig, args)[k])
    OBVIOUS
  <1>2. k \in DOMAIN sig.fields /\ sig.fields[k].form = Form(d.fields[k].type)
        /\ sig.fields[k].name = d.fields[k].name
    BY SignatureFacts
  <1>3. FieldTakes(Form(d.fields[k].type), Given(sig, args)[k])
    BY <1>2 DEF Fits
  <1>4. CASE d.table
    <2>1. args[1].of[d.fields[k].name] \in Arguments
      BY <1>1, <1>4, SignatureFacts, TableCalls DEF ShapeFits
    <2>2. Given(sig, args)[k] = args[1].of[d.fields[k].name]
      BY <1>2, <1>4, SignatureFacts DEF Given
    <2> QED BY <1>3, <2>1, <2>2, ArgumentsAssumption
  <1>5. CASE ~d.table
    <2>1. Len(args) = Len(d.fields) /\ k \in 1 .. Len(d.fields)
      BY <1>1, <1>5, SignatureFacts DEF ShapeFits
    <2>2. \E n \in {0, Len(d.fields)} : args \in [1 .. n -> Arguments]
      BY <1>5 DEF Calls
    <2>3. args[k] \in Arguments
      BY <2>1, <2>2, DeclarationsAssumption
    <2>4. Given(sig, args)[k] = args[k]
      BY <1>2, <1>5, SignatureFacts DEF Given
    <2> QED BY <1>3, <2>3, <2>4, ArgumentsAssumption
  <1> QED BY <1>4, <1>5

(***************************************************************************)
(* command_from_args and _deliver_command: a command of any declaration of *)
(* the client's, on any of the host's with the same stream, in the order   *)
(* and under the names of the host's.                                      *)
(***************************************************************************)
LEMMA CommandComes ==
    ASSUME NEW d \in Declarations, NEW e \in Declarations, NEW args \in Calls(d)
    PROVE  Comes(d, e, args)
PROOF
  <1> SUFFICES ASSUME NEW sig \in Signature(d), sig \in Signature(e), Fits(sig, args)
               PROVE  LET called == CalledWith(sig, CommandFromArgs(sig, args))
                      IN  /\ d.table = e.table
                          /\ IF e.table
                             THEN /\ DOMAIN called[1].of = DOMAIN args[1].of
                                  /\ \A k \in DOMAIN e.fields :
                                       called[1].of[e.fields[k].name] =
                                         AsDeclared(e.fields[k].type, args[1].of[e.fields[k].name])
                             ELSE called = [k \in DOMAIN args |-> AsDeclared(e.fields[k].type, args[k])]
    BY DEF Comes, Stream
  <1> DEFINE cmd == CommandFromArgs(sig, args)
             ks == 1 .. Len(e.fields)
             arg == [k \in DOMAIN cmd |-> Argument(sig.fields[k].form, cmd[k])]
  <1>1. /\ d.table = e.table /\ sig.table = e.table
        /\ DOMAIN sig.fields = ks /\ DOMAIN e.fields = ks /\ DOMAIN d.fields = ks
        /\ Len(sig.fields) = Len(e.fields)
    BY SignatureFacts, DeclarationsAssumption
  <1>2. \A k \in ks : /\ sig.fields[k].name = d.fields[k].name
                      /\ sig.fields[k].name = e.fields[k].name
                      /\ sig.fields[k].form = Form(d.fields[k].type)
                      /\ sig.fields[k].form = Form(e.fields[k].type)
    BY <1>1, SignatureFacts
  <1>3. arg = [k \in ks |-> AsDeclared(e.fields[k].type, Given(sig, args)[k])]
    <2>1. cmd = [k \in ks |-> FieldOf(sig.fields[k].form, Given(sig, args)[k])]
      BY <1>1 DEF CommandFromArgs
    <2>2. \A k \in ks : Argument(sig.fields[k].form, cmd[k])
                          = AsDeclared(e.fields[k].type, Given(sig, args)[k])
      <3> SUFFICES ASSUME NEW k \in ks
                   PROVE  Argument(sig.fields[k].form, cmd[k])
                            = AsDeclared(e.fields[k].type, Given(sig, args)[k])
        OBVIOUS
      <3>1. WellFormed(Given(sig, args)[k]) /\ FieldTakes(Form(e.fields[k].type), Given(sig, args)[k])
        BY <1>1, <1>2, GivenFits
      <3> QED BY <1>2, <2>1, <3>1, FieldKept
    <2> QED BY <2>1, <2>2
  <1>4. ShapeFits(sig, args)
    BY DEF Fits
  <1>5. CASE e.table
    <2> DEFINE at(n) == CHOOSE k \in DOMAIN cmd : sig.fields[k].name = n
               names == {sig.fields[k].name : k \in DOMAIN cmd}
    <2>1. DOMAIN cmd = ks
      BY <1>1 DEF CommandFromArgs
    <2>2. CalledWith(sig, cmd) = <<Dict([n \in names |-> arg[at(n)]])>>
      BY <1>1, <1>5 DEF CalledWith
    <2>3. CalledWith(sig, cmd)[1].of = [n \in names |-> arg[at(n)]]
      <3>1. \A f : <<Dict(f)>>[1].of = f
        BY DEF Dict
      <3> HIDE DEF arg, cmd, at, names
      <3> QED BY <2>2, <3>1
    <2>4. DOMAIN args[1].of = names
      BY <1>1, <1>4, <1>5, <2>1 DEF ShapeFits
    <2>5. ASSUME NEW k \in ks
          PROVE  /\ e.fields[k].name \in names
                 /\ arg[at(e.fields[k].name)] = AsDeclared(e.fields[k].type, args[1].of[e.fields[k].name])
      <3>1. sig.fields[k].name = e.fields[k].name
        BY <1>2
      <3>2. at(e.fields[k].name) \in ks /\ sig.fields[at(e.fields[k].name)].name = e.fields[k].name
        BY <2>1, <3>1
      <3>3. at(e.fields[k].name) = k
        <4>1. \A j \in DOMAIN e.fields : e.fields[j].name = e.fields[k].name => j = k
          BY <1>1, DeclarationsAssumption
        <4> HIDE DEF at
        <4> QED BY <1>1, <1>2, <3>2, <4>1
      <3>4. Given(sig, args)[k] = args[1].of[e.fields[k].name]
        BY <1>1, <1>5, <3>1 DEF Given
      <3> QED BY <1>3, <2>1, <3>1, <3>3, <3>4
    <2> QED BY <1>1, <1>5, <2>3, <2>4, <2>5
  <1>6. CASE ~e.table
    <2>1. CalledWith(sig, cmd) = arg
      BY <1>1, <1>6 DEF CalledWith
    <2>2. Len(args) = Len(e.fields) /\ \E n \in {0, Len(d.fields)} : args \in [1 .. n -> Arguments]
      BY <1>1, <1>4, <1>6 DEF ShapeFits, Calls
    <2>3. DOMAIN args = ks
      BY <2>2, DeclarationsAssumption
    <2>4. \A k \in ks : Given(sig, args)[k] = args[k]
      BY <1>1, <1>6 DEF Given
    <2> QED BY <1>1, <1>3, <1>6, <2>1, <2>3, <2>4
  <1> QED BY <1>1, <1>5, <1>6

(***************************************************************************)
(* ArgumentsExact, of any arguments: the method a message calls has them   *)
(* as the caller gave them.                                                *)
(***************************************************************************)
THEOREM ArgumentsAlwaysExact == Spec => []ArgumentsExact
PROOF
  <1>1. ArgumentsKept
    BY ArgumentKept, ArgumentsAssumption DEF ArgumentsKept
  <1>2. ArgumentsExact
    BY <1>1 DEF ArgumentsExact
  <1> QED BY <1>2, PTL

(***************************************************************************)
(* CommandsCarry, of any declarations with any number of fields: a command *)
(* that has a stream on the host calls the host's method with what the     *)
(* client's call gave each of its fields, as the host declares it; types   *)
(* that differ within one form have one stream.                            *)
(***************************************************************************)
THEOREM CommandsAlwaysCarry == Spec => []CommandsCarry
PROOF
  <1>1. CommandsKept
    BY CommandComes DEF CommandsKept
  <1>2. CommandsCarry
    BY <1>1 DEF CommandsCarry
  <1> QED BY <1>2, PTL
=============================================================================
