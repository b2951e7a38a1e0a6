------------------------ MODULE NetchanMessagesProofs ------------------------
(***************************************************************************)
(* Proofs about NetchanMessages, for every set of keys, every choice of    *)
(* calling ends and every bound: the type invariant, the inductive         *)
(* RegistrationInv, and from it that every call resolves and that every    *)
(* target is registered once.                                              *)
(***************************************************************************)
EXTENDS NetchanMessages, TLAPS

(***************************************************************************)
(* The inductive invariant behind CallsResolve and RegisteredOnce.         *)
(***************************************************************************)
Running(e) == wire /\ link[e] = "up"   \* e is in the session the wire carries

\* An id names one key, and no id handed out is handed out again.
IdsInv == \A e \in End, k, l \in Keys :
    /\ msg_ids[e][k] < msg_next_id[e]
    /\ msg_ids[e][k] = msg_ids[e][l] /\ msg_ids[e][k] # 0 => k = l

\* What the connection's state says of the core and of what is in flight.
LinkInv == \A e \in End :
    /\ core["client"]
    /\ Running(e) => core[e]
    /\ wire => link[e] # "closing"
    /\ ~Running(e) => air[e] = {}
    /\ wire /\ link[e] = "down" /\ Running(Other(e)) =>
           delivered[Other(e)] = 0 /\ msg_targets[Other(e)] = Empty

\* Every message names its key's id.
NamesInv == \A e \in End : Running(e) =>
    /\ \A i \in DOMAIN stream[e] : /\ stream[e][i].id = msg_ids[e][stream[e][i].key]
                                  /\ stream[e][i].id # 0
    /\ \A m \in air[e] : m.id = msg_ids[e][m.key] /\ m.id # 0

\* r maps each id to the index (from 0) of its one registration in the stream
\* s, and a bare call comes after the registration it relies on.
StreamOK(s, r) ==
    /\ \A id \in DOMAIN r : /\ r[id] < Len(s)
                            /\ s[r[id] + 1].reg /\ s[r[id] + 1].id = id
    /\ \A i \in DOMAIN s : /\ s[i].id \in DOMAIN r
                           /\ s[i].reg => r[s[i].id] + 1 = i
                           /\ ~s[i].reg => r[s[i].id] + 1 < i

StreamInv == \A e \in End : Running(e) =>
    /\ acked[e] <= delivered[e] /\ delivered[e] <= Len(stream[e])
    /\ StreamOK(stream[e], msg_registered[e])
    /\ \A m \in air[e] : ~m.reg => /\ m.id \in DOMAIN msg_registered[e]
                                   /\ msg_registered[e][m.id] < acked[e]

\* The receiver knows what was delivered to it, and by the sender's names.
TargetsInv == \A e \in End : Joined(e) =>
    /\ \A id \in DOMAIN msg_registered[e] :
          msg_registered[e][id] < delivered[e] => id \in DOMAIN msg_targets[Other(e)]
    /\ \A id \in DOMAIN msg_targets[Other(e)] :
          id # 0 /\ msg_ids[e][msg_targets[Other(e)][id]] = id

RegistrationInv == IdsInv /\ LinkInv /\ NamesInv /\ StreamInv /\ TargetsInv

-----------------------------------------------------------------------------
(* Helpers *)

LEMMA OtherEnd == \A e \in End : Other(e) \in End /\ Other(e) # e /\ Other(Other(e)) = e
  BY DEF End, Other

(***************************************************************************)
(* Put(f, x, y) is f with y at x, and still a map.                         *)
(***************************************************************************)
LEMMA PutMap ==
  ASSUME NEW D, NEW R, NEW f, IsMap(f, D, R), NEW x \in D, NEW y \in R
  PROVE  IsMap(Put(f, x, y), D, R)
  BY DEF IsMap, Put

\* What a map has after it.
LEMMA PutValue ==
  ASSUME NEW f, NEW x, NEW y
  PROVE  /\ DOMAIN Put(f, x, y) = DOMAIN f \cup {x}
         /\ Put(f, x, y)[x] = y
         /\ \A z \in DOMAIN f : z # x => Put(f, x, y)[z] = f[z]
  BY DEF Put

LEMMA EmptyMap == ASSUME NEW D, NEW R PROVE IsMap(Empty, D, R)
  BY DEF IsMap, Empty

LEMMA IdOfType == ASSUME TypeOK, NEW e \in End, NEW k \in Keys
                  PROVE  IdOf(e, k) \in Nat
  BY DEF TypeOK, IdOf

LEMMA QueuedType == ASSUME TypeOK, NEW e \in End
                    PROVE  Queued(e) \in Nat /\ DeliveredAck(e) \in Nat
  BY DEF TypeOK, Queued, DeliveredAck

-----------------------------------------------------------------------------
(* The type invariant *)

LEMMA TypeInit == Init => TypeOK
<1> SUFFICES ASSUME Init PROVE TypeOK
  OBVIOUS
<1>1. /\ IsMap(Empty, Nat, Nat)
      /\ IsMap(Empty, Nat, Keys)
  BY EmptyMap
<1>2. << >> \in Seq(Message)
  OBVIOUS
<1>3. core \in [End -> BOOLEAN]
  BY DEF Init
<1>4. /\ msg_registered = [e \in End |-> msg_registered[e]]
      /\ \A e \in End : IsMap(msg_registered[e], Nat, Nat)
  BY <1>1 DEF Init
<1>5. /\ msg_targets = [e \in End |-> msg_targets[e]]
      /\ \A e \in End : IsMap(msg_targets[e], Nat, Keys)
  BY <1>1 DEF Init
<1>8. msg_ids \in [End -> [Keys -> Nat]]
  BY DEF Init
<1>9. msg_next_id \in [End -> Nat \ {0}]
  BY DEF Init
<1>6. /\ delivered \in [End -> Nat] /\ acked \in [End -> Nat]
      /\ link \in [End -> {"down", "up", "closing"}]
      /\ wire \in BOOLEAN
  BY DEF Init
<1>7. stream \in [End -> Seq(Message)] /\ air \in [End -> SUBSET Message]
  BY <1>2 DEF Init
<1> QED BY <1>3, <1>4, <1>5, <1>6, <1>7, <1>8, <1>9 DEF TypeOK

\* What is sent of a call are messages.
LEMMA MessageTypes ==
  ASSUME TypeOK, NEW e \in End, NEW k \in Keys
  PROVE  /\ BareCall(k, IdOf(e, k)) \in Message
         /\ NamedCall(k, IdOf(e, k)) \in Message
         /\ NewRegistrations(e, k, IdOf(e, k)) \in Seq(Message)
         /\ NewRegistrations(e, k, IdOf(e, k)) \o <<BareCall(k, IdOf(e, k))>> \in Seq(Message)
<1>1. /\ BareCall(k, IdOf(e, k)) \in Message
      /\ NamedCall(k, IdOf(e, k)) \in Message
      /\ Registration(k, IdOf(e, k)) \in Message
  BY IdOfType DEF BareCall, NamedCall, Registration, Message
<1>2. NewRegistrations(e, k, IdOf(e, k)) \in Seq(Message)
  BY <1>1 DEF NewRegistrations
<1> QED BY <1>1, <1>2

\* Queued messages, and the session when they overflow.
LEMMA CheckOverflowType ==
  ASSUME TypeOK, NEW e \in End, NEW msgs \in Seq(Message), CheckOverflow(e, msgs)
  PROVE  /\ stream' \in [End -> Seq(Message)]
         /\ delivered' \in [End -> Nat]
         /\ acked' \in [End -> Nat]
         /\ core' \in [End -> BOOLEAN]
         /\ link' \in [End -> {"down", "up", "closing"}]
         /\ wire' \in BOOLEAN
<1>1. CASE ~Overflowed(e, msgs)
  <2>1. stream[e] \in Seq(Message) /\ stream[e] \o msgs \in Seq(Message)
    BY DEF TypeOK
  <2>2. stream' = [stream EXCEPT ![e] = IF core[e] THEN stream[e] \o msgs ELSE stream[e]]
    BY <1>1 DEF CheckOverflow, Enqueue
  <2>3. stream' \in [End -> Seq(Message)]
    BY <2>1, <2>2 DEF TypeOK
  <2> QED BY <1>1, <2>3 DEF CheckOverflow, TypeOK
<1>2. CASE Overflowed(e, msgs)
  <2>1. core' = [core EXCEPT ![e] = e = "client"]
    BY <1>2 DEF CheckOverflow
  <2>2. (e = "client") \in BOOLEAN
    OBVIOUS
  <2>3. core' \in [End -> BOOLEAN]
    BY <2>1, <2>2, Zenon DEF TypeOK
  <2>4. stream' = [stream EXCEPT ![e] = << >>] /\ << >> \in Seq(Message)
    BY <1>2 DEF CheckOverflow
  <2>5. stream' \in [End -> Seq(Message)]
    BY <2>4 DEF TypeOK
  <2>6. /\ delivered' = [delivered EXCEPT ![e] = 0]
        /\ acked' = [acked EXCEPT ![e] = 0]
        /\ link' = [link EXCEPT ![e] = IF e = "client" THEN "closing" ELSE link[e]]
        /\ wire' = FALSE
    BY <1>2 DEF CheckOverflow
  <2>7. /\ delivered' \in [End -> Nat] /\ acked' \in [End -> Nat]
        /\ link' \in [End -> {"down", "up", "closing"}] /\ wire' \in BOOLEAN
    BY <2>6 DEF TypeOK
  <2> QED BY <2>3, <2>5, <2>7
<1> QED BY <1>1, <1>2

\* Numbering a key.
LEMMA AssignIdType ==
  ASSUME TypeOK, NEW e \in End, NEW k \in Keys, AssignId(e, k)
  PROVE  /\ msg_ids' \in [End -> [Keys -> Nat]]
         /\ msg_next_id' \in [End -> Nat \ {0}]
  BY IdOfType DEF AssignId, TypeOK

\* Every step keeps the types.
LEMMA TypeStep == TypeOK /\ [Next]_vars => TypeOK'
<1> SUFFICES ASSUME TypeOK, [Next]_vars PROVE TypeOK'
  OBVIOUS
<1>1. ASSUME NEW e \in End, NEW k \in Keys, SendReliable(e, k) PROVE TypeOK'
  <2> DEFINE id == IdOf(e, k)
             msgs == NewRegistrations(e, k, id) \o <<BareCall(k, id)>>
  <2>1. msgs \in Seq(Message) /\ id \in Nat /\ Queued(e) \in Nat
    BY MessageTypes, IdOfType, QueuedType
  <2>2. CheckOverflow(e, msgs) /\ AssignId(e, k)
    BY <1>1 DEF SendReliable
  <2>3. /\ msg_registered' = [x \in End |-> msg_registered'[x]]
        /\ \A x \in End : IsMap(msg_registered'[x], Nat, Nat)
    BY <1>1, <2>1, PutMap DEF SendReliable, TypeOK
  <2>4. air' \in [End -> SUBSET Message] /\ msg_targets' = msg_targets
    BY <1>1 DEF SendReliable, TypeOK
  <2> QED BY <2>1, <2>2, <2>3, <2>4, CheckOverflowType, AssignIdType DEF TypeOK
<1>2. ASSUME NEW e \in End, NEW k \in Keys, NEW s \in Sizes, SendUnreliable(e, k, s)
      PROVE  TypeOK'
  <2> DEFINE id == IdOf(e, k)
             msgs == NewRegistrations(e, k, id)
  <2>1. /\ msgs \in Seq(Message) /\ id \in Nat /\ Queued(e) \in Nat
        /\ BareCall(k, id) \in Message /\ NamedCall(k, id) \in Message
    BY MessageTypes, IdOfType, QueuedType
  <2>2. CheckOverflow(e, msgs) /\ AssignId(e, k)
    BY <1>2 DEF SendUnreliable
  <2>3. /\ msg_registered' = [x \in End |-> msg_registered'[x]]
        /\ \A x \in End : IsMap(msg_registered'[x], Nat, Nat)
    BY <1>2, <2>1, PutMap DEF SendUnreliable, TypeOK
  <2>4. air' \in [End -> SUBSET Message] /\ msg_targets' = msg_targets
    BY <1>2, <2>1 DEF SendUnreliable, TypeOK
  <2> QED BY <2>1, <2>2, <2>3, <2>4, CheckOverflowType, AssignIdType DEF TypeOK
<1>3. ASSUME NEW e \in End, NEW k \in Keys, NEW s \in Sizes, SendOversized(e, k, s)
      PROVE  TypeOK'
  BY <1>3, AssignIdType DEF SendOversized, TypeOK, channel
<1>4. ASSUME NEW e \in End, NEW m \in Message, LearnTarget(e, m)
      PROVE  /\ msg_targets' = [x \in End |-> msg_targets'[x]]
             /\ \A x \in End : IsMap(msg_targets'[x], Nat, Keys)
  BY <1>4, PutMap, OtherEnd DEF LearnTarget, TypeOK, Message
<1>5. ASSUME NEW e \in End, DeliverReliable(e) PROVE TypeOK'
  <2>1. stream[e][delivered[e] + 1] \in Message
    BY <1>5 DEF DeliverReliable, TypeOK
  <2>2. delivered' \in [End -> Nat]
    BY <1>5 DEF DeliverReliable, TypeOK
  <2> QED BY <1>4, <1>5, <2>1, <2>2 DEF DeliverReliable, TypeOK
<1>6. ASSUME NEW e \in End, NEW m \in air[e], DeliverUnreliable(e, m) PROVE TypeOK'
  BY <1>4, <1>6 DEF DeliverUnreliable, TypeOK
<1>7. ASSUME NEW e \in End, NEW m \in air[e], LoseUnreliable(e, m) PROVE TypeOK'
  BY <1>7 DEF LoseUnreliable, TypeOK, adapter
<1>8. ASSUME NEW e \in End, Ack(e) PROVE TypeOK'
  BY <1>8 DEF Ack, TypeOK, adapter
<1>9. ASSUME Session PROVE TypeOK'
  <2>1. ASSUME NEW e \in End, ForgetMaps(e)
        PROVE  /\ msg_registered' = [x \in End |-> msg_registered'[x]]
               /\ \A x \in End : IsMap(msg_registered'[x], Nat, Nat)
               /\ msg_targets' = [x \in End |-> msg_targets'[x]]
               /\ \A x \in End : IsMap(msg_targets'[x], Nat, Keys)
    BY <2>1, EmptyMap DEF ForgetMaps, TypeOK
  <2>2. "server" \in End /\ "client" \in End
    BY DEF End
  <2>3. CASE Connect
    BY <2>3 DEF Connect, TypeOK, adapter, channel
  <2>4. CASE ServerConnected
    BY <2>1, <2>2, <2>4 DEF ServerConnected, FreshChannel, TypeOK
  <2>5. CASE ClientConnected
    BY <2>1, <2>2, <2>5 DEF ClientConnected, FreshChannel, TypeOK
  <2>6. CASE Break
    BY <2>6 DEF Break, TypeOK, adapter
  <2>7. CASE ServerHearsLoss
    BY <2>1, <2>2, <2>7 DEF ServerHearsLoss, TypeOK, channel
  <2>8. CASE ServerSwapsPeer
    BY <2>1, <2>2, <2>8 DEF ServerSwapsPeer, EndServerSession, KeepMaps, TypeOK
  <2>9. CASE ServerCloses
    BY <2>1, <2>2, <2>9 DEF ServerCloses, TypeOK
  <2>10. CASE ClientHearsLoss
    BY <2>1, <2>2, <2>10 DEF ClientHearsLoss, FreshChannel, TypeOK
  <2>11. CASE ClientSwapsPeer
    BY <2>11 DEF ClientSwapsPeer, TypeOK, adapter
  <2>12. ASSUME NEW e \in End, Restart(e) PROVE TypeOK'
    BY <2>1, <2>12 DEF Restart, TypeOK, channel
  <2> QED BY <1>9, <2>3, <2>4, <2>5, <2>6, <2>7, <2>8, <2>9, <2>10, <2>11, <2>12
          DEF Session
<1>10. CASE UNCHANGED vars
  BY <1>10 DEF vars, adapter, channel, TypeOK
<1> QED BY <1>1, <1>2, <1>3, <1>5, <1>6, <1>7, <1>8, <1>9, <1>10
        DEF Next, Transfer, Send

(***************************************************************************)
(* Every variable keeps its type, in particular the four maps of the       *)
(* adapter (msg_ids, msg_next_id, msg_registered, msg_targets).            *)
(***************************************************************************)
THEOREM TypeCorrect == Spec => []TypeOK
  BY TypeInit, TypeStep, PTL DEF Spec
-----------------------------------------------------------------------------
(* The reliable stream and the map of its registrations *)

\* A registration put on the stream at the index noted for it.
LEMMA AppendRegistration ==
  ASSUME NEW s \in Seq(Message), NEW r, IsMap(r, Nat, Nat), StreamOK(s, r),
         NEW m \in Message, m.reg, m.id \notin DOMAIN r
  PROVE  /\ IsMap(Put(r, m.id, Len(s)), Nat, Nat)
         /\ StreamOK(Append(s, m), Put(r, m.id, Len(s)))
<1> DEFINE t == Append(s, m)
           q == Put(r, m.id, Len(s))
<1>1. /\ Len(t) = Len(s) + 1 /\ DOMAIN t = 1 .. Len(s) + 1
      /\ DOMAIN s = 1 .. Len(s) /\ Len(s) \in Nat
      /\ \A i \in DOMAIN s : t[i] = s[i]
      /\ t[Len(s) + 1] = m
  OBVIOUS
<1>2. m.id \in Nat
  BY DEF Message
<1>3. /\ IsMap(q, Nat, Nat)
      /\ DOMAIN q = DOMAIN r \cup {m.id} /\ q[m.id] = Len(s)
      /\ \A z \in DOMAIN r : q[z] = r[z] /\ r[z] \in Nat
  <2>1. IsMap(q, Nat, Nat) /\ DOMAIN q = DOMAIN r \cup {m.id} /\ q[m.id] = Len(s)
    <3>1. Len(s) \in Nat
      OBVIOUS
    <3>2. DOMAIN q = DOMAIN r \cup {m.id} /\ q[m.id] = Len(s)
      BY DEF Put
    <3>3. IsMap(q, Nat, Nat)
      BY <1>2, <3>1 DEF Put, IsMap
    <3> QED BY <3>2, <3>3
  <2>2. \A z \in DOMAIN r : q[z] = r[z]
    BY DEF Put
  <2> QED BY <2>1, <2>2 DEF IsMap
<1> HIDE DEF t, q
<1>4. ASSUME NEW id \in DOMAIN q
      PROVE  q[id] < Len(t) /\ t[q[id] + 1].reg /\ t[q[id] + 1].id = id
  <2>1. CASE id = m.id
    BY <1>1, <1>3, <2>1
  <2>2. CASE id \in DOMAIN r
    <3>1. r[id] < Len(s) /\ s[r[id] + 1].reg /\ s[r[id] + 1].id = id
      BY <2>2 DEF StreamOK
    <3>2. r[id] + 1 \in DOMAIN s
      BY <1>1, <1>3, <2>2, <3>1
    <3> QED BY <1>1, <1>3, <2>2, <3>1, <3>2
  <2> QED BY <1>3, <2>1, <2>2
<1>5. ASSUME NEW i \in DOMAIN t
      PROVE  /\ t[i].id \in DOMAIN q
             /\ t[i].reg => q[t[i].id] + 1 = i
             /\ ~t[i].reg => q[t[i].id] + 1 < i
  <2>1. CASE i = Len(s) + 1
    BY <1>1, <1>3, <2>1
  <2>2. CASE i \in DOMAIN s
    <3>1. /\ s[i].id \in DOMAIN r
          /\ s[i].reg => r[s[i].id] + 1 = i
          /\ ~s[i].reg => r[s[i].id] + 1 < i
      BY <2>2 DEF StreamOK
    <3> QED BY <1>1, <1>3, <2>2, <3>1
  <2> QED BY <1>1, <2>1, <2>2
<1>6. StreamOK(t, q)
  BY <1>4, <1>5 DEF StreamOK
<1> QED BY <1>3, <1>6 DEF t, q

\* A call by an id that is registered before it.
LEMMA AppendBareCall ==
  ASSUME NEW s \in Seq(Message), NEW r, IsMap(r, Nat, Nat), StreamOK(s, r),
         NEW m \in Message, ~m.reg, m.id \in DOMAIN r
  PROVE  StreamOK(Append(s, m), r)
<1> DEFINE t == Append(s, m)
<1>1. /\ Len(t) = Len(s) + 1 /\ DOMAIN t = 1 .. Len(s) + 1
      /\ DOMAIN s = 1 .. Len(s) /\ Len(s) \in Nat
      /\ \A i \in DOMAIN s : t[i] = s[i]
      /\ t[Len(s) + 1] = m
  OBVIOUS
<1>2. \A z \in DOMAIN r : r[z] \in Nat
  BY DEF IsMap
<1> HIDE DEF t
<1>3. ASSUME NEW id \in DOMAIN r
      PROVE  r[id] < Len(t) /\ t[r[id] + 1].reg /\ t[r[id] + 1].id = id
  <2>1. r[id] < Len(s) /\ s[r[id] + 1].reg /\ s[r[id] + 1].id = id
    BY DEF StreamOK
  <2>2. r[id] + 1 \in DOMAIN s
    BY <1>1, <1>2, <2>1
  <2> QED BY <1>1, <1>2, <2>1, <2>2
<1>4. ASSUME NEW i \in DOMAIN t
      PROVE  /\ t[i].id \in DOMAIN r
             /\ t[i].reg => r[t[i].id] + 1 = i
             /\ ~t[i].reg => r[t[i].id] + 1 < i
  <2>1. CASE i = Len(s) + 1
    <3>1. r[m.id] < Len(s)
      BY DEF StreamOK
    <3> QED BY <1>1, <1>2, <2>1, <3>1
  <2>2. CASE i \in DOMAIN s
    BY <1>1, <2>2 DEF StreamOK
  <2> QED BY <1>1, <2>1, <2>2
<1> QED BY <1>3, <1>4 DEF StreamOK, t

LEMMA EmptyStreamOK == StreamOK(<< >>, Empty)
  BY DEF StreamOK, Empty
-----------------------------------------------------------------------------
(* The steps that keep the session: Running and Joined do not change *)

\* Numbering a key keeps ids apart.
LEMMA IdsStep ==
  ASSUME TypeOK, IdsInv, NEW e \in End, NEW k \in Keys, AssignId(e, k)
  PROVE  /\ IdsInv'
         /\ IdOf(e, k) # 0 /\ msg_ids'[e][k] = IdOf(e, k)
         /\ \A x \in End, l \in Keys :
               msg_ids[x][l] # 0 => msg_ids'[x][l] = msg_ids[x][l]
<1>1. /\ msg_next_id[e] \in Nat \ {0}
      /\ \A x \in End : msg_next_id[x] \in Nat
      /\ \A x \in End, l \in Keys : msg_ids[x][l] \in Nat
  BY DEF TypeOK
<1>2. CASE msg_ids[e][k] # 0
  <2>1. msg_ids' = msg_ids /\ msg_next_id' = msg_next_id
    BY <1>2 DEF AssignId, IdOf, TypeOK
  <2> QED BY <1>2, <2>1 DEF IdOf, IdsInv
<1>3. CASE msg_ids[e][k] = 0
  <2>1. /\ IdOf(e, k) = msg_next_id[e]
        /\ \A x \in End : msg_next_id'[x] =
              IF x = e THEN msg_next_id[e] + 1 ELSE msg_next_id[x]
        /\ \A x \in End, l \in Keys : msg_ids'[x][l] =
              IF x = e /\ l = k THEN msg_next_id[e] ELSE msg_ids[x][l]
    BY <1>3 DEF AssignId, IdOf, TypeOK
  <2>2. ASSUME NEW x \in End, NEW l \in Keys PROVE msg_ids'[x][l] < msg_next_id'[x]
    <3>1. msg_ids[x][l] < msg_next_id[x]
      BY DEF IdsInv
    <3> QED BY <1>1, <2>1, <3>1
  <2>3. ASSUME NEW x \in End, NEW l \in Keys, NEW j \in Keys,
               msg_ids'[x][l] = msg_ids'[x][j], msg_ids'[x][l] # 0
        PROVE  l = j
    <3>1. /\ msg_ids[x][l] < msg_next_id[x] /\ msg_ids[x][j] < msg_next_id[x]
          /\ msg_ids[x][l] = msg_ids[x][j] /\ msg_ids[x][l] # 0 => l = j
      BY DEF IdsInv
    <3> QED BY <1>1, <2>1, <2>3, <3>1
  <2> QED BY <1>1, <1>3, <2>1, <2>2, <2>3 DEF IdsInv
<1> QED BY <1>1, <1>2, <1>3

(***************************************************************************)
(* A step that leaves the wire cut and nothing in flight.                  *)
(***************************************************************************)
LEMMA CutStep ==
  ASSUME IdsInv', wire' = FALSE, core'["client"], \A x \in End : air'[x] = {}
  PROVE  RegistrationInv'
  BY DEF RegistrationInv, LinkInv, NamesInv, StreamInv, TargetsInv, Running, Joined
(***************************************************************************)
(* What a call adds to the reliable stream and to msg_registered.          *)
(***************************************************************************)
NextRegistered(e, id) ==
    IF id \in DOMAIN msg_registered[e] THEN msg_registered[e]
    ELSE Put(msg_registered[e], id, Len(stream[e]))

\* What one call puts on the stream.
LEMMA CallStream ==
  ASSUME TypeOK, NEW e \in End, NEW k \in Keys, StreamOK(stream[e], msg_registered[e]),
         NEW id, id = IdOf(e, k), NEW r, r = NextRegistered(e, id)
  PROVE  /\ id \in DOMAIN r
         /\ \A z \in DOMAIN msg_registered[e] :
               z \in DOMAIN r /\ r[z] = msg_registered[e][z]
         /\ \A z \in DOMAIN r : z \notin DOMAIN msg_registered[e]
               => r[z] = Len(stream[e])
         /\ StreamOK(stream[e] \o NewRegistrations(e, k, id), r)
         /\ StreamOK(stream[e] \o (NewRegistrations(e, k, id) \o <<BareCall(k, id)>>), r)
<1> DEFINE s == stream[e]
           q == msg_registered[e]
           reg == Registration(k, id)
           call == BareCall(k, id)
<1>1. /\ s \in Seq(Message) /\ IsMap(q, Nat, Nat) /\ id \in Nat
      /\ call \in Message /\ ~call.reg /\ call.id = id
  BY MessageTypes, IdOfType DEF TypeOK, BareCall
<1>2. reg \in Message /\ reg.reg /\ reg.id = id
  BY <1>1 DEF Registration, Message
<1>3. CASE id \in DOMAIN q
  <2>1. r = q /\ NewRegistrations(e, k, id) = << >>
    BY <1>3 DEF NextRegistered, NewRegistrations
  <2>2. s \o << >> = s /\ s \o (<< >> \o <<call>>) = Append(s, call)
    BY <1>1
  <2>3. StreamOK(Append(s, call), q)
    BY <1>1, <1>3, AppendBareCall
  <2> QED BY <1>3, <2>1, <2>2, <2>3
<1>4. CASE id \notin DOMAIN q
  <2>1. r = Put(q, id, Len(s)) /\ NewRegistrations(e, k, id) = <<reg>>
    BY <1>4 DEF NextRegistered, NewRegistrations
  <2>2. /\ s \o <<reg>> = Append(s, reg)
        /\ s \o (<<reg>> \o <<call>>) = Append(Append(s, reg), call)
        /\ Append(s, reg) \in Seq(Message)
    BY <1>1, <1>2
  <2>3. IsMap(r, Nat, Nat) /\ StreamOK(Append(s, reg), r)
    BY <1>1, <1>2, <1>4, <2>1, AppendRegistration
  <2>4. /\ DOMAIN r = DOMAIN q \cup {id} /\ r[id] = Len(s)
        /\ \A z \in DOMAIN q : r[z] = q[z]
    BY <1>4, <2>1 DEF Put
  <2>5. StreamOK(Append(Append(s, reg), call), r)
    BY <1>1, <2>2, <2>3, <2>4, AppendBareCall
  <2> QED BY <2>1, <2>2, <2>3, <2>4, <2>5
<1> QED BY <1>3, <1>4

(***************************************************************************)
(* The messages a call puts on the stream: at most two, all about its key. *)
(***************************************************************************)
LEMMA CallMessages ==
  ASSUME TypeOK, NEW e \in End, NEW k \in Keys,
         NEW msgs, \/ msgs = NewRegistrations(e, k, IdOf(e, k))
                   \/ msgs = NewRegistrations(e, k, IdOf(e, k)) \o <<BareCall(k, IdOf(e, k))>>
  PROVE  /\ stream[e] \o msgs \in Seq(Message)
         /\ Len(stream[e]) <= Len(stream[e] \o msgs)
         /\ \A i \in DOMAIN (stream[e] \o msgs) :
               \/ i \in DOMAIN stream[e] /\ (stream[e] \o msgs)[i] = stream[e][i]
               \/ /\ (stream[e] \o msgs)[i].key = k
                  /\ (stream[e] \o msgs)[i].id = IdOf(e, k)
<1>1. msgs \in Seq(Message) /\ stream[e] \in Seq(Message)
  BY MessageTypes DEF TypeOK
<1>2. \A i \in DOMAIN msgs : msgs[i].key = k /\ msgs[i].id = IdOf(e, k)
  BY DEF NewRegistrations, Registration, BareCall
<1>3. /\ stream[e] \o msgs \in Seq(Message)
      /\ Len(stream[e] \o msgs) = Len(stream[e]) + Len(msgs)
      /\ \A i \in 1 .. Len(stream[e]) : (stream[e] \o msgs)[i] = stream[e][i]
      /\ \A i \in Len(stream[e]) + 1 .. Len(stream[e]) + Len(msgs) :
            /\ (stream[e] \o msgs)[i] = msgs[i - Len(stream[e])]
            /\ i - Len(stream[e]) \in DOMAIN msgs
  BY <1>1
<1> QED BY <1>1, <1>2, <1>3
(***************************************************************************)
(* A call on an end whose link is up keeps the invariant, whether it goes  *)
(* on the stream or in the datagram, overflows the stream or not.          *)
(***************************************************************************)
Datagram(e, k, m) ==
    /\ m.key = k /\ m.id = IdOf(e, k)
    /\ m.reg \/ Known(e, IdOf(e, k))
    /\ air' = IF core[e] /\ wire THEN [air EXCEPT ![e] = @ \cup {m}] ELSE air

\* A call, with the overflow it may cause, keeps the invariant.
LEMMA SendStep ==
  ASSUME TypeOK, RegistrationInv, NEW e \in End, NEW k \in Keys,
         NEW msgs, \/ msgs = NewRegistrations(e, k, IdOf(e, k))
                   \/ msgs = NewRegistrations(e, k, IdOf(e, k)) \o <<BareCall(k, IdOf(e, k))>>,
         link[e] = "up", AssignId(e, k), CheckOverflow(e, msgs),
         msg_registered' = [msg_registered EXCEPT ![e] =
             IF IdOf(e, k) \in DOMAIN @ THEN @ ELSE Put(@, IdOf(e, k), Queued(e))],
         msg_targets' = msg_targets,
         Overflowed(e, msgs) => air' = [x \in End |-> {}],
         ~Overflowed(e, msgs) => air' = air \/ \E m : Datagram(e, k, m)
  PROVE  RegistrationInv'
<1>1. /\ IdsInv' /\ IdOf(e, k) # 0 /\ msg_ids'[e][k] = IdOf(e, k)
      /\ \A x \in End, l \in Keys : msg_ids[x][l] # 0 => msg_ids'[x][l] = msg_ids[x][l]
  BY IdsStep DEF RegistrationInv
<1>2. CASE Overflowed(e, msgs)
  <2>1. wire' = FALSE /\ core' = [core EXCEPT ![e] = e = "client"]
    BY <1>2 DEF CheckOverflow
  <2>2. core'["client"]
    BY <2>1 DEF RegistrationInv, LinkInv, TypeOK, End
  <2> QED BY <1>1, <1>2, <2>1, <2>2, CutStep
<1>3. CASE ~Overflowed(e, msgs) /\ ~wire
  <2>1. wire' = FALSE /\ core' = core /\ air' = air
    BY <1>3 DEF CheckOverflow, Datagram, TypeOK
  <2>2. core'["client"] /\ \A x \in End : air'[x] = {}
    BY <1>3, <2>1 DEF RegistrationInv, LinkInv, Running, End
  <2> QED BY <1>1, <2>1, <2>2, CutStep
<1>4. CASE ~Overflowed(e, msgs) /\ wire
  <2>1. Running(e) /\ core[e]
    BY <1>4 DEF Running, RegistrationInv, LinkInv
  <2>2. /\ delivered' = delivered /\ acked' = acked /\ core' = core
        /\ link' = link /\ wire' = wire
        /\ stream' = [stream EXCEPT ![e] = stream[e] \o msgs]
    BY <1>4, <2>1 DEF CheckOverflow, Enqueue
  <2>3. /\ stream'[e] = stream[e] \o msgs
        /\ \A x \in End : x # e => stream'[x] = stream[x]
    BY <2>2 DEF TypeOK
  <2>4. /\ msg_registered'[e] = NextRegistered(e, IdOf(e, k))
        /\ \A x \in End : x # e => msg_registered'[x] = msg_registered[x]
    BY <2>1 DEF TypeOK, NextRegistered, Queued
  <2>5. \A x \in End : x # e => air'[x] = air[x]
    BY <1>4 DEF Datagram, TypeOK
  <2>6. \A m \in air'[e] : \/ m \in air[e]
                          \/ /\ m.key = k /\ m.id = IdOf(e, k)
                             /\ m.reg \/ Known(e, IdOf(e, k))
    BY <1>4 DEF Datagram, TypeOK
  <2>7. \A x \in End : Running(x)' = Running(x) /\ Joined(x)' = Joined(x)
    BY <2>2 DEF Running, Joined
  <2>8. /\ acked[e] <= delivered[e] /\ delivered[e] <= Len(stream[e])
        /\ StreamOK(stream[e], msg_registered[e])
        /\ acked[e] \in Nat /\ delivered[e] \in Nat /\ Len(stream[e]) \in Nat
    BY <2>1 DEF RegistrationInv, StreamInv, TypeOK
  <2>13. /\ Len(stream[e]) <= Len(stream[e] \o msgs) /\ Len(stream[e] \o msgs) \in Nat
         /\ \A i \in DOMAIN (stream[e] \o msgs) :
               \/ i \in DOMAIN stream[e] /\ (stream[e] \o msgs)[i] = stream[e][i]
               \/ /\ (stream[e] \o msgs)[i].key = k
                  /\ (stream[e] \o msgs)[i].id = IdOf(e, k)
    BY CallMessages
  <2>14. /\ StreamOK(stream[e] \o msgs, NextRegistered(e, IdOf(e, k)))
         /\ \A z \in DOMAIN msg_registered[e] :
               /\ z \in DOMAIN NextRegistered(e, IdOf(e, k))
               /\ NextRegistered(e, IdOf(e, k))[z] = msg_registered[e][z]
    BY <2>8, CallStream
  <2>9. LinkInv'
    BY <2>1, <2>2, <2>5, <2>7, OtherEnd DEF RegistrationInv, LinkInv
  <2>10. NamesInv'
    <3> SUFFICES ASSUME NEW x \in End, Running(x)
        PROVE  /\ \A i \in DOMAIN stream'[x] :
                     /\ stream'[x][i].id = msg_ids'[x][stream'[x][i].key]
                     /\ stream'[x][i].id # 0
               /\ \A m \in air'[x] : m.id = msg_ids'[x][m.key] /\ m.id # 0
      BY <2>7 DEF NamesInv
    <3>1. /\ \A i \in DOMAIN stream[x] : /\ stream[x][i].id = msg_ids[x][stream[x][i].key]
                                         /\ stream[x][i].id # 0 /\ stream[x][i].key \in Keys
          /\ \A m \in air[x] : m.id = msg_ids[x][m.key] /\ m.id # 0 /\ m.key \in Keys
      <4>1. \A i \in DOMAIN stream[x] : stream[x][i] \in Message
        BY DEF TypeOK
      <4>2. \A m \in air[x] : m \in Message
        BY DEF TypeOK
      <4> QED BY <4>1, <4>2 DEF RegistrationInv, NamesInv, Message
    <3>2. /\ \A i \in DOMAIN stream[x] : /\ stream[x][i].id = msg_ids'[x][stream[x][i].key]
                                         /\ stream[x][i].id # 0
          /\ \A m \in air[x] : m.id = msg_ids'[x][m.key] /\ m.id # 0
      BY <1>1, <3>1
    <3>3. CASE x = e
      <4>1. ASSUME NEW i \in DOMAIN stream'[e]
            PROVE  /\ stream'[e][i].id = msg_ids'[e][stream'[e][i].key]
                   /\ stream'[e][i].id # 0
        <5>1. \/ i \in DOMAIN stream[e] /\ stream'[e][i] = stream[e][i]
              \/ stream'[e][i].key = k /\ stream'[e][i].id = IdOf(e, k)
          BY <2>3, <2>13
        <5> QED BY <1>1, <3>2, <3>3, <5>1
      <4>2. \A m \in air'[e] : m.id = msg_ids'[e][m.key] /\ m.id # 0
        BY <1>1, <2>6, <3>2, <3>3
      <4> QED BY <3>3, <4>1, <4>2
    <3>4. CASE x # e
      BY <2>3, <2>5, <3>2, <3>4
    <3> QED BY <3>3, <3>4
  <2>11. StreamInv'
    <3> SUFFICES ASSUME NEW x \in End, Running(x)
        PROVE  /\ acked[x] <= delivered[x] /\ delivered[x] <= Len(stream'[x])
               /\ StreamOK(stream'[x], msg_registered'[x])
               /\ \A m \in air'[x] : ~m.reg => /\ m.id \in DOMAIN msg_registered'[x]
                                               /\ msg_registered'[x][m.id] < acked[x]
      BY <2>2, <2>7 DEF StreamInv
    <3>1. CASE x = e
      <4>1. StreamOK(stream'[e], msg_registered'[e])
        BY <2>3, <2>4, <2>14
      <4>2. \A z \in DOMAIN msg_registered[e] :
              /\ z \in DOMAIN msg_registered'[e]
              /\ msg_registered'[e][z] = msg_registered[e][z]
        BY <2>4, <2>14
      <4>3. ASSUME NEW m \in air'[e], ~m.reg
            PROVE  m.id \in DOMAIN msg_registered'[e] /\ msg_registered'[e][m.id] < acked[e]
        <5>1. CASE m \in air[e]
          BY <2>1, <4>2, <4>3, <5>1 DEF RegistrationInv, StreamInv
        <5>2. CASE m.id = IdOf(e, k) /\ Known(e, IdOf(e, k))
          BY <2>1, <4>2, <5>2 DEF Known, DeliveredAck, TypeOK, IsMap
        <5> QED BY <2>6, <4>3, <5>1, <5>2
      <4>4. Len(stream[e]) <= Len(stream'[e]) /\ Len(stream'[e]) \in Nat
        BY <2>3, <2>13
      <4> QED BY <2>8, <3>1, <4>1, <4>3, <4>4
    <3>2. CASE x # e
      BY <2>3, <2>4, <2>5, <3>2 DEF RegistrationInv, StreamInv
    <3> QED BY <3>1, <3>2
  <2>12. TargetsInv'
    <3> SUFFICES ASSUME NEW x \in End, Joined(x)
        PROVE  /\ \A id \in DOMAIN msg_registered'[x] : msg_registered'[x][id] < delivered[x]
                     => id \in DOMAIN msg_targets[Other(x)]
               /\ \A id \in DOMAIN msg_targets[Other(x)] :
                     id # 0 /\ msg_ids'[x][msg_targets[Other(x)][id]] = id
      BY <2>2, <2>7 DEF TargetsInv
    <3>1. /\ \A id \in DOMAIN msg_registered[x] : msg_registered[x][id] < delivered[x]
                     => id \in DOMAIN msg_targets[Other(x)]
          /\ \A id \in DOMAIN msg_targets[Other(x)] :
                     msg_ids[x][msg_targets[Other(x)][id]] = id /\ id # 0
      BY DEF RegistrationInv, TargetsInv
    <3>2. \A id \in DOMAIN msg_targets[Other(x)] :
            id # 0 /\ msg_ids'[x][msg_targets[Other(x)][id]] = id
      <4>1. \A id \in DOMAIN msg_targets[Other(x)] : msg_targets[Other(x)][id] \in Keys
        BY OtherEnd DEF TypeOK, IsMap
      <4> QED BY <1>1, <3>1, <4>1
    <3>3. CASE x = e
      <4>1. \A z \in DOMAIN msg_registered'[e] :
              \/ /\ z \in DOMAIN msg_registered[e]
                 /\ msg_registered'[e][z] = msg_registered[e][z]
              \/ msg_registered'[e][z] = Len(stream[e])
        BY <2>4, <2>8, CallStream
      <4> QED BY <2>8, <3>1, <3>2, <3>3, <4>1
    <3>4. CASE x # e
      BY <2>4, <3>1, <3>2, <3>4
    <3> QED BY <3>3, <3>4
  <2> QED BY <1>1, <2>9, <2>10, <2>11, <2>12 DEF RegistrationInv
<1> QED BY <1>2, <1>3, <1>4
(***************************************************************************)
(* A message of e's reaches the other end.                                 *)
(***************************************************************************)
LEMMA LearnStep ==
  ASSUME TypeOK, RegistrationInv, NEW e \in End, Joined(e), NEW m \in Message,
         LearnTarget(e, m), m.id = msg_ids[e][m.key], m.id # 0,
         UNCHANGED <<msg_ids, msg_next_id, msg_registered, stream, acked, core, link, wire>>,
         \/ delivered' = delivered /\ (\A x \in End : air'[x] \subseteq air[x])
         \/ /\ delivered' = [delivered EXCEPT ![e] = @ + 1] /\ air' = air
            /\ delivered[e] < Len(stream[e]) /\ m = stream[e][delivered[e] + 1]
  PROVE  RegistrationInv'
<1>1. /\ Other(e) \in End /\ Other(e) # e /\ Other(Other(e)) = e
      /\ \A x \in End : x = e \/ x = Other(e)
      /\ Running(e) /\ Running(Other(e))
  BY OtherEnd DEF Joined, Running, End, Other
<1>2. \A x \in End : Running(x)' = Running(x) /\ Joined(x)' = Joined(x)
  BY DEF Running, Joined
<1>3. /\ msg_targets'[e] = msg_targets[e]
      /\ \A z \in DOMAIN msg_targets'[Other(e)] :
            \/ z = m.id /\ msg_targets'[Other(e)][z] = m.key
            \/ /\ z \in DOMAIN msg_targets[Other(e)]
               /\ msg_targets'[Other(e)][z] = msg_targets[Other(e)][z]
      /\ DOMAIN msg_targets[Other(e)] \subseteq DOMAIN msg_targets'[Other(e)]
      /\ m.reg => m.id \in DOMAIN msg_targets'[Other(e)]
  BY <1>1 DEF LearnTarget, TypeOK, Put
<1>4. /\ delivered[e] \in Nat /\ delivered'[e] \in Nat /\ delivered[e] <= delivered'[e]
      /\ delivered'[Other(e)] = delivered[Other(e)]
      /\ delivered[e] <= Len(stream[e]) => delivered'[e] <= Len(stream[e])
      /\ \A x \in End : air'[x] \subseteq air[x]
      /\ acked[e] \in Nat
  BY <1>1 DEF TypeOK
<1>5. IdsInv' /\ NamesInv'
  BY <1>2, <1>4 DEF RegistrationInv, IdsInv, NamesInv
<1>6. LinkInv'
  BY <1>1, <1>2, <1>4 DEF RegistrationInv, LinkInv, Running
<1>7. StreamInv'
  <2> SUFFICES ASSUME NEW x \in End, Running(x)
      PROVE  /\ acked[x] <= delivered'[x] /\ delivered'[x] <= Len(stream[x])
             /\ StreamOK(stream[x], msg_registered[x])
             /\ \A n \in air'[x] : ~n.reg => /\ n.id \in DOMAIN msg_registered[x]
                                             /\ msg_registered[x][n.id] < acked[x]
    BY <1>2 DEF StreamInv
  <2>1. /\ acked[x] <= delivered[x] /\ delivered[x] <= Len(stream[x])
        /\ StreamOK(stream[x], msg_registered[x])
        /\ \A n \in air[x] : ~n.reg => /\ n.id \in DOMAIN msg_registered[x]
                                       /\ msg_registered[x][n.id] < acked[x]
    BY DEF RegistrationInv, StreamInv
  <2> QED BY <1>1, <1>4, <2>1
<1>8. TargetsInv'
  <2> SUFFICES ASSUME NEW x \in End, Joined(x)
      PROVE  /\ \A id \in DOMAIN msg_registered[x] : msg_registered[x][id] < delivered'[x]
                   => id \in DOMAIN msg_targets'[Other(x)]
             /\ \A id \in DOMAIN msg_targets'[Other(x)] :
                   id # 0 /\ msg_ids[x][msg_targets'[Other(x)][id]] = id
    BY <1>2 DEF TargetsInv
  <2>1. /\ \A id \in DOMAIN msg_registered[x] : msg_registered[x][id] < delivered[x]
              => id \in DOMAIN msg_targets[Other(x)]
        /\ \A id \in DOMAIN msg_targets[Other(x)] :
              id # 0 /\ msg_ids[x][msg_targets[Other(x)][id]] = id
    BY DEF RegistrationInv, TargetsInv
  <2>2. CASE x = e
    <3>1. \A id \in DOMAIN msg_targets'[Other(e)] :
            id # 0 /\ msg_ids[e][msg_targets'[Other(e)][id]] = id
      BY <1>3, <2>1, <2>2
    <3>2. ASSUME NEW id \in DOMAIN msg_registered[e], msg_registered[e][id] < delivered'[e]
          PROVE  id \in DOMAIN msg_targets'[Other(e)]
      <4>1. CASE msg_registered[e][id] < delivered[e]
        BY <1>3, <2>1, <2>2, <4>1
      <4>2. CASE ~(msg_registered[e][id] < delivered[e])
        <5>1. msg_registered[e][id] \in Nat
          BY DEF TypeOK, IsMap
        <5>2. msg_registered[e][id] = delivered[e] /\ m = stream[e][delivered[e] + 1]
          BY <1>1, <1>4, <3>2, <4>2, <5>1 DEF TypeOK
        <5>3. m.reg /\ m.id = id
          BY <1>1, <5>2 DEF RegistrationInv, StreamInv, StreamOK
        <5> QED BY <1>3, <5>3
      <4> QED BY <4>1, <4>2
    <3> QED BY <2>2, <3>1, <3>2
  <2>3. CASE x = Other(e)
    BY <1>1, <1>3, <1>4, <2>1, <2>3
  <2> QED BY <1>1, <2>2, <2>3
<1> QED BY <1>5, <1>6, <1>7, <1>8 DEF RegistrationInv

\* What the core moves.
LEMMA TransferStep == TypeOK /\ RegistrationInv /\ Transfer => RegistrationInv'
<1> SUFFICES ASSUME TypeOK, RegistrationInv, Transfer PROVE RegistrationInv'
  OBVIOUS
<1>1. ASSUME NEW e \in End, DeliverReliable(e) PROVE RegistrationInv'
  <2> DEFINE i == delivered[e] + 1
  <2>1. Running(e) /\ i \in DOMAIN stream[e] /\ stream[e][i] \in Message
    BY <1>1 DEF DeliverReliable, Joined, Running, TypeOK
  <2>2. stream[e][i].id = msg_ids[e][stream[e][i].key] /\ stream[e][i].id # 0
    BY <2>1 DEF RegistrationInv, NamesInv
  <2> QED BY <1>1, <2>1, <2>2, LearnStep DEF DeliverReliable
<1>2. ASSUME NEW e \in End, NEW m \in air[e], DeliverUnreliable(e, m) PROVE RegistrationInv'
  <2>1. Running(e) /\ m \in Message
    BY <1>2 DEF DeliverUnreliable, Joined, Running, TypeOK
  <2>2. m.id = msg_ids[e][m.key] /\ m.id # 0
    BY <2>1 DEF RegistrationInv, NamesInv
  <2>3. \A x \in End : air'[x] \subseteq air[x]
    BY <1>2 DEF DeliverUnreliable, TypeOK
  <2> QED BY <1>2, <2>1, <2>2, <2>3, LearnStep DEF DeliverUnreliable
<1>3. ASSUME NEW e \in End, NEW m \in air[e], LoseUnreliable(e, m) PROVE RegistrationInv'
  <2>1. \A x \in End : air'[x] \subseteq air[x]
    BY <1>3 DEF LoseUnreliable, TypeOK
  <2> QED BY <1>3, <2>1 DEF LoseUnreliable, adapter, RegistrationInv, IdsInv, LinkInv,
             NamesInv, StreamInv, TargetsInv, Running, Joined
<1>4. ASSUME NEW e \in End, Ack(e) PROVE RegistrationInv'
  <2>1. PICK n \in acked[e] + 1 .. delivered[e] : acked' = [acked EXCEPT ![e] = n]
    BY <1>4 DEF Ack
  <2>2. /\ \A x \in End : acked[x] <= acked'[x]
        /\ \A x \in End : acked[x] <= delivered[x] => acked'[x] <= delivered[x]
        /\ \A x \in End : acked[x] \in Nat /\ acked'[x] \in Nat
    BY <2>1 DEF TypeOK
  <2>3. IdsInv' /\ LinkInv' /\ NamesInv' /\ TargetsInv'
    BY <1>4 DEF Ack, adapter, RegistrationInv, IdsInv, LinkInv, NamesInv, TargetsInv,
                Running, Joined
  <2>4. StreamInv'
    <3>1. \A x \in End : \A id \in DOMAIN msg_registered[x] : msg_registered[x][id] \in Nat
      BY DEF TypeOK, IsMap
    <3> QED BY <1>4, <2>2, <3>1 DEF Ack, adapter, RegistrationInv, StreamInv, Running
  <2> QED BY <2>3, <2>4 DEF RegistrationInv
<1> QED BY <1>1, <1>2, <1>3, <1>4 DEF Transfer
(***************************************************************************)
(* An end comes up on an open wire with an empty channel and empty maps.   *)
(***************************************************************************)
LEMMA ComeUpStep ==
  ASSUME TypeOK, RegistrationInv, NEW e \in End, wire, link[e] = "down",
         FreshChannel(e), ForgetMaps(e), link' = [link EXCEPT ![e] = "up"],
         core'["client"], core'[e], \A x \in End : core[x] => core'[x],
         UNCHANGED <<msg_ids, msg_next_id, air, wire>>
  PROVE  RegistrationInv'
<1>1. /\ Other(e) \in End /\ Other(e) # e /\ Other(Other(e)) = e
      /\ \A x \in End : x = e \/ x = Other(e)
  BY DEF End, Other
<1>2. /\ stream'[e] = << >> /\ delivered'[e] = 0 /\ acked'[e] = 0
      /\ msg_registered'[e] = Empty /\ msg_targets'[e] = Empty
      /\ stream'[Other(e)] = stream[Other(e)]
      /\ delivered'[Other(e)] = delivered[Other(e)] /\ acked'[Other(e)] = acked[Other(e)]
      /\ msg_registered'[Other(e)] = msg_registered[Other(e)]
      /\ msg_targets'[Other(e)] = msg_targets[Other(e)]
      /\ link'[e] = "up" /\ link'[Other(e)] = link[Other(e)]
  BY <1>1 DEF FreshChannel, ForgetMaps, TypeOK
<1>3. /\ Running(e)' /\ ~Running(e)
      /\ Running(Other(e))' = Running(Other(e))
      /\ link[e] # "closing" /\ link[Other(e)] # "closing"
  BY <1>1, <1>2 DEF Running, RegistrationInv, LinkInv
<1>4. /\ air'[e] = {} /\ air' = air
      /\ Running(Other(e)) => /\ delivered[Other(e)] = 0
                              /\ msg_targets[Other(e)] = Empty
  BY <1>1, <1>3 DEF RegistrationInv, LinkInv
<1>5. IdsInv'
  BY DEF RegistrationInv, IdsInv
<1>6. LinkInv'
  BY <1>1, <1>2, <1>3, <1>4 DEF RegistrationInv, LinkInv
<1>7. NamesInv'
  <2>1. CASE Running(Other(e))
    BY <1>1, <1>2, <1>3, <1>4, <2>1 DEF RegistrationInv, NamesInv
  <2>2. CASE ~Running(Other(e))
    BY <1>1, <1>2, <1>3, <1>4, <2>2 DEF NamesInv
  <2> QED BY <2>1, <2>2
<1>8. StreamInv'
  <2>1. StreamOK(<< >>, Empty)
    BY EmptyStreamOK
  <2> QED BY <1>1, <1>2, <1>3, <1>4, <2>1 DEF RegistrationInv, StreamInv
<1>9. TargetsInv'
  <2>1. Running(Other(e)) => \A id \in DOMAIN msg_registered[Other(e)] :
                               msg_registered[Other(e)][id] \in Nat
    BY <1>1 DEF TypeOK, IsMap
  <2>2. DOMAIN Empty = {}
    BY DEF Empty
  <2>3. \A x \in End : Joined(x)' => Running(Other(e))
    BY <1>1, <1>3 DEF Joined, Running
  <2> SUFFICES ASSUME NEW x \in End, Joined(x)'
      PROVE  /\ \A id \in DOMAIN msg_registered'[x] : ~(msg_registered'[x][id] < delivered'[x])
             /\ msg_targets'[Other(x)] = Empty
    BY <2>2 DEF TargetsInv
  <2>4. CASE x = e
    BY <1>1, <1>2, <1>4, <2>2, <2>3, <2>4
  <2>5. CASE x = Other(e)
    BY <1>1, <1>2, <1>4, <2>1, <2>2, <2>3, <2>5
  <2> QED BY <1>1, <2>4, <2>5
<1> QED BY <1>5, <1>6, <1>7, <1>8, <1>9 DEF RegistrationInv

\* The relays, swaps and restarts.
LEMMA SessionStep == TypeOK /\ RegistrationInv /\ Session => RegistrationInv'
<1> SUFFICES ASSUME TypeOK, RegistrationInv, Session PROVE RegistrationInv'
  OBVIOUS
<1>1. "server" \in End /\ "client" \in End /\ core["client"]
  BY DEF End, RegistrationInv, LinkInv
<1>2. ASSUME ~wire PROVE \A x \in End : air[x] = {}
  BY <1>2 DEF RegistrationInv, LinkInv, Running
<1>3. ASSUME UNCHANGED <<msg_ids, msg_next_id>> PROVE IdsInv'
  BY <1>3 DEF RegistrationInv, IdsInv
<1>4. CASE Connect
  <2>1. \A x \in End : ~Running(x)' /\ ~Joined(x)' /\ air'[x] = {} /\ link'[x] = "down"
    BY <1>2, <1>4 DEF Connect, channel, Running, Joined
  <2>2. core'["client"] /\ UNCHANGED <<msg_ids, msg_next_id>>
    BY <1>1, <1>4 DEF Connect, adapter
  <2> QED BY <1>3, <2>1, <2>2, OtherEnd DEF RegistrationInv, LinkInv, NamesInv, StreamInv, TargetsInv
<1>5. CASE ServerConnected
  <2>1. core'["server"] /\ core'["client"] /\ \A x \in End : core[x] => core'[x]
    BY <1>1, <1>5 DEF ServerConnected, TypeOK, End
  <2> QED BY <1>1, <1>5, <2>1, ComeUpStep DEF ServerConnected
<1>6. CASE ClientConnected
  BY <1>1, <1>6, ComeUpStep DEF ClientConnected
<1>7. CASE Break
  BY <1>1, <1>3, <1>7, CutStep DEF Break, adapter
<1>8. CASE ServerHearsLoss
  <2>1. core'["client"]
    BY <1>1, <1>8 DEF ServerHearsLoss, TypeOK
  <2> QED BY <1>2, <1>3, <1>8, <2>1, CutStep DEF ServerHearsLoss, channel, TypeOK
<1>9. CASE ServerSwapsPeer
  <2>1. core'["client"]
    BY <1>1, <1>9 DEF ServerSwapsPeer, EndServerSession, TypeOK
  <2> QED BY <1>3, <1>9, <2>1, CutStep DEF ServerSwapsPeer
<1>10. CASE ServerCloses
  <2>1. core'["client"]
    BY <1>1, <1>10 DEF ServerCloses, TypeOK
  <2> QED BY <1>3, <1>10, <2>1, CutStep DEF ServerCloses
<1>11. CASE ClientHearsLoss
  <2>1. ~wire
    BY <1>1, <1>11 DEF ClientHearsLoss, RegistrationInv, LinkInv
  <2> QED BY <1>1, <1>2, <1>3, <1>11, <2>1, CutStep DEF ClientHearsLoss, TypeOK
<1>12. CASE ClientSwapsPeer
  BY <1>1, <1>3, <1>12, CutStep DEF ClientSwapsPeer, adapter
<1>13. ASSUME NEW e \in End, Restart(e) PROVE RegistrationInv'
  <2>1. IdsInv'
    <3>1. /\ \A x \in End, k \in Keys :
                msg_ids'[x][k] = IF x = e THEN 0 ELSE msg_ids[x][k]
          /\ \A x \in End : msg_next_id'[x] = IF x = e THEN 1 ELSE msg_next_id[x]
      BY <1>13 DEF Restart, TypeOK
    <3> QED BY <3>1 DEF RegistrationInv, IdsInv
  <2> QED BY <1>1, <1>2, <1>13, <2>1, CutStep DEF Restart, channel, TypeOK
<1> QED BY <1>4, <1>5, <1>6, <1>7, <1>8, <1>9, <1>10, <1>11, <1>12, <1>13 DEF Session

\* The three ways of a call.
LEMMA SendsStep == TypeOK /\ RegistrationInv /\ Send => RegistrationInv'
<1> SUFFICES ASSUME TypeOK, RegistrationInv, NEW e \in End, NEW k \in Keys,
                    \/ SendReliable(e, k)
                    \/ \E s \in Sizes : SendUnreliable(e, k, s) \/ SendOversized(e, k, s)
             PROVE  RegistrationInv'
  BY DEF Send
<1> DEFINE id == IdOf(e, k)
           new == NewRegistrations(e, k, id)
           all == new \o <<BareCall(k, id)>>
<1>1. CASE SendReliable(e, k)
  BY <1>1, SendStep DEF SendReliable
<1>2. ASSUME NEW s \in Sizes, SendUnreliable(e, k, s) PROVE RegistrationInv'
  <2> DEFINE m == IF Known(e, id) THEN BareCall(k, id) ELSE NamedCall(k, id)
  <2>1. m.key = k /\ m.id = id /\ (m.reg \/ Known(e, id))
    BY DEF BareCall, NamedCall
  <2>2. ~Overflowed(e, new) =>
          air' = IF core[e] /\ wire THEN [air EXCEPT ![e] = @ \cup {m}] ELSE air
    BY <1>2 DEF SendUnreliable
  <2>3. ~Overflowed(e, new) => Datagram(e, k, m)
    BY <2>1, <2>2 DEF Datagram
  <2> HIDE DEF m
  <2> QED BY <1>2, <2>3, SendStep DEF SendUnreliable
<1>3. ASSUME NEW s \in Sizes, SendOversized(e, k, s) PROVE RegistrationInv'
  <2>1. /\ IdsInv'
        /\ \A x \in End, l \in Keys : msg_ids[x][l] # 0 => msg_ids'[x][l] = msg_ids[x][l]
    BY <1>3, IdsStep DEF SendOversized, RegistrationInv
  <2>2. UNCHANGED <<msg_registered, msg_targets, channel, core, link, wire>>
    BY <1>3 DEF SendOversized
  <2>3. LinkInv' /\ StreamInv'
    BY <2>2 DEF channel, RegistrationInv, LinkInv, StreamInv, Running
  <2>4. NamesInv'
    <3>1. ASSUME NEW x \in End
          PROVE  /\ \A i \in DOMAIN stream[x] : stream[x][i].key \in Keys
                 /\ \A n \in air[x] : n.key \in Keys
      <4>1. /\ \A i \in DOMAIN stream[x] : stream[x][i] \in Message
            /\ \A n \in air[x] : n \in Message
        BY DEF TypeOK
      <4> QED BY <4>1 DEF Message
    <3> QED BY <2>1, <2>2, <3>1 DEF channel, RegistrationInv, NamesInv, Running
  <2>5. TargetsInv'
    <3>1. \A x \in End : \A z \in DOMAIN msg_targets[Other(x)] : msg_targets[Other(x)][z] \in Keys
      BY OtherEnd DEF TypeOK, IsMap
    <3> QED BY <2>1, <2>2, <3>1 DEF channel, RegistrationInv, TargetsInv, Joined
  <2> QED BY <2>1, <2>3, <2>4, <2>5 DEF RegistrationInv
<1> QED BY <1>1, <1>2, <1>3

-----------------------------------------------------------------------------
(* The theorems *)

(***************************************************************************)
(* RegistrationInv is an inductive invariant: in every session the maps    *)
(* msg_registered and msg_targets agree with what the stream has carried.  *)
(***************************************************************************)
THEOREM Registrations == Spec => []RegistrationInv
<1>1. Init => RegistrationInv
  <2> SUFFICES ASSUME Init PROVE RegistrationInv
    OBVIOUS
  <2>1. ~wire /\ core["client"] /\ \A e \in End : air[e] = {}
    BY DEF Init, End
  <2>2. IdsInv
    BY DEF Init, IdsInv
  <2> QED BY <2>1, <2>2 DEF RegistrationInv, LinkInv, NamesInv, StreamInv, TargetsInv,
                            Running, Joined
<1>2. TypeOK /\ RegistrationInv /\ [Next]_vars => RegistrationInv'
  <2> SUFFICES ASSUME TypeOK, RegistrationInv, [Next]_vars PROVE RegistrationInv'
    OBVIOUS
  <2>1. CASE UNCHANGED vars
    BY <2>1 DEF vars, adapter, channel, RegistrationInv, IdsInv, LinkInv, NamesInv, StreamInv,
           TargetsInv, Running, Joined
  <2> QED BY <2>1, TransferStep, SessionStep, SendsStep DEF Next
<1> QED BY <1>1, <1>2, TypeCorrect, PTL DEF Spec

(***************************************************************************)
(* Every call that arrives with a bare id finds, at its receiver, the very *)
(* target its sender meant (_send_message against _deliver_message).       *)
(***************************************************************************)
THEOREM CallsAlwaysResolve == Spec => []CallsResolve
<1>1. TypeOK /\ RegistrationInv => CallsResolve
  <2> SUFFICES ASSUME TypeOK, RegistrationInv, NEW e \in End, Joined(e), NEW m \in Message,
                      m.id \in DOMAIN msg_registered[e],
                      msg_registered[e][m.id] < delivered[e],
                      m.id = msg_ids[e][m.key], m.id # 0
               PROVE  Resolves(e, m)
    <3> SUFFICES ASSUME TypeOK, RegistrationInv, NEW e \in End, Joined(e)
                 PROVE  /\ \A m \in air[e] : ~m.reg => Resolves(e, m)
                        /\ delivered[e] < Len(stream[e]) /\ ~stream[e][delivered[e] + 1].reg
                              => Resolves(e, stream[e][delivered[e] + 1])
      BY DEF CallsResolve
    <3>1. Running(e) /\ delivered[e] \in Nat /\ acked[e] \in Nat /\ acked[e] <= delivered[e]
      BY DEF Joined, Running, TypeOK, RegistrationInv, StreamInv
    <3>2. \A z \in DOMAIN msg_registered[e] : msg_registered[e][z] \in Nat
      BY DEF TypeOK, IsMap
    <3>3. ASSUME NEW m \in air[e], ~m.reg PROVE Resolves(e, m)
      <4>1. m \in Message /\ m.id = msg_ids[e][m.key] /\ m.id # 0
        BY <3>1 DEF TypeOK, RegistrationInv, NamesInv
      <4>2. m.id \in DOMAIN msg_registered[e] /\ msg_registered[e][m.id] < acked[e]
        BY <3>1, <3>3 DEF RegistrationInv, StreamInv
      <4> QED BY <3>1, <3>2, <4>1, <4>2
    <3>4. ASSUME delivered[e] < Len(stream[e]), ~stream[e][delivered[e] + 1].reg
          PROVE  Resolves(e, stream[e][delivered[e] + 1])
      <4> DEFINE m == stream[e][delivered[e] + 1]
      <4>1. delivered[e] + 1 \in DOMAIN stream[e] /\ m \in Message
        BY <3>1, <3>4 DEF TypeOK
      <4>2. m.id = msg_ids[e][m.key] /\ m.id # 0
        BY <3>1, <4>1 DEF RegistrationInv, NamesInv
      <4>3. m.id \in DOMAIN msg_registered[e] /\ msg_registered[e][m.id] + 1 < delivered[e] + 1
        BY <3>1, <3>4, <4>1 DEF RegistrationInv, StreamInv, StreamOK
      <4> HIDE DEF m
      <4>4. msg_registered[e][m.id] < delivered[e]
        BY <3>1, <3>2, <4>3
      <4>5. Resolves(e, m)
        BY <4>1, <4>2, <4>3, <4>4
      <4> QED BY <4>5 DEF m
    <3> QED BY <3>3, <3>4
  <2>1. /\ m.id \in DOMAIN msg_targets[Other(e)]
        /\ msg_ids[e][msg_targets[Other(e)][m.id]] = m.id
    BY DEF RegistrationInv, TargetsInv
  <2>2. msg_targets[Other(e)][m.id] \in Keys /\ m.key \in Keys
    BY <2>1, OtherEnd DEF TypeOK, IsMap, Message
  <2> QED BY <2>1, <2>2 DEF RegistrationInv, IdsInv, Resolves
<1> QED BY <1>1, TypeCorrect, Registrations, PTL

(***************************************************************************)
(* No target is registered twice on the stream of one session.             *)
(***************************************************************************)
THEOREM TargetsRegisteredOnce == Spec => []RegisteredOnce
<1>1. RegistrationInv => RegisteredOnce
  BY DEF RegistrationInv, StreamInv, StreamOK, RegisteredOnce, Joined, Running
<1> QED BY <1>1, Registrations, PTL
=============================================================================
