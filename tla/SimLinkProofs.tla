--------------------------- MODULE SimLinkProofs ---------------------------
(***************************************************************************)
(* Of any number of objects, calls and sessions: the chain of simulated    *)
(* links implements CallOrder, and a client's wrapper is set up as the     *)
(* game last said.                                                         *)
(***************************************************************************)
EXTENDS SimLink, OrderFacts

-----------------------------------------------------------------------------
\* What is picked out of a queue.

\* The recursion of Sift is that of a function that exists.
SiftStep(s, S, g, n) ==
    IF n = 0 THEN <<>> ELSE IF s[n] \in S THEN Append(g[n - 1], s[n]) ELSE g[n - 1]

IsSift(s, S, g, n) == g = [m \in 0 .. n |-> SiftStep(s, S, g, m)]

\* The least length with no such function has one: what Sift recurs over exists.
LEMMA SiftRecursion ==
    ASSUME NEW T, NEW s \in Seq(T), NEW S
    PROVE  \E g : IsSift(s, S, g, Len(s)) /\ Sift(s, S) = g[Len(s)]
PROOF
  <1>1. \E g : IsSift(s, S, g, Len(s))
    <2> DEFINE None == {n \in 0 .. Len(s) : ~\E g : IsSift(s, S, g, n)}
    <2>0. Len(s) \in Nat
      OBVIOUS
    <2> SUFFICES ASSUME Len(s) \in None PROVE FALSE
      BY <2>0
    <2>1. PICK n \in None : \A m \in None : n <= m
      <3>1. None \subseteq Nat /\ None # {}
        OBVIOUS
      <3> HIDE DEF None
      <3> QED BY <3>1, LeastExists
    <2>2. n # 0
      <3> DEFINE g == [m \in 0 .. 0 |-> <<>>]
      <3>1. IsSift(s, S, g, 0)
        BY DEF IsSift, SiftStep
      <3> HIDE DEF g
      <3> QED BY <3>1
    <2>3. n - 1 \in 0 .. Len(s) /\ n - 1 \notin None
      BY <2>0, <2>1, <2>2
    <2>4. PICK g : IsSift(s, S, g, n - 1)
      BY <2>3
    <2> DEFINE h == [m \in 0 .. n |-> SiftStep(s, S, g, m)]
    <2>5. n \in Nat
      BY <2>0
    <2>6. \A m \in 0 .. (n - 1) : g[m] = SiftStep(s, S, g, m)
      BY <2>4 DEF IsSift
    <2>7. \A m \in 0 .. (n - 1) : h[m] = g[m]
      BY <2>5, <2>6
    <2>8. ASSUME NEW m \in 0 .. n PROVE SiftStep(s, S, h, m) = SiftStep(s, S, g, m)
      <3>1. m = 0 \/ m - 1 \in 0 .. (n - 1)
        BY <2>5
      <3> HIDE DEF h
      <3> QED BY <2>7, <3>1 DEF SiftStep
    <2>9. IsSift(s, S, h, n)
      <3>1. h = [m \in 0 .. n |-> SiftStep(s, S, h, m)]
        BY <2>8
      <3> QED BY <3>1 DEF IsSift
    <2> HIDE DEF h
    <2> QED BY <2>1, <2>9
  <1> DEFINE g == CHOOSE g : IsSift(s, S, g, Len(s))
  <1>2. IsSift(s, S, g, Len(s))
    BY <1>1
  <1>3. Sift(s, S) = g[Len(s)]
    BY DEF Sift, IsSift, SiftStep
  <1> HIDE DEF g
  <1> QED BY <1>2, <1>3

\* What is picked out of a queue keeps its order.
LEMMA SiftFacts ==
    ASSUME NEW T, NEW s \in Seq(T), NEW S
    PROVE  /\ Sift(s, S) \in Seq(T)
           /\ Range(Sift(s, S)) = Range(s) \cap S
           /\ \A R : Sorted(s, R) => Sorted(Sift(s, S), R)
PROOF
  <1>1. PICK g : IsSift(s, S, g, Len(s)) /\ Sift(s, S) = g[Len(s)]
    BY SiftRecursion
  <1>2. \A m \in 0 .. Len(s) : g[m] = SiftStep(s, S, g, m)
    BY <1>1 DEF IsSift
  <1> DEFINE First(n) == {s[k] : k \in 1 .. n}
             Holds(n) == /\ g[n] \in Seq(T)
                         /\ Range(g[n]) = First(n) \cap S
                         /\ \A R : Sorted(s, R) => Sorted(g[n], R)
  <1>3. Len(s) \in Nat /\ DOMAIN s = 1 .. Len(s)
    OBVIOUS
  <1>4. Holds(Len(s))
    <2> DEFINE Fails == {n \in 0 .. Len(s) : ~Holds(n)}
    <2> SUFFICES ASSUME Len(s) \in Fails PROVE FALSE
      BY <1>3
    <2>1. PICK n \in Fails : \A m \in Fails : n <= m
      <3>1. Fails \subseteq Nat
        <4> HIDE DEF Holds
        <4> QED OBVIOUS
      <3> HIDE DEF Fails
      <3> QED BY <3>1, LeastExists
    <2>2. Holds(0)
      <3>1. g[0] = <<>>
        BY <1>2, <1>3 DEF SiftStep
      <3>2. First(0) = {} /\ Range(<<>>) = {} /\ \A R : Sorted(<<>>, R)
        BY DEF Range, Sorted
      <3> QED BY <3>1, <3>2
    <2>3. n \in Nat /\ n # 0 /\ n \in 1 .. Len(s) /\ n - 1 \in 0 .. Len(s) /\ n - 1 \notin Fails
      <3> HIDE DEF Holds
      <3> QED BY <1>3, <2>1, <2>2
    <2>4. Holds(n - 1)
      BY <2>3
    <2>5. g[n] = IF s[n] \in S THEN Append(g[n - 1], s[n]) ELSE g[n - 1]
      BY <1>2, <2>3 DEF SiftStep
    <2>6. First(n) = First(n - 1) \cup {s[n]}
      <3>1. 1 .. n = (1 .. (n - 1)) \cup {n}
        BY <2>3
      <3> QED BY ONLY <3>1
    <2>7. s[n] \in T
      BY <2>3
    <2>8. CASE s[n] \in S
      <3> DEFINE p == g[n - 1]
      <3>1. p \in Seq(T) /\ Range(p) = First(n - 1) \cap S
        BY <2>4
      <3>2. \A R : Sorted(s, R) => Sorted(p, R)
        BY <2>4
      <3>3. /\ Append(p, s[n]) \in Seq(T)
            /\ Range(Append(p, s[n])) = Range(p) \cup {s[n]}
            /\ \A R : Sorted(p, R) /\ Then(Range(p), {s[n]}, R) => Sorted(Append(p, s[n]), R)
        BY <2>7, <3>1, PutFacts
      <3>4. ASSUME NEW R, Sorted(s, R) PROVE Then(First(n - 1), {s[n]}, R)
        <4>1. \A k \in 1 .. (n - 1) : k \in DOMAIN s /\ n \in DOMAIN s /\ k < n
          BY <2>3, <1>3
        <4> QED BY ONLY <3>4, <4>1 DEF Sorted, Then
      <3>5. ASSUME NEW R, Sorted(s, R) PROVE Then(Range(p), {s[n]}, R)
        BY <3>1, <3>4, <3>5 DEF Then
      <3>6. g[n] = Append(p, s[n])
        BY <2>5, <2>8
      <3> HIDE DEF p, First
      <3>7. Holds(n)
        BY ONLY <2>6, <2>8, <3>1, <3>2, <3>3, <3>5, <3>6
      <3> QED BY <3>7, <2>1
    <2>9. CASE s[n] \notin S
      <3>1. Holds(n)
        <4>1. g[n] = g[n - 1] /\ First(n) \cap S = First(n - 1) \cap S
          BY <2>5, <2>6, <2>9
        <4> HIDE DEF First
        <4> QED BY ONLY <2>4, <4>1
      <3> QED BY <3>1, <2>1
    <2> QED BY <2>8, <2>9
  <1>5. First(Len(s)) = Range(s)
    BY <1>3 DEF Range
  <1> QED BY <1>1, <1>4, <1>5

-----------------------------------------------------------------------------
(***************************************************************************)
(* The inductive invariant.  A call stands at one place of the chain at    *)
(* most, and the places in the order the inner reads them are got, ready,  *)
(* late, arrived, stream, held.                                            *)
(***************************************************************************)
Calls == DOMAIN sent

Read    == Range(got)
Late    == Range(late["peer"]) \cup Range(late["mesh"])
Here    == Range(ready) \cup Late \cup Range(arrived)
Carried == Range(stream["peer"]) \cup Range(stream["mesh"])
Held    == Range(held["one"]) \cup Range(held["all"])

\* e may stand before i: it is not reliable as i is, along the same link,
\* or it is the earlier one, or it passed i when it was sent.
InOrder ==
    {p \in Calls \X Calls :
        /\ p[1] # p[2]
        /\ sent[p[1]].rel /\ sent[p[2]].rel /\ sent[p[1]].link = sent[p[2]].link
             => p[1] < p[2] \/ p[2] \in sent[p[1]].over}

Call == [link : Links, rel : BOOLEAN, obj : Objects \cup {"link", "none"},
         at : 0 .. MaxSessions, over : SUBSET (1 .. MaxSends)]

StateInv ==
    /\ role \in {"host", "client"}
    /\ alive \subseteq Objects
    /\ sent \in Seq(Call) /\ Len(sent) <= MaxSends
    /\ sim \in SendConfigs
    /\ recv_sim \in RecvConfigs /\ peer_sim \in RecvConfigs
    /\ conn \in BOOLEAN /\ parted_s \in BOOLEAN /\ parted_r \in BOOLEAN

QueuesInv ==
    /\ ready \in Seq(Calls) /\ arrived \in Seq(Calls) /\ got \in Seq(Calls)
    /\ late \in [Sources -> Seq(Calls)] /\ stream \in [Sources -> Seq(Calls)]
    /\ held \in [HeldLinks -> Seq(Calls)]
    /\ loose \subseteq Calls

SessionsInv ==
    /\ sess \in Nat /\ sess <= MaxSessions
    /\ conn => ~parted_s /\ ~parted_r

\* What a client's link holds was called since it last heard of an end, and
\* that is what it leaves behind when a session begins.
LeftInv ==
    /\ left \in [Links -> Nat] /\ heard \in Nat
    /\ left["all"] = 0 /\ heard <= Len(sent)
    /\ \A l \in Links : left[l] <= Len(sent)
    /\ role = "client" => /\ left["one"] <= heard /\ left["mesh"] <= heard
                          /\ \A i \in Range(held["one"]) : heard < i

\* What a session leaves behind.
RestInv ==
    /\ ~conn => stream["peer"] = <<>>
    /\ role = "client" => ready = <<>> /\ late["peer"] = <<>> /\ late["mesh"] = <<>>

CallsInv ==
    \A i \in Calls :
        /\ sent[i].at <= sess
        /\ sent[i].link # "mesh" => sent[i].obj \in Objects \cup {"link"}

\* Calls lie where their link leads, and their link is not too late for them.
PlacesInv ==
    /\ \A s \in Sources : \A i \in Range(late[s]) \cup Range(stream[s]) : From(i) = s
    /\ \A k \in HeldLinks : \A i \in Range(held[k]) : sent[i].link = k
    /\ \A i \in loose : ~Reliable(i) /\ From(i) = "peer"
    /\ \A i \in Here \cup Carried \cup loose \cup Held :
         left[sent[i].link] < i

SortedInv ==
    /\ Sorted(ready, InOrder) /\ Sorted(arrived, InOrder)
    /\ \A s \in Sources : Sorted(late[s], InOrder) /\ Sorted(stream[s], InOrder)
    /\ \A k \in HeldLinks : Sorted(held[k], InOrder)

ChainInv ==
    /\ Then(Read, Here \cup Carried \cup Held, InOrder)
    /\ Then(Range(ready), Late \cup Range(arrived) \cup Carried \cup Held, InOrder)
    /\ Then(Late, Range(arrived) \cup Carried \cup Held, InOrder)
    /\ Then(Range(arrived), Carried \cup Held, InOrder)
    /\ Then(Carried, Held, InOrder)
    /\ loose \cap (Read \cup Here \cup Carried \cup Held) = {}

\* The calls of link l that have to come.
Due(l) == {e \in Calls : /\ sent[e].link = l /\ sent[e].rel
                         /\ sent[e].at = sess /\ left[l] < e
                         /\ sent[e].obj \notin Objects \ alive}

\* They are on their way while the connection lasts; once it is down, what
\* still comes is owed nothing that was left behind.
ComingInv ==
    /\ conn => \A k \in HeldLinks :
                 Due(k) \subseteq Read \cup Here \cup Range(stream["peer"]) \cup Range(held[k])
    /\ ~parted_r => Due("mesh") \subseteq Read \cup Here \cup Range(stream["mesh"])
    /\ ~conn /\ ~parted_r =>
         \A i \in Here : Reliable(i) /\ sent[i].link # "mesh"
                           => Order!Before(i) \subseteq Read \cup Here

IInv == StateInv /\ QueuesInv /\ SessionsInv /\ LeftInv /\ RestInv /\ CallsInv
        /\ PlacesInv /\ SortedInv /\ ChainInv /\ ComingInv

-----------------------------------------------------------------------------
\* The order itself.

LEMMA Apart ==
    ASSUME NEW e \in Calls, NEW i \in Calls,
           e # i, ~sent[e].rel \/ ~sent[i].rel \/ sent[e].link # sent[i].link
    PROVE  <<e, i>> \in InOrder
BY DEF InOrder

LEMMA FromApart ==
    ASSUME NEW e \in Calls, NEW i \in Calls, From(e) # From(i)
    PROVE  <<e, i>> \in InOrder
PROOF
  <1>1. e # i /\ sent[e].link # sent[i].link
    BY DEF From
  <1> QED BY <1>1, Apart

\* What the order says of two calls.
LEMMA Ordered ==
    ASSUME NEW e, NEW i, <<e, i>> \in InOrder
    PROVE  /\ e \in Calls /\ i \in Calls /\ e # i
           /\ sent[e].rel /\ sent[i].rel /\ sent[e].link = sent[i].link
                => e < i \/ i \in sent[e].over
BY DEF InOrder

\* Of fewer calls.
LEMMA Thens ==
    ASSUME NEW R, NEW P, NEW Q, NEW P1, NEW Q1,
           Then(P, Q, R), P1 \subseteq P, Q1 \subseteq Q
    PROVE  Then(P1, Q1, R)
BY DEF Then

\* A call that is made: what that does to the calls and their order.
LEMMA MadeFacts ==
    ASSUME StateInv, NEW k \in Links, NEW rel \in BOOLEAN,
           NEW o \in Objects \cup {"link", "none"}, NEW over \in SUBSET Calls,
           SessionsInv, Len(sent) < MaxSends, Made(k, rel, o, over)
    PROVE  LET n == Len(sent) + 1
           IN  /\ n \in Nat /\ n \notin Calls /\ Calls' = Calls \cup {n}
               /\ sent' \in Seq(Call) /\ Len(sent') <= MaxSends
               /\ \A i \in Calls : i < n /\ sent'[i] = sent[i]
               /\ sent'[n] = [link |-> k, rel |-> rel, obj |-> o, at |-> sess,
                              over |-> over]
               /\ InOrder \subseteq InOrder'
               /\ \A i \in Calls : <<i, n>> \in InOrder'
               /\ \A i \in Calls : i \in over \/ ~rel \/ sent[i].link # k
                                     => <<n, i>> \in InOrder'
PROOF
  <1> DEFINE n == Len(sent) + 1
             c == [link |-> k, rel |-> rel, obj |-> o, at |-> sess, over |-> over]
  <1>0. Len(sent) \in Nat /\ Calls = 1 .. Len(sent)
    BY DEF StateInv, Calls
  <1>1. sent' = Append(sent, c)
    BY DEF Made
  <1>2. c \in Call
    <2>1. sess \in 0 .. MaxSessions
      BY BoundsAssumption DEF SessionsInv
    <2>2. over \in SUBSET (1 .. MaxSends)
      BY <1>0, BoundsAssumption DEF StateInv
    <2> HIDE DEF c
    <2>3. c = [link |-> k, rel |-> rel, obj |-> o, at |-> sess, over |-> over]
      BY DEF c
    <2> QED BY ONLY <2>1, <2>2, <2>3, k \in Links, rel \in BOOLEAN,
                    o \in Objects \cup {"link", "none"} DEF Call
  <1> HIDE DEF c
  <1>3. sent' \in Seq(Call) /\ Len(sent') = n
    BY <1>1, <1>2 DEF StateInv
  <1>4. Calls' = 1 .. n /\ sent'[n] = c /\ \A i \in 1 .. Len(sent) : sent'[i] = sent[i]
    BY <1>1, <1>2 DEF StateInv, Calls
  <1>5. Calls' = Calls \cup {n} /\ n \notin Calls /\ n \in Nat /\ \A i \in Calls : i < n
    BY ONLY <1>0, <1>4
  <1>6. Len(sent') <= MaxSends
    BY <1>0, <1>3, BoundsAssumption
  <1>7. c.link = k /\ c.rel = rel /\ c.over = over
    BY DEF c
  <1>8. \A i \in Calls : sent'[i] = sent[i]
    BY <1>0, <1>4
  <1>9. sent'[n] = c
    BY <1>4
  <1> HIDE DEF n
  <1>10. InOrder \subseteq InOrder'
    BY ONLY <1>5, <1>8 DEF InOrder
  <1>11. \A i \in Calls : <<i, n>> \in InOrder'
    BY ONLY <1>5, <1>8 DEF InOrder
  <1>12. \A i \in Calls : i \in over \/ ~rel \/ sent[i].link # k => <<n, i>> \in InOrder'
    BY ONLY <1>5, <1>7, <1>8, <1>9 DEF InOrder
  <1> QED BY <1>3, <1>5, <1>6, <1>8, <1>9, <1>10, <1>11, <1>12 DEF n, c

\* inner->rpc takes the reliable ones behind what the transport has, and the
\* others among the loose ones, or nothing at all.
LEMMA RpcFacts ==
    ASSUME NEW T, NEW s \in Seq(T), NEW calls, InnerRpc(s, calls),
           stream \in [Sources -> Seq(T)]
    PROVE  \/ ~conn /\ stream' = stream /\ loose' = loose
           \/ /\ conn
              /\ loose' = loose \cup {i \in Range(s) : ~calls[i].rel}
              /\ stream' \in [Sources -> Seq(T)]
              /\ stream'["mesh"] = stream["mesh"]
              /\ Range(stream'["peer"])
                   = Range(stream["peer"]) \cup {i \in Range(s) : calls[i].rel}
              /\ \A R : Sorted(stream["peer"], R) /\ Sorted(s, R)
                          /\ Then(Range(stream["peer"]), Range(s), R)
                        => Sorted(stream'["peer"], R)
PROOF
  <1>1. CASE ~conn
    BY <1>1 DEF InnerRpc, air
  <1>2. CASE conn
    <2> DEFINE rels == {i \in Range(s) : calls[i].rel}
               q == Sift(s, rels)
               p == stream["peer"]
    <2>1. stream' = [stream EXCEPT !["peer"] = p \o q]
      BY <1>2 DEF InnerRpc
    <2>2. loose' = loose \cup {i \in Range(s) : ~calls[i].rel}
      BY <1>2 DEF InnerRpc
    <2>3. q \in Seq(T) /\ Range(q) = Range(s) \cap rels
          /\ \A R : Sorted(s, R) => Sorted(q, R)
      <3> HIDE DEF rels
      <3> QED BY SiftFacts
    <2>4. p \in Seq(T) /\ {"peer", "mesh"} = Sources
      BY DEF Sources
    <2> HIDE DEF p, q
    <2>5. /\ p \o q \in Seq(T)
          /\ Range(p \o q) = Range(p) \cup Range(q)
          /\ \A R : Sorted(p, R) /\ Sorted(q, R) /\ Then(Range(p), Range(q), R)
                      => Sorted(p \o q, R)
      BY <2>3, <2>4, JoinFacts
    <2> DEFINE pq == p \o q
    <2> HIDE DEF pq
    <2>6. stream' = [stream EXCEPT !["peer"] = pq]
      BY <2>1 DEF pq
    <2>7. pq \in Seq(T)
      BY <2>5 DEF pq
    <2>8. /\ stream' \in [Sources -> Seq(T)] /\ stream'["mesh"] = stream["mesh"]
          /\ stream'["peer"] = pq
      BY ONLY <2>4, <2>6, <2>7, stream \in [Sources -> Seq(T)]
    <2>9. Range(pq) = Range(p) \cup rels
      BY <2>3, <2>5 DEF pq
    <2>10. ASSUME NEW R, Sorted(p, R), Sorted(s, R), Then(Range(p), Range(s), R)
           PROVE  Sorted(pq, R)
      <3>1. Then(Range(p), Range(q), R)
        BY ONLY <2>3, <2>10 DEF Then
      <3> QED BY ONLY <2>3, <2>5, <2>10, <3>1 DEF pq
    <2> QED BY <1>2, <2>2, <2>8, <2>9, <2>10 DEF p
  <1> QED BY <1>1, <1>2

\* Every place has calls.
LEMMA QueueTypes ==
    ASSUME QueuesInv
    PROVE  /\ \A s \in Sources : late[s] \in Seq(Calls) /\ stream[s] \in Seq(Calls)
           /\ \A k \in HeldLinks : held[k] \in Seq(Calls)
           /\ Read \subseteq Calls /\ Here \subseteq Calls /\ Carried \subseteq Calls
           /\ Held \subseteq Calls
PROOF
  <1>1. \A q \in Seq(Calls) : Range(q) \subseteq Calls
    BY DEF Range
  <1>2. \A s \in Sources : late[s] \in Seq(Calls) /\ stream[s] \in Seq(Calls)
    BY DEF QueuesInv
  <1>3. \A k \in HeldLinks : held[k] \in Seq(Calls)
    BY DEF QueuesInv
  <1>4. ready \in Seq(Calls) /\ arrived \in Seq(Calls) /\ got \in Seq(Calls)
    BY DEF QueuesInv
  <1>5. "peer" \in Sources /\ "mesh" \in Sources /\ "one" \in HeldLinks /\ "all" \in HeldLinks
    BY DEF Sources, HeldLinks
  <1> QED BY ONLY <1>1, <1>2, <1>3, <1>4, <1>5 DEF Read, Late, Here, Carried, Held

LEMMA EmptyRange == ASSUME NEW T, NEW q \in Seq(T), Range(q) = {} PROVE q = <<>>
BY DEF Range

LEMMA NothingIn == Range(<<>>) = {} /\ \A R : Sorted(<<>>, R)
BY DEF Range, Sorted

\* The calls before one are those due of its link, but for the ones it passed.
LEMMA DueBefore ==
    ASSUME StateInv, NEW i \in Calls
    PROVE  /\ i \in Nat
           /\ Order!Before(i) = {e \in Due(sent[i].link) : e < i /\ e \notin sent[i].over}
PROOF
  <1>1. Calls = 1 .. Len(sent) /\ Len(sent) \in Nat
    BY DEF StateInv, Calls
  <1> QED BY <1>1 DEF Order!Before, Due

\* Nothing at the receiving end waits for what is not there.
LEMMA BeforeHere ==
    ASSUME IInv, ~parted_r, NEW i \in Here, Reliable(i)
    PROVE  Order!Before(i) \subseteq Read \cup Here
PROOF
  <1>1. i \in Calls
    BY QueueTypes DEF IInv
  <1>2. CASE sent[i].link # "mesh" /\ ~conn
    BY <1>2 DEF IInv, ComingInv
  <1>3. CASE sent[i].link = "mesh" \/ conn
    <2> SUFFICES ASSUME NEW e \in Order!Before(i) PROVE e \in Read \cup Here
      OBVIOUS
    <2>1. e \in Due(sent[i].link) /\ e < i /\ e \notin sent[i].over
      BY <1>1, DueBefore DEF IInv
    <2>2. e \in Calls /\ sent[e].link = sent[i].link /\ sent[e].rel /\ sent[i].rel
      BY <2>1 DEF Due, Reliable
    <2>3. e \in Read \cup Here \cup Carried \cup Held
      <3>1. sent[i].link \in HeldLinks \cup {"mesh"}
        <4>1. sent[i] \in Call
          BY <1>1 DEF IInv, StateInv, Calls
        <4> QED BY <4>1 DEF Call, Links
      <3>2. CASE sent[i].link = "mesh"
        BY <2>1, <3>2 DEF IInv, ComingInv, Carried
      <3>3. CASE sent[i].link \in HeldLinks /\ conn
        BY <2>1, <3>3 DEF IInv, ComingInv, Carried, Held, HeldLinks
      <3> QED BY <1>3, <3>1, <3>2, <3>3
    <2>4. e \notin Carried \cup Held
      <3> SUFFICES ASSUME e \in Carried \cup Held PROVE FALSE
        OBVIOUS
      <3>1. <<i, e>> \in InOrder
        BY DEF IInv, ChainInv, Here, Then
      <3>2. i < e \/ e \in sent[i].over
        BY <2>2, <3>1, Ordered
      <3>3. e \in Nat /\ i \in Nat
        BY <1>1, <2>2, DueBefore DEF IInv
      <3> QED BY <2>1, <3>2, <3>3
    <2> QED BY <2>3, <2>4
  <1> QED BY <1>2, <1>3

\* Steps at which no end is heard of and no session begins.
LEMMA LeftHolds ==
    ASSUME IInv, UNCHANGED <<role, heard, left>>, Len(sent') \in Nat, Len(sent) <= Len(sent'),
           \A i \in Range(held'["one"]) : i \in Range(held["one"]) \/ i = Len(sent) + 1
    PROVE  LeftInv'
PROOF
  <1>1. Len(sent) \in Nat /\ LeftInv
    BY DEF IInv, StateInv
  <1>2. \A l \in Links : left[l] \in Nat
    BY <1>1 DEF LeftInv
  <1>3. \A l \in Links : left[l] <= Len(sent')
    BY <1>1, <1>2 DEF LeftInv
  <1>4. heard \in Nat /\ heard <= Len(sent')
    BY <1>1 DEF LeftInv
  <1>5. role = "client" => \A i \in Range(held'["one"]) : heard < i
    BY <1>1, <1>4 DEF LeftInv
  <1> QED BY <1>1, <1>3, <1>4, <1>5 DEF LeftInv

-----------------------------------------------------------------------------
\* Init, and the steps that leave the queues alone.

\* At first no call is made.
LEMMA InitHolds == Init => IInv
PROOF
  <1> SUFFICES ASSUME Init PROVE IInv
    OBVIOUS
  <1> USE DEF Init
  <1>1. Calls = {} /\ Len(sent) = 0
    BY DEF Calls
  <1>2. StateInv
    <2>1. sent \in Seq(Call) /\ Len(sent) <= MaxSends
      BY <1>1, BoundsAssumption
    <2>2. sim \in SendConfigs /\ recv_sim \in RecvConfigs /\ peer_sim \in RecvConfigs
      BY ConfigsAssumption
    <2>3. conn \in BOOLEAN /\ parted_s \in BOOLEAN /\ parted_r \in BOOLEAN
      OBVIOUS
    <2> QED BY <2>1, <2>2, <2>3 DEF StateInv
  <1>3. <<>> \in Seq(Calls)
    OBVIOUS
  <1>4. QueuesInv
    BY <1>3 DEF QueuesInv
  <1>5. SessionsInv /\ RestInv /\ LeftInv
    <2>1. SessionsInv /\ RestInv
      BY BoundsAssumption DEF SessionsInv, RestInv, Sources
    <2>2. LeftInv
      BY <1>1, NothingIn DEF LeftInv, Links, HeldLinks
    <2> QED BY <2>1, <2>2
  <1>6. CallsInv
    BY <1>1 DEF CallsInv
  <1>7. \A s \in Sources : late[s] = <<>> /\ stream[s] = <<>>
    OBVIOUS
  <1>8. \A k \in HeldLinks : held[k] = <<>>
    OBVIOUS
  <1>9. SortedInv
    BY <1>7, <1>8, NothingIn DEF SortedInv
  <1>10. Read = {} /\ Here = {} /\ Carried = {} /\ Held = {} /\ Late = {}
         /\ Range(ready) = {} /\ Range(arrived) = {}
    BY <1>7, <1>8, NothingIn DEF Read, Here, Carried, Held, Late, Sources, HeldLinks
  <1>11. PlacesInv
    BY <1>7, <1>8, <1>10, NothingIn DEF PlacesInv
  <1>12. ChainInv
    BY <1>10 DEF ChainInv, Then
  <1>13. ComingInv
    BY <1>10 DEF ComingInv
  <1> QED BY <1>2, <1>4, <1>5, <1>6, <1>9, <1>11, <1>12, <1>13 DEF IInv

queues == <<got, held, stream, loose, arrived, late, ready>>

\* Steps that move no call: the game frees an object, or sets a configuration.
LEMMA QuietHolds ==
    ASSUME IInv, UNCHANGED <<role, sent, sess, heard, left, conn, parted_s, parted_r>>,
           UNCHANGED queues, alive' \subseteq alive,
           sim' \in SendConfigs, recv_sim' \in RecvConfigs, peer_sim' \in RecvConfigs
    PROVE  IInv'
PROOF
  <1>0. /\ role' = role /\ sent' = sent /\ sess' = sess /\ left' = left /\ conn' = conn
        /\ parted_s' = parted_s /\ parted_r' = parted_r
        /\ got' = got /\ held' = held /\ stream' = stream /\ loose' = loose
        /\ arrived' = arrived /\ late' = late /\ ready' = ready
    BY DEF queues
  <1>1. /\ Calls' = Calls /\ Read' = Read /\ Late' = Late /\ Here' = Here
        /\ Carried' = Carried /\ Held' = Held
    BY <1>0 DEF Calls, Read, Late, Here, Carried, Held
  <1>2. InOrder' = InOrder
    BY <1>0, <1>1 DEF InOrder
  <1>3. StateInv'
    BY <1>0 DEF IInv, StateInv
  <1>4. QueuesInv'
    BY <1>0, <1>1 DEF IInv, QueuesInv
  <1>5. SessionsInv' /\ RestInv' /\ LeftInv'
    <2>1. SessionsInv' /\ RestInv'
      BY <1>0 DEF IInv, SessionsInv, RestInv
    <2>2. LeftInv'
      BY <1>0 DEF IInv, LeftInv
    <2> QED BY <2>1, <2>2
  <1>6. CallsInv'
    BY <1>0, <1>1 DEF IInv, CallsInv
  <1>7. PlacesInv'
    BY <1>0, <1>1 DEF IInv, PlacesInv, From, Reliable
  <1>8. SortedInv'
    BY <1>0, <1>2 DEF IInv, SortedInv
  <1>9. ChainInv'
    BY <1>0, <1>1, <1>2 DEF IInv, ChainInv
  <1>10. ComingInv'
    <2>1. \A l : Due(l)' \subseteq Due(l)
      <3> SUFFICES ASSUME NEW l, NEW e \in Due(l)' PROVE e \in Due(l)
        OBVIOUS
      <3>1. sent[e].obj \in Objects => sent[e].obj \in alive
        BY <1>0 DEF Due
      <3>2. sent[e].obj \notin Objects \ alive
        BY <3>1
      <3> QED BY <1>0, <1>1, <3>2 DEF Due
    <2>2. \A i \in Here : Order!Before(i)' \subseteq Order!Before(i)
      <3> SUFFICES ASSUME NEW i \in Here PROVE Order!Before(i)' \subseteq Order!Before(i)
        OBVIOUS
      <3>1. i \in Calls
        BY QueueTypes DEF IInv
      <3> QED BY <1>0, <3>1 DEF Order!Before
    <2> QED BY <1>0, <1>1, <2>1, <2>2 DEF IInv, ComingInv, Reliable
  <1> QED BY <1>3, <1>4, <1>5, <1>6, <1>7, <1>8, <1>9, <1>10 DEF IInv

-----------------------------------------------------------------------------
\* Steps by which queues lose some of what they hold.

\* The calls stay, and no queue has more than it had.
Shrinks ==
    /\ sent' = sent /\ got' = got /\ loose' \subseteq loose
    /\ QueuesInv' /\ SortedInv'
    /\ Range(ready') \subseteq Range(ready) /\ Range(arrived') \subseteq Range(arrived)
    /\ \A s \in Sources : /\ Range(late'[s]) \subseteq Range(late[s])
                          /\ Range(stream'[s]) \subseteq Range(stream[s])
    /\ \A k \in HeldLinks : Range(held'[k]) \subseteq Range(held[k])

\* The order is of the calls made.
LEMMA SameCalls ==
    ASSUME sent' = sent
    PROVE  Calls' = Calls /\ InOrder' = InOrder
BY DEF Calls, InOrder

\* Places that lose calls stay in order.
LEMMA ShrinkFacts ==
    ASSUME IInv, Shrinks
    PROVE  /\ Calls' = Calls /\ InOrder' = InOrder /\ Read' = Read
           /\ Late' \subseteq Late /\ Here' \subseteq Here /\ Carried' \subseteq Carried
           /\ Held' \subseteq Held
           /\ ChainInv'
           /\ sess' = sess /\ left' = left => CallsInv' /\ PlacesInv'
PROOF
  <1>0. "peer" \in Sources /\ "mesh" \in Sources /\ "one" \in HeldLinks /\ "all" \in HeldLinks
    BY DEF Sources, HeldLinks
  <1>1. Calls' = Calls /\ InOrder' = InOrder
    BY SameCalls DEF Shrinks
  <1>2. /\ Read' = Read /\ Late' \subseteq Late /\ Here' \subseteq Here
        /\ Carried' \subseteq Carried /\ Held' \subseteq Held
    BY <1>0 DEF Shrinks, Read, Late, Here, Carried, Held
  <1>3. ChainInv'
    <2>1. ChainInv
      BY DEF IInv
    <2>2. Range(ready') \subseteq Range(ready) /\ Range(arrived') \subseteq Range(arrived)
          /\ loose' \subseteq loose
      BY DEF Shrinks
    <2> QED BY ONLY <1>1, <1>2, <2>1, <2>2 DEF ChainInv, Then
  <1>4. ASSUME sess' = sess, left' = left PROVE CallsInv' /\ PlacesInv'
    <2>1. CallsInv'
      BY <1>1, <1>4 DEF IInv, Shrinks, CallsInv
    <2>2. PlacesInv'
      BY <1>2, <1>4 DEF IInv, Shrinks, PlacesInv, From, Reliable
    <2> QED BY <2>1, <2>2
  <1> QED BY <1>1, <1>2, <1>3, <1>4

\* A connection that is down: what was at the receiving end, and is still
\* owed nothing.
LEMMA DownHolds ==
    ASSUME IInv, sent' = sent, sess' = sess, left' = left, alive' = alive, got' = got,
           conn' = FALSE,
           UNCHANGED <<ready, late, arrived>>, stream'["mesh"] = stream["mesh"],
           ~parted_r' => ~parted_r
    PROVE  ComingInv'
PROOF
  <1>1. Calls' = Calls /\ Read' = Read /\ Here' = Here
    BY SameCalls DEF Read, Here, Late
  <1>2. \A l : Due(l)' = Due(l)
    BY <1>1 DEF Due
  <1>3. \A i : Order!Before(i)' = Order!Before(i)
    BY DEF Order!Before
  <1>4. ASSUME ~parted_r', NEW i \in Here, Reliable(i)
        PROVE  Order!Before(i) \subseteq Read \cup Here
    BY <1>4, BeforeHere
  <1>5. ~parted_r' => Due("mesh") \subseteq Read \cup Here \cup Range(stream["mesh"])
    BY DEF IInv, ComingInv
  <1>6. Reliable(1)' = Reliable(1) /\ \A i : Reliable(i)' = Reliable(i)
    BY DEF Reliable
  <1> QED BY <1>1, <1>2, <1>3, <1>4, <1>5, <1>6 DEF ComingInv

\* The sender hears of the disconnect and forgets what its link holds.
LEMMA SenderHearsHolds ==
    ASSUME IInv, SenderHears
    PROVE  IInv'
PROOF
  <1> USE DEF SenderHears, ForgetLink, Configs, air, wrapper
  <1>1. held' \in [HeldLinks -> Seq(Calls)] /\ held'["one"] = <<>> /\ held'["all"] = held["all"]
    BY DEF IInv, QueuesInv, HeldLinks
  <1>2. Calls' = Calls /\ InOrder' = InOrder
    BY SameCalls
  <1>3. QueuesInv'
    BY <1>1, <1>2 DEF IInv, QueuesInv
  <1>4. SortedInv'
    BY <1>1, <1>2, NothingIn DEF IInv, SortedInv, HeldLinks
  <1>5. Shrinks
    BY <1>1, <1>3, <1>4, NothingIn DEF Shrinks, HeldLinks
  <1>6. StateInv' /\ SessionsInv' /\ RestInv' /\ LeftInv'
    <2>1. StateInv' /\ SessionsInv' /\ RestInv'
      BY <1>1 DEF IInv, StateInv, SessionsInv, RestInv
    <2>2. Len(sent) \in Nat /\ LeftInv
      BY DEF IInv, StateInv
    <2>3. /\ role' = role /\ left' = left /\ sent' = sent /\ Range(held'["one"]) = {}
          /\ heard' = IF role = "client" THEN Len(sent) ELSE heard
      BY <1>1, NothingIn
    <2>4. "one" \in Links /\ "mesh" \in Links
      BY DEF Links, HeldLinks
    <2>5. LeftInv'
      BY ONLY <2>2, <2>3, <2>4 DEF LeftInv
    <2> QED BY <2>1, <2>5
  <1>7. ComingInv'
    <2>1. /\ sent' = sent /\ sess' = sess /\ left' = left /\ alive' = alive /\ got' = got
          /\ UNCHANGED <<ready, late, arrived>> /\ stream'["mesh"] = stream["mesh"]
          /\ ~parted_r' => ~parted_r
      OBVIOUS
    <2>2. conn' = conn /\ conn \in BOOLEAN /\ ~conn
      BY DEF IInv, StateInv
    <2>3. conn' = FALSE
      BY ONLY <2>2
    <2> QED BY ONLY IInv, <2>1, <2>3, DownHolds
  <1> QED BY <1>3, <1>4, <1>5, <1>6, <1>7, ShrinkFacts DEF IInv

\* The connection goes, and what it carried.
LEMMA LossHolds ==
    ASSUME IInv, conn, conn' = FALSE, parted_s' \in BOOLEAN,
           UNCHANGED <<role, alive, sent, sess, heard, left, sim, recv_sim, peer_sim, parted_r,
                       arrived, late, ready, got>>,
           stream' = [stream EXCEPT !["peer"] = <<>>], loose' \subseteq loose,
           \/ held' = [held EXCEPT !["one"] = <<>>]
           \/ held' = held /\ parted_s' = parted_s
    PROVE  IInv'
PROOF
  <1>1. /\ held' \in [HeldLinks -> Seq(Calls)] /\ held'["all"] = held["all"]
        /\ \/ held'["one"] = <<>>
           \/ held' = held /\ parted_s' = parted_s
    <2>1. held \in [HeldLinks -> Seq(Calls)] /\ <<>> \in Seq(Calls)
      BY DEF IInv, QueuesInv
    <2>2. CASE held' = [held EXCEPT !["one"] = <<>>]
      BY <2>1, <2>2 DEF HeldLinks
    <2>3. CASE held' = held /\ parted_s' = parted_s
      BY <2>1, <2>3
    <2> QED BY <2>2, <2>3
  <1>2. /\ stream' \in [Sources -> Seq(Calls)] /\ stream'["peer"] = <<>>
        /\ stream'["mesh"] = stream["mesh"]
    BY DEF IInv, QueuesInv, Sources
  <1>3. Calls' = Calls /\ InOrder' = InOrder
    BY SameCalls
  <1>4. QueuesInv'
    BY <1>1, <1>2, <1>3 DEF IInv, QueuesInv
  <1>5. SortedInv'
    BY <1>1, <1>2, <1>3, NothingIn DEF IInv, SortedInv, HeldLinks, Sources
  <1>6. Shrinks
    BY <1>1, <1>2, <1>4, <1>5, NothingIn DEF Shrinks, HeldLinks, Sources
  <1>7. StateInv' /\ SessionsInv' /\ RestInv' /\ LeftInv'
    <2>1. StateInv'
      BY DEF IInv, StateInv
    <2>2. SessionsInv'
      BY DEF IInv, SessionsInv
    <2>3. RestInv'
      BY <1>1, <1>2 DEF IInv, RestInv
    <2>4. LeftInv'
      <3>1. Len(sent') \in Nat /\ Len(sent) <= Len(sent')
        BY DEF IInv, StateInv
      <3>2. Range(held'["one"]) \subseteq Range(held["one"])
        BY <1>1, NothingIn
      <3> QED BY <3>1, <3>2, LeftHolds
    <2> QED BY <2>1, <2>2, <2>3, <2>4
  <1>8. ComingInv'
    BY <1>2, DownHolds
  <1> QED BY <1>4, <1>5, <1>6, <1>7, <1>8, ShrinkFacts DEF IInv

\* The receiver hears of the disconnect.
LEMMA ReceiverHearsHolds ==
    ASSUME IInv, ReceiverHears
    PROVE  IInv'
PROOF
  <1> DEFINE other == {i \in Range(ready) : From(i) # "peer"}
  <1>0. /\ UNCHANGED <<role, alive, sent, sim, held, sess, heard, left, conn, parted_s,
                       stream, loose, recv_sim, peer_sim, got>>
        /\ ~conn /\ ~parted_r /\ parted_r' = TRUE /\ arrived' = <<>>
        /\ late' = [late EXCEPT !["peer"] = <<>>]
        /\ ready' = Sift(ready, other)
    BY DEF ReceiverHears, PeerGone, Without, sending, session, air
  <1> HIDE DEF other
  <1>1. /\ late' \in [Sources -> Seq(Calls)] /\ late'["peer"] = <<>>
        /\ late'["mesh"] = late["mesh"]
    BY <1>0 DEF IInv, QueuesInv, Sources
  <1>2. Calls' = Calls /\ InOrder' = InOrder
    BY <1>0, SameCalls
  <1>3. ready \in Seq(Calls)
    BY DEF IInv, QueuesInv
  <1>4. /\ ready' \in Seq(Calls) /\ Range(ready') = Range(ready) \cap other
        /\ \A R : Sorted(ready, R) => Sorted(ready', R)
    BY <1>0, <1>3, SiftFacts
  <1>5. QueuesInv'
    <2>1. <<>> \in Seq(Calls)
      OBVIOUS
    <2> QED BY <1>0, <1>1, <1>2, <1>4, <2>1 DEF IInv, QueuesInv
  <1>6. SortedInv'
    BY <1>0, <1>1, <1>2, <1>4, NothingIn DEF IInv, SortedInv, Sources
  <1>7. Shrinks
    BY <1>0, <1>1, <1>4, <1>5, <1>6, NothingIn DEF Shrinks, Sources
  <1>8. StateInv' /\ SessionsInv' /\ LeftInv'
    BY <1>0 DEF IInv, StateInv, SessionsInv, LeftInv
  <1>9. RestInv'
    <2>1. ready = <<>> => ready' = <<>>
      <3>1. ready = <<>> => Range(ready') = {}
        BY <1>4, NothingIn
      <3> QED BY <1>4, <3>1 DEF Range
    <2> QED BY <1>0, <1>1, <2>1 DEF IInv, RestInv
  <1>10. ComingInv'
    <2>1. conn' = FALSE
      BY <1>0 DEF IInv, StateInv
    <2> QED BY <1>0, <2>1 DEF ComingInv
  <1> QED BY <1>0, <1>5, <1>6, <1>7, <1>8, <1>9, <1>10, ShrinkFacts DEF IInv

\* The other peer leaves: what it sent and is not read yet goes.
LEMMA MeshLeavesHolds ==
    ASSUME IInv, MeshLeaves
    PROVE  IInv' /\ Order!Sessions
PROOF
  <1> DEFINE there == {i \in Range(ready) : From(i) # "mesh"}
             come  == {i \in Range(arrived) : From(i) # "mesh"}
  <1>0. /\ UNCHANGED <<role, alive, sent, sim, held, sess, heard, conn, parted_s, parted_r,
                       loose, recv_sim, peer_sim, got>>
        /\ role = "host" /\ ~parted_r
        /\ late' = [late EXCEPT !["mesh"] = <<>>]
        /\ stream' = [stream EXCEPT !["mesh"] = <<>>]
        /\ left' = [left EXCEPT !["mesh"] = Len(sent)]
        /\ ready' = Sift(ready, there) /\ arrived' = Sift(arrived, come)
    BY DEF MeshLeaves, PeerGone, Without, sending
  <1> HIDE DEF there, come
  <1>1. /\ late' \in [Sources -> Seq(Calls)] /\ late'["mesh"] = <<>>
        /\ late'["peer"] = late["peer"]
    BY <1>0 DEF IInv, QueuesInv, Sources
  <1>2. /\ stream' \in [Sources -> Seq(Calls)] /\ stream'["mesh"] = <<>>
        /\ stream'["peer"] = stream["peer"]
    BY <1>0 DEF IInv, QueuesInv, Sources
  <1>3. Calls' = Calls /\ InOrder' = InOrder
    BY <1>0, SameCalls
  <1>4. ready \in Seq(Calls) /\ arrived \in Seq(Calls)
    BY DEF IInv, QueuesInv
  <1>5. /\ ready' \in Seq(Calls) /\ Range(ready') = Range(ready) \cap there
        /\ \A R : Sorted(ready, R) => Sorted(ready', R)
    BY <1>0, <1>4, SiftFacts
  <1>6. /\ arrived' \in Seq(Calls) /\ Range(arrived') = Range(arrived) \cap come
        /\ \A R : Sorted(arrived, R) => Sorted(arrived', R)
    BY <1>0, <1>4, SiftFacts
  <1>7. QueuesInv'
    BY <1>0, <1>1, <1>2, <1>3, <1>5, <1>6 DEF IInv, QueuesInv
  <1>8. SortedInv'
    BY <1>0, <1>1, <1>2, <1>3, <1>5, <1>6, NothingIn DEF IInv, SortedInv, Sources
  <1>9. Shrinks
    BY <1>0, <1>1, <1>2, <1>5, <1>6, <1>7, <1>8, NothingIn DEF Shrinks, Sources
  <1>10. /\ left' \in [Links -> 0 .. Len(sent)] /\ left'["mesh"] = Len(sent)
         /\ \A k \in HeldLinks : left'[k] = left[k]
         /\ \A l \in Links : left'[l] >= left[l]
         /\ Len(sent) \in Nat /\ left'["all"] = 0
    <2>1. Len(sent) \in Nat /\ left \in [Links -> Nat] /\ left["all"] = 0
          /\ \A l \in Links : left[l] <= Len(sent)
      BY DEF IInv, StateInv, LeftInv
    <2>2. \A l \in Links : left[l] \in 0 .. Len(sent)
      BY <2>1
    <2>3. \A l \in Links : left'[l] = IF l = "mesh" THEN Len(sent) ELSE left[l]
      BY <1>0, <2>1
    <2>4. left' \in [Links -> 0 .. Len(sent)]
      <3> DEFINE n == Len(sent)
      <3>1. n \in 0 .. Len(sent)
        BY <2>1
      <3> HIDE DEF n
      <3>2. left' = [left EXCEPT !["mesh"] = n]
        BY <1>0 DEF n
      <3> QED BY <2>1, <2>2, <3>1, <3>2
    <2>5. \A l \in Links : left'[l] >= left[l]
      BY <2>1, <2>2, <2>3
    <2> QED BY <2>1, <2>3, <2>4, <2>5 DEF Links, HeldLinks
  <1>11. StateInv'
    BY <1>0 DEF IInv, StateInv
  <1>12. SessionsInv' /\ RestInv' /\ LeftInv'
    <2>1. SessionsInv'
      BY <1>0 DEF IInv, SessionsInv
    <2>2. RestInv'
      BY <1>0, <1>2 DEF IInv, RestInv
    <2>3. left' \in [Links -> Nat] /\ \A l \in Links : left'[l] <= Len(sent)
      <3>1. 0 .. Len(sent) \subseteq Nat
        BY <1>10
      <3> QED BY <1>10, <3>1
    <2>4. LeftInv'
      BY <1>0, <1>10, <2>3 DEF IInv, LeftInv
    <2> QED BY <2>1, <2>2, <2>4
  <1>13. \A i \in Calls : /\ sent[i] \in Call /\ sent[i].link \in HeldLinks \cup {"mesh"}
                          /\ sent[i].at \in Nat
    <2>1. \A i \in Calls : sent[i] \in Call
      BY DEF IInv, StateInv, Calls
    <2> QED BY <2>1, BoundsAssumption DEF Call, Links
  <1>14. CallsInv'
    BY <1>0, <1>3 DEF IInv, CallsInv
  <1>15. \A i \in Here' \cup Carried' \cup loose' \cup Held' : sent[i].link # "mesh"
    <2>1. \A i \in Here' : From(i) # "mesh"
      <3>1. \A i \in Range(ready') \cup Range(arrived') : From(i) # "mesh"
        BY <1>5, <1>6 DEF there, come
      <3>2. \A i \in Range(late["peer"]) : From(i) # "mesh"
        BY DEF IInv, PlacesInv, Sources
      <3> QED BY <1>1, <3>1, <3>2, NothingIn DEF Here, Late
    <2>2. \A i \in Carried' : From(i) # "mesh"
      <3>1. \A i \in Range(stream["peer"]) : From(i) # "mesh"
        BY DEF IInv, PlacesInv, Sources
      <3> QED BY <1>2, <3>1, NothingIn DEF Carried
    <2>3. \A i \in loose' : From(i) # "mesh"
      BY <1>0 DEF IInv, PlacesInv
    <2>4. \A i \in Held' : sent[i].link # "mesh"
      BY <1>0 DEF IInv, PlacesInv, Held, HeldLinks
    <2> QED BY <2>1, <2>2, <2>3, <2>4 DEF From
  <1>16. PlacesInv'
    <2>1. \A s \in Sources : \A i \in Range(late'[s]) \cup Range(stream'[s]) : From(i)' = s
      BY <1>0, <1>9 DEF IInv, PlacesInv, Shrinks, From
    <2>2. \A k \in HeldLinks : \A i \in Range(held'[k]) : sent'[i].link = k
      BY <1>0 DEF IInv, PlacesInv
    <2>3. \A i \in loose' : ~Reliable(i)' /\ From(i)' = "peer"
      BY <1>0 DEF IInv, PlacesInv, Reliable, From
    <2>4. ASSUME NEW i \in Here' \cup Carried' \cup loose' \cup Held'
          PROVE  left'[sent'[i].link] < i
      <3>1. i \in Here \cup Carried \cup loose \cup Held
        BY <1>0, <1>9, ShrinkFacts
      <3>2. left[sent[i].link] < i
        BY <3>1 DEF IInv, PlacesInv
      <3>3. i \in Calls
        BY <3>1, QueueTypes DEF IInv, QueuesInv
      <3> QED BY <1>0, <1>10, <1>13, <1>15, <3>2, <3>3
    <2> QED BY <2>1, <2>2, <2>3, <2>4 DEF PlacesInv
  <1>17. ComingInv'
    <2>1. \A k \in HeldLinks : Due(k)' = Due(k)
      BY <1>0, <1>3, <1>10 DEF Due
    <2>2. Due("mesh")' = {}
      <3> SUFFICES ASSUME NEW e \in Due("mesh")' PROVE FALSE
        OBVIOUS
      <3>1. e \in Calls /\ Len(sent) < e
        BY <1>0, <1>3, <1>10 DEF Due
      <3> QED BY <1>10, <3>1 DEF Calls, IInv, StateInv
    <2>3. \A i \in Calls : sent[i].link = "mesh" => From(i) = "mesh"
      BY DEF From
    <2>4. ASSUME NEW e \in Calls, sent[e].link # "mesh", e \in Here PROVE e \in Here'
      <3>1. From(e) = "peer"
        BY <2>4 DEF From
      <3>2. e \notin Range(late["mesh"])
        BY <3>1 DEF IInv, PlacesInv, Sources
      <3>3. e \in Range(ready) => e \in Range(ready')
        BY <1>5, <3>1 DEF there
      <3>4. e \in Range(arrived) => e \in Range(arrived')
        BY <1>6, <3>1 DEF come
      <3> QED BY <1>1, <2>4, <3>2, <3>3, <3>4 DEF Here, Late
    <2>5. ASSUME conn', NEW k \in HeldLinks
          PROVE  Due(k)' \subseteq Read' \cup Here' \cup Range(stream'["peer"]) \cup Range(held'[k])
      <3> SUFFICES ASSUME NEW e \in Due(k)
                   PROVE  e \in Read' \cup Here' \cup Range(stream'["peer"]) \cup Range(held'[k])
        BY <2>1
      <3>1. e \in Calls /\ sent[e].link # "mesh"
        BY DEF Due, HeldLinks
      <3>2. e \in Read \cup Here \cup Range(stream["peer"]) \cup Range(held[k])
        BY <1>0, <2>5 DEF IInv, ComingInv
      <3>3. Read' = Read
        BY <1>0 DEF Read
      <3> QED BY <1>0, <1>2, <2>4, <3>1, <3>2, <3>3
    <2>6. ASSUME ~conn', NEW i \in Here', Reliable(i)', sent'[i].link # "mesh"
          PROVE  Order!Before(i)' \subseteq Read' \cup Here'
      <3>1. i \in Here /\ Reliable(i) /\ i \in Calls /\ sent[i].link \in HeldLinks
        BY <1>0, <1>9, <1>13, <2>6, ShrinkFacts, QueueTypes DEF IInv, Reliable
      <3> SUFFICES ASSUME NEW e \in Order!Before(i)' PROVE e \in Read' \cup Here'
        OBVIOUS
      <3>2. e \in Order!Before(i)
        BY <1>0, <1>10, <3>1 DEF Order!Before
      <3>3. e \in Read \cup Here
        BY <1>0, <3>1, <3>2, BeforeHere
      <3>4. e \in Due(sent[i].link)
        BY <3>1, <3>2, DueBefore DEF IInv
      <3>5. e \in Calls /\ sent[e].link # "mesh"
        BY <3>1, <3>4 DEF Due, HeldLinks
      <3>6. Read' = Read
        BY <1>0 DEF Read
      <3> QED BY <2>4, <3>3, <3>5, <3>6
    <2> QED BY <2>2, <2>5, <2>6 DEF ComingInv
  <1>18. Order!Sessions
    BY <1>0, <1>10 DEF Order!Sessions
  <1> QED BY <1>7, <1>8, <1>9, <1>11, <1>12, <1>14, <1>16, <1>17, <1>18, ShrinkFacts DEF IInv

\* A session begins.
LEMMA ConnectHolds ==
    ASSUME IInv, Connect
    PROVE  IInv' /\ Order!Sessions
PROOF
  <1>0. /\ UNCHANGED <<role, alive, sent, heard, sim, recv_sim, got>>
        /\ sess < MaxSessions /\ sess' = sess + 1
        /\ left' = [l \in Links |-> IF l = "all" THEN 0
                                   ELSE IF role = "host" THEN Len(sent) ELSE heard]
        /\ held' = IF role = "host" THEN [held EXCEPT !["one"] = <<>>] ELSE held
        /\ conn' = TRUE /\ parted_s' = FALSE /\ parted_r' = FALSE
        /\ stream' = [s \in Sources |-> <<>>] /\ loose' = {} /\ arrived' = <<>>
        /\ late' = [s \in Sources |-> <<>>] /\ ready' = <<>> /\ peer_sim' = recv_sim
    BY DEF Connect, NewWrapper, Configs
  <1>1. /\ \A s \in Sources : late'[s] = <<>> /\ stream'[s] = <<>>
        /\ "peer" \in Sources /\ "mesh" \in Sources
    BY <1>0 DEF Sources
  <1>2. Calls' = Calls /\ InOrder' = InOrder
    BY <1>0, SameCalls
  <1>h. /\ held' \in [HeldLinks -> Seq(Calls)] /\ held'["all"] = held["all"]
        /\ IF role = "host" THEN held'["one"] = <<>> ELSE held' = held
        /\ \A k \in HeldLinks : /\ Range(held'[k]) \subseteq Range(held[k])
                                /\ Sorted(held'[k], InOrder)
    <2>1. held \in [HeldLinks -> Seq(Calls)] /\ <<>> \in Seq(Calls)
          /\ \A k \in HeldLinks : Sorted(held[k], InOrder)
      BY DEF IInv, QueuesInv, SortedInv
    <2>2. CASE role = "host"
      BY <1>0, <2>1, <2>2, NothingIn DEF HeldLinks
    <2>3. CASE role # "host"
      BY <1>0, <2>1, <2>3
    <2> QED BY <2>2, <2>3
  <1>3. QueuesInv'
    <2>1. <<>> \in Seq(Calls)
      OBVIOUS
    <2> DEFINE none == <<>>
    <2> HIDE DEF none
    <2>2. late' \in [Sources -> Seq(Calls)] /\ stream' \in [Sources -> Seq(Calls)]
      BY <1>0, <2>1
    <2> QED BY <1>0, <1>2, <1>h, <2>1, <2>2 DEF IInv, QueuesInv
  <1>4. SortedInv'
    BY <1>0, <1>1, <1>2, <1>h, NothingIn DEF SortedInv
  <1>5. Shrinks
    BY <1>0, <1>1, <1>3, <1>4, <1>h, NothingIn DEF Shrinks
  <1>6. /\ left' \in [Links -> 0 .. Len(sent)] /\ \A l \in Links : left'[l] >= left[l]
        /\ Len(sent) \in Nat /\ sess \in Nat /\ left'["all"] = 0
    <2>1. /\ Len(sent) \in Nat /\ sess \in Nat /\ heard \in 0 .. Len(sent)
          /\ left \in [Links -> Nat] /\ left["all"] = 0 /\ role \in {"host", "client"}
          /\ \A l \in Links : left[l] <= Len(sent)
          /\ role = "client" => left["one"] <= heard /\ left["mesh"] <= heard
      BY DEF IInv, StateInv, SessionsInv, LeftInv
    <2>2. Links = {"one", "all", "mesh"}
      BY DEF Links, HeldLinks
    <2>3. 0 \in 0 .. Len(sent) /\ Len(sent) \in 0 .. Len(sent)
      BY <2>1
    <2>4. left' \in [Links -> 0 .. Len(sent)] /\ left'["all"] = 0
      BY <1>0, <2>1, <2>2, <2>3
    <2>5. \A l \in {"one", "mesh"} : left'[l] = IF role = "host" THEN Len(sent) ELSE heard
      BY <1>0, <2>2
    <2>6. \A l \in Links : left'[l] >= left[l]
      BY ONLY <2>1, <2>2, <2>4, <2>5
    <2> QED BY <2>1, <2>4, <2>6
  <1>7. StateInv'
    <2>1. peer_sim' = recv_sim
      BY <1>0
    <2> QED BY <1>0, <2>1 DEF IInv, StateInv
  <1>8. SessionsInv'
    BY <1>0, <1>6, BoundsAssumption DEF SessionsInv
  <1>l. LeftInv'
    <2>1. left' \in [Links -> Nat] /\ \A l \in Links : left'[l] <= Len(sent)
      <3>1. 0 .. Len(sent) \subseteq Nat
        BY <1>6
      <3> QED BY <1>6, <3>1
    <2>2. ASSUME role = "client"
          PROVE  /\ left'["one"] = heard /\ left'["mesh"] = heard
                 /\ held' = held
      BY <1>0, <2>2 DEF Links, HeldLinks
    <2>3. heard \in Nat
      BY DEF IInv, LeftInv
    <2> QED BY <1>0, <1>6, <2>1, <2>2, <2>3 DEF IInv, LeftInv
  <1>9. RestInv'
    BY <1>0, <1>1 DEF RestInv
  <1>10. \A i \in Calls : sent[i].link \in Links /\ sent[i].at \in Nat
    <2>1. \A i \in Calls : sent[i] \in Call
      BY DEF IInv, StateInv, Calls
    <2> QED BY <2>1, BoundsAssumption DEF Call
  <1>11. CallsInv'
    BY <1>0, <1>2, <1>6, <1>10 DEF IInv, CallsInv
  <1>12. Here' = {} /\ Carried' = {}
    BY <1>0, <1>1, NothingIn DEF Here, Late, Carried
  <1>13. PlacesInv'
    <2>1. \A k \in HeldLinks : \A i \in Range(held'[k]) : sent'[i].link = k
      BY <1>0, <1>h DEF IInv, PlacesInv
    <2>2. ASSUME NEW i \in Range(held'["all"]) PROVE left'[sent'[i].link] < i
      <3>1. sent'[i].link = "all"
        BY <2>1 DEF HeldLinks
      <3>2. i \in Calls
        BY <1>h, <2>2, QueueTypes DEF IInv, Held
      <3> QED BY <1>6, <3>1, <3>2 DEF Calls, IInv, StateInv
    <2>3. ASSUME NEW i \in Range(held'["one"]) PROVE left'[sent'[i].link] < i
      <3>1. sent'[i].link = "one" /\ "one" \in Links /\ role \in {"host", "client"}
        BY <2>1 DEF HeldLinks, Links, IInv, StateInv
      <3>2. role # "host"
        BY <1>h, <2>3, NothingIn
      <3>3. heard < i
        BY <1>h, <2>3, <3>1, <3>2 DEF IInv, LeftInv
      <3> QED BY <1>0, <3>1, <3>2, <3>3
    <2> QED BY <1>0, <1>1, <1>12, <2>1, <2>2, <2>3, NothingIn DEF PlacesInv, Held
  <1>14. ComingInv'
    <2>1. ASSUME NEW l \in Links PROVE Due(l)' = {}
      <3> SUFFICES ASSUME NEW e \in Due(l)' PROVE FALSE
        OBVIOUS
      <3>1. e \in Calls /\ sent[e].at = sess + 1
        BY <1>0, <1>2 DEF Due
      <3>2. sent[e].at <= sess /\ sent[e].at \in Nat
        BY <1>10, <3>1 DEF IInv, CallsInv
      <3> QED BY <1>6, <3>1, <3>2
    <2> QED BY <1>0, <2>1 DEF ComingInv, HeldLinks, Links
  <1>15. Order!Sessions
    BY <1>0, <1>6 DEF Order!Sessions
  <1> QED BY <1>3, <1>4, <1>5, <1>7, <1>8, <1>l, <1>9, <1>11, <1>13, <1>14, <1>15, ShrinkFacts DEF IInv

-----------------------------------------------------------------------------
\* Calls come to the receiving end.

\* What joins the arrived queue came from the transport.
LEMMA ArrivesHolds ==
    ASSUME IInv, ~parted_r, NEW i \in Calls, i \notin Read, i \notin Here,
           UNCHANGED <<role, alive, sent, sim, held, sess, heard, left, conn, parted_s, parted_r,
                       recv_sim, peer_sim, late, ready, got>>,
           arrived' = Append(arrived, i),
           stream' \in [Sources -> Seq(Calls)], loose' \subseteq loose,
           \A s \in Sources : Sorted(stream'[s], InOrder),
           \A s \in Sources : Range(stream'[s]) \subseteq Range(stream[s]),
           \A s \in Sources : Range(stream[s]) \subseteq Range(stream'[s]) \cup {i},
           ~conn => stream'["peer"] = <<>>,
           i \in Carried \cup loose, i \notin loose',
           Then(Read \cup Range(ready) \cup Late \cup Range(arrived), {i}, InOrder),
           Then({i}, Carried' \cup Held, InOrder),
           conn \/ ~Reliable(i) \/ sent[i].link = "mesh"
    PROVE  IInv'
PROOF
  <1>0. "peer" \in Sources /\ "mesh" \in Sources
    BY DEF Sources
  <1>1. Calls' = Calls /\ InOrder' = InOrder
    BY SameCalls
  <1>2. /\ arrived' \in Seq(Calls)
        /\ Range(arrived') = Range(arrived) \cup {i}
        /\ Sorted(arrived, InOrder) => Sorted(arrived', InOrder)
    <2>1. arrived \in Seq(Calls)
      BY DEF IInv, QueuesInv
    <2>2. Then(Range(arrived), {i}, InOrder)
      BY DEF Then
    <2>3. arrived' = Append(arrived, i) /\ i \in Calls
      OBVIOUS
    <2> DEFINE T == Calls
               R == InOrder
    <2>4. arrived \in Seq(T) /\ i \in T /\ Then(Range(arrived), {i}, R)
      BY <2>1, <2>2, <2>3
    <2> HIDE DEF T, R
    <2>5. Append(arrived, i) \in Seq(T) /\ Range(Append(arrived, i)) = Range(arrived) \cup {i}
      BY ONLY <2>4, AppendFacts
    <2>6. Sorted(arrived, R) => Sorted(Append(arrived, i), R)
      BY ONLY <2>4, PutSorted
    <2> QED BY <2>3, <2>5, <2>6 DEF T, R
  <1>3. /\ Read' = Read /\ Late' = Late /\ Range(ready') = Range(ready) /\ Held' = Held
        /\ Here' = Here \cup {i}
        /\ Carried' \subseteq Carried /\ Carried \subseteq Carried' \cup {i}
    BY <1>0, <1>2 DEF Read, Late, Held, Here, Carried
  <1>4. StateInv' /\ SessionsInv' /\ RestInv' /\ LeftInv'
    <2>1. StateInv'
      BY DEF IInv, StateInv
    <2>2. SessionsInv' /\ RestInv'
      BY DEF IInv, SessionsInv, RestInv
    <2>3. LeftInv'
      BY DEF IInv, LeftInv
    <2> QED BY <2>1, <2>2, <2>3
  <1>5. QueuesInv'
    BY <1>1, <1>2 DEF IInv, QueuesInv
  <1>6. CallsInv'
    BY <1>1 DEF IInv, CallsInv
  <1>7. PlacesInv'
    BY <1>3 DEF IInv, PlacesInv, From, Reliable
  <1>8. SortedInv'
    BY <1>1, <1>2 DEF IInv, SortedInv
  <1>9. ChainInv'
    <2>1. ChainInv
      BY DEF IInv
    <2>2. /\ Then(Read \cup Range(ready) \cup Late \cup Range(arrived), {i}, InOrder)
          /\ Then({i}, Carried' \cup Held, InOrder)
      OBVIOUS
    <2>3. Then(Read', Here' \cup Carried' \cup Held', InOrder')
      BY ONLY <1>1, <1>3, <2>1, <2>2 DEF ChainInv, Then
    <2>4. Then(Range(ready'), Late' \cup Range(arrived') \cup Carried' \cup Held', InOrder')
      BY ONLY <1>1, <1>2, <1>3, <2>1, <2>2 DEF ChainInv, Then
    <2>5. Then(Late', Range(arrived') \cup Carried' \cup Held', InOrder')
      BY ONLY <1>1, <1>2, <1>3, <2>1, <2>2 DEF ChainInv, Then
    <2>6. Then(Range(arrived'), Carried' \cup Held', InOrder')
      BY ONLY <1>1, <1>2, <1>3, <2>1, <2>2 DEF ChainInv, Then
    <2>7. Then(Carried', Held', InOrder')
      BY ONLY <1>1, <1>3, <2>1 DEF ChainInv, Then
    <2>8. loose' \cap (Read' \cup Here' \cup Carried' \cup Held') = {}
      BY <1>3, <2>1 DEF ChainInv
    <2> QED BY <2>3, <2>4, <2>5, <2>6, <2>7, <2>8 DEF ChainInv
  <1>10. ComingInv'
    <2>1. \A l : Due(l)' = Due(l)
      BY <1>1 DEF Due
    <2>2. \A e : Order!Before(e)' = Order!Before(e)
      BY DEF Order!Before
    <2>3. \A s \in Sources : Range(stream[s]) \subseteq Range(stream'[s]) \cup {i}
      OBVIOUS
    <2>4. ComingInv
      BY DEF IInv
    <2> QED BY ONLY <1>0, <1>3, <2>1, <2>2, <2>3, <2>4, conn' = conn, parted_r' = parted_r,
                    held' = held, sent' = sent, conn \/ ~Reliable(i) \/ sent[i].link = "mesh"
            DEF ComingInv, Reliable
  <1> QED BY <1>4, <1>5, <1>6, <1>7, <1>8, <1>9, <1>10 DEF IInv

\* A packet arrives in its order.
LEMMA ArriveHolds ==
    ASSUME IInv, NEW s \in Sources, Arrive(s)
    PROVE  IInv'
PROOF
  <1> DEFINE i == Head(stream[s])
             rest == Tail(stream[s])
  <1>0. /\ UNCHANGED <<role, alive, sent, sim, held, sess, heard, left, conn, parted_s, parted_r,
                       recv_sim, peer_sim, late, ready, got>>
        /\ ~parted_r /\ stream[s] # <<>> /\ loose' = loose
        /\ arrived' = Append(arrived, i)
        /\ stream' = [stream EXCEPT ![s] = rest]
    BY DEF Arrive, sending, session, wrapper
  <1>1. stream[s] \in Seq(Calls) /\ stream \in [Sources -> Seq(Calls)]
    BY DEF IInv, QueuesInv
  <1>2. /\ i \in Calls /\ rest \in Seq(Calls)
        /\ Range(stream[s]) = {i} \cup Range(rest)
        /\ \A R : Sorted(stream[s], R) => Sorted(rest, R) /\ Then({i}, Range(rest), R)
    BY <1>0, <1>1, TakeFacts
  <1> HIDE DEF i, rest
  <1>3. /\ stream' \in [Sources -> Seq(Calls)] /\ stream'[s] = rest
        /\ \A t \in Sources : t # s => stream'[t] = stream[t]
    BY <1>0, <1>1, <1>2
  <1>4. i \in Carried
    BY <1>2 DEF Carried, Sources
  <1>5. Sorted(stream[s], InOrder)
    BY DEF IInv, SortedInv
  <1>6. \A t \in Sources : Sorted(stream'[t], InOrder)
    BY <1>2, <1>3, <1>5 DEF IInv, SortedInv
  <1>7. \A t \in Sources : /\ Range(stream'[t]) \subseteq Range(stream[t])
                           /\ Range(stream[t]) \subseteq Range(stream'[t]) \cup {i}
    BY <1>2, <1>3
  <1>8. Then(Read \cup Range(ready) \cup Late \cup Range(arrived), {i}, InOrder)
    BY <1>4 DEF IInv, ChainInv, Then, Here
  <1>9. i \notin Read /\ i \notin Here /\ i \notin loose
    <2>1. ASSUME i \in Read \cup Here PROVE FALSE
      <3>1. <<i, i>> \in InOrder
        BY <1>8, <2>1 DEF Then, Here
      <3> QED BY <3>1, Ordered
    <2>2. i \notin loose
      BY <1>4 DEF IInv, ChainInv
    <2> QED BY <2>1, <2>2
  <1>10. Then({i}, Carried' \cup Held, InOrder)
    <2>1. Then({i}, Held, InOrder)
      BY <1>4 DEF IInv, ChainInv, Then
    <2>2. ASSUME NEW t \in Sources, NEW e \in Range(stream'[t]) PROVE <<i, e>> \in InOrder
      <3>1. CASE t = s
        BY <1>2, <1>3, <1>5, <2>2, <3>1 DEF Then
      <3>2. CASE t # s
        <4>1. From(i) = s /\ From(e) = t
          BY <1>2, <1>3, <2>2, <3>2 DEF IInv, PlacesInv
        <4>2. e \in Calls
          BY <1>7, <2>2, QueueTypes DEF IInv, Carried, Sources
        <4> QED BY <1>2, <3>2, <4>1, <4>2, FromApart
      <3> QED BY <3>1, <3>2
    <2> QED BY <2>1, <2>2 DEF Carried, Sources, Then
  <1>11. ~conn => stream'["peer"] = <<>>
    BY <1>0, <1>3 DEF IInv, RestInv, Sources
  <1>12. conn \/ ~Reliable(i) \/ sent[i].link = "mesh"
    <2> SUFFICES ASSUME ~conn PROVE sent[i].link = "mesh"
      OBVIOUS
    <2>1. s = "mesh"
      BY <1>0 DEF IInv, RestInv, Sources
    <2>2. From(i) = "mesh"
      BY <1>2, <2>1 DEF IInv, PlacesInv, Sources
    <2> QED BY <2>2 DEF From
  <1>13. loose' \subseteq loose /\ i \in Carried \cup loose /\ i \notin loose'
    BY <1>0, <1>4, <1>9
  <1>14. /\ i \notin Read /\ i \notin Here /\ ~parted_r /\ arrived' = Append(arrived, i)
         /\ \A t \in Sources : Range(stream'[t]) \subseteq Range(stream[t])
         /\ \A t \in Sources : Range(stream[t]) \subseteq Range(stream'[t]) \cup {i}
         /\ stream' \in [Sources -> Seq(Calls)] /\ i \in Calls
    BY <1>0, <1>2, <1>3, <1>7, <1>9
  <1>15. UNCHANGED <<role, alive, sent, sim, held, sess, heard, left, conn, parted_s, parted_r,
                     recv_sim, peer_sim, late, ready, got>>
    BY <1>0
  <1> QED BY ONLY IInv, <1>6, <1>8, <1>10, <1>11, <1>12, <1>13, <1>14, <1>15, ArrivesHolds

\* An unreliable packet arrives whenever it does.
LEMMA ArriveLooseHolds ==
    ASSUME IInv, NEW i \in loose, ArriveLoose(i)
    PROVE  IInv'
PROOF
  <1>0. /\ UNCHANGED <<role, alive, sent, sim, held, sess, heard, left, conn, parted_s, parted_r,
                       recv_sim, peer_sim, late, ready, got>>
        /\ ~parted_r /\ stream' = stream /\ loose' = loose \ {i}
        /\ arrived' \in {arrived, Append(arrived, i)}
    BY DEF ArriveLoose, sending, session, wrapper
  <1>1. i \in Calls /\ stream \in [Sources -> Seq(Calls)]
    BY DEF IInv, QueuesInv
  <1>2. i \notin Read /\ i \notin Here /\ i \notin Carried /\ i \notin Held /\ ~Reliable(i)
    BY DEF IInv, ChainInv, PlacesInv
  <1>3. CASE arrived' = Append(arrived, i)
    <2>1. Then(Read \cup Range(ready) \cup Late \cup Range(arrived), {i}, InOrder)
      BY <1>1, <1>2, Apart, QueueTypes DEF IInv, Then, Here, Reliable
    <2>2. Carried' = Carried
      BY <1>0 DEF Carried
    <2>3. Then({i}, Carried' \cup Held, InOrder)
      BY <1>1, <1>2, <2>2, Apart, QueueTypes DEF IInv, Then, Reliable
    <2>4. /\ \A t \in Sources : Sorted(stream'[t], InOrder)
          /\ ~conn => stream'["peer"] = <<>>
      BY <1>0 DEF IInv, SortedInv, RestInv
    <2>5. /\ i \notin Read /\ i \notin Here /\ ~parted_r /\ arrived' = Append(arrived, i)
          /\ \A t \in Sources : Range(stream'[t]) \subseteq Range(stream[t])
          /\ \A t \in Sources : Range(stream[t]) \subseteq Range(stream'[t]) \cup {i}
          /\ stream' \in [Sources -> Seq(Calls)] /\ i \in Calls
          /\ loose' \subseteq loose /\ i \in Carried \cup loose /\ i \notin loose'
          /\ conn \/ ~Reliable(i) \/ sent[i].link = "mesh"
      BY <1>0, <1>1, <1>2, <1>3
    <2>6. UNCHANGED <<role, alive, sent, sim, held, sess, heard, left, conn, parted_s, parted_r,
                      recv_sim, peer_sim, late, ready, got>>
      BY <1>0
    <2> QED BY ONLY IInv, <2>1, <2>3, <2>4, <2>5, <2>6, ArrivesHolds
  <1>4. CASE arrived' = arrived
    <2>1. Calls' = Calls /\ InOrder' = InOrder
      BY <1>0, SameCalls
    <2>2. QueuesInv' /\ SortedInv'
      BY <1>0, <1>4, <2>1 DEF IInv, QueuesInv, SortedInv
    <2>3. Shrinks
      BY <1>0, <1>4, <2>2 DEF Shrinks
    <2>4. StateInv' /\ SessionsInv' /\ LeftInv'
      BY <1>0 DEF IInv, StateInv, SessionsInv, LeftInv
    <2>5. RestInv'
      BY <1>0 DEF IInv, RestInv
    <2>6. ComingInv'
      <3>1. Read' = Read /\ Here' = Here
        BY <1>0, <1>4 DEF Read, Here, Late
      <3>2. \A l : Due(l)' = Due(l)
        BY <1>0, <2>1 DEF Due
      <3>3. \A e : Order!Before(e)' = Order!Before(e)
        BY <1>0 DEF Order!Before
      <3> QED BY <1>0, <3>1, <3>2, <3>3 DEF IInv, ComingInv, Reliable
    <2> QED BY <1>0, <2>2, <2>3, <2>4, <2>5, <2>6, ShrinkFacts DEF IInv
  <1> QED BY <1>0, <1>3, <1>4

-----------------------------------------------------------------------------
\* The receiving end.

\* What GoldNetSimPeer::_poll does to the packets, through or not.
LEMMA PollFacts ==
    ASSUME IInv, WrapperPoll
    PROVE  /\ ready' \in Seq(Calls) /\ late' \in [Sources -> Seq(Calls)]
           /\ Sorted(ready', InOrder) /\ \A s \in Sources : Sorted(late'[s], InOrder)
           /\ Range(ready') \cup Late' \subseteq Here
           /\ \A i \in Here : Reliable(i) => i \in Range(ready') \cup Late'
           /\ \A s \in Sources : \A i \in Range(late'[s]) : From(i) = s
           /\ Then(Range(ready'), Late', InOrder)
PROOF
  <1>0. "peer" \in Sources /\ "mesh" \in Sources /\ Sources = {"peer", "mesh"}
    BY DEF Sources
  <1>1. /\ ready \in Seq(Calls) /\ arrived \in Seq(Calls)
        /\ late \in [Sources -> Seq(Calls)]
        /\ \A s \in Sources : late[s] \in Seq(Calls)
    BY DEF IInv, QueuesInv
  <1>2. /\ Sorted(ready, InOrder) /\ Sorted(arrived, InOrder)
        /\ \A s \in Sources : Sorted(late[s], InOrder)
    BY DEF IInv, SortedInv
  <1>3. /\ Then(Range(ready), Late \cup Range(arrived), InOrder)
        /\ Then(Late, Range(arrived), InOrder)
    BY DEF IInv, ChainInv, Then
  <1>4. CASE Through /\ ready' = ready \o arrived /\ late' = late
    <2>1. Then(Range(ready), Range(arrived), InOrder)
      BY <1>3 DEF Then
    <2>2. /\ ready' \in Seq(Calls) /\ Range(ready') = Range(ready) \cup Range(arrived)
          /\ Sorted(ready', InOrder)
      BY <1>1, <1>2, <1>4, <2>1, JoinFacts
    <2>3. \A s \in Sources : late[s] = <<>> /\ late'[s] = <<>>
      BY <1>4 DEF Through
    <2>4. Late = {} /\ Late' = {} /\ \A s \in Sources : Range(late'[s]) = {}
      BY <1>0, <2>3, NothingIn DEF Late
    <2> QED BY <1>1, <1>2, <1>4, <2>2, <2>4 DEF Here, Then
  <1>5. ASSUME ~Through,
               NEW lost \in SUBSET {i \in Range(arrived) : ~Reliable(i)},
               NEW due \in [Sources -> 0 .. MaxSends],
               LET kept == Sift(arrived, Range(arrived) \ lost)
                   all  == [s \in Sources |-> late[s] \o Only(kept, s)]
               IN  /\ \A s \in Sources : due[s] <= Len(all[s])
                   /\ late' = [s \in Sources |-> SubSeq(all[s], due[s] + 1, Len(all[s]))]
                   /\ ready' = ready \o SubSeq(all["peer"], 1, due["peer"])
                                     \o SubSeq(all["mesh"], 1, due["mesh"])
        PROVE  /\ ready' \in Seq(Calls) /\ late' \in [Sources -> Seq(Calls)]
               /\ Sorted(ready', InOrder) /\ \A s \in Sources : Sorted(late'[s], InOrder)
               /\ Range(ready') \cup Late' \subseteq Here
               /\ \A i \in Here : Reliable(i) => i \in Range(ready') \cup Late'
               /\ \A s \in Sources : \A i \in Range(late'[s]) : From(i) = s
               /\ Then(Range(ready'), Late', InOrder)
    <2> DEFINE stay == Range(arrived) \ lost
               kept == Sift(arrived, stay)
               of(s) == {i \in Range(kept) : From(i) = s}
               new(s) == Sift(kept, of(s))
               all(s) == late[s] \o new(s)
               front(s) == SubSeq(all(s), 1, due[s])
               back(s) == SubSeq(all(s), due[s] + 1, Len(all(s)))
    <2>1. /\ \A s \in Sources : due[s] <= Len(all(s))
          /\ late' = [s \in Sources |-> back(s)]
          /\ ready' = ready \o front("peer") \o front("mesh")
      BY <1>0, <1>5 DEF Only
    <2>2. /\ kept \in Seq(Calls) /\ Range(kept) = Range(arrived) \cap stay
          /\ Sorted(kept, InOrder)
      <3> HIDE DEF stay
      <3> QED BY <1>1, <1>2, SiftFacts
    <2> HIDE DEF stay, kept
    <2>3. ASSUME NEW s \in Sources
          PROVE  /\ new(s) \in Seq(Calls) /\ Sorted(new(s), InOrder)
                 /\ Range(new(s)) = {i \in Range(arrived) \ lost : From(i) = s}
      <3> HIDE DEF of
      <3>1. /\ new(s) \in Seq(Calls) /\ Range(new(s)) = Range(kept) \cap of(s)
            /\ Sorted(new(s), InOrder)
        BY <2>2, SiftFacts
      <3> QED BY <2>2, <3>1 DEF of, stay
    <2> HIDE DEF of, new
    <2>4. ASSUME NEW s \in Sources
          PROVE  /\ all(s) \in Seq(Calls) /\ Sorted(all(s), InOrder)
                 /\ Range(all(s)) = Range(late[s]) \cup Range(new(s))
      <3>1. Then(Range(late[s]), Range(new(s)), InOrder)
        BY <1>0, <1>3, <2>3 DEF Then, Late
      <3> QED BY <1>1, <1>2, <2>3, <3>1, JoinFacts
    <2> HIDE DEF all
    <2>5. ASSUME NEW s \in Sources
          PROVE  /\ front(s) \in Seq(Calls) /\ back(s) \in Seq(Calls)
                 /\ Range(all(s)) = Range(front(s)) \cup Range(back(s))
                 /\ Sorted(front(s), InOrder) /\ Sorted(back(s), InOrder)
                 /\ Then(Range(front(s)), Range(back(s)), InOrder)
      <3>1. due[s] \in 0 .. Len(all(s))
        <4>1. due[s] \in Nat /\ Len(all(s)) \in Nat
          BY <2>4, BoundsAssumption
        <4> QED BY <2>1, <4>1
      <3> QED BY <2>4, <3>1, SplitFacts
    <2> HIDE DEF front, back
    <2>6. \A s \in Sources : \A i \in Range(front(s)) \cup Range(back(s)) :
            /\ From(i) = s /\ i \in Calls
            /\ i \in Late \cup Range(arrived)
      <3> SUFFICES ASSUME NEW s \in Sources, NEW i \in Range(front(s)) \cup Range(back(s))
                   PROVE  From(i) = s /\ i \in Calls /\ i \in Late \cup Range(arrived)
        OBVIOUS
      <3>1. i \in Range(late[s]) \/ i \in Range(new(s))
        BY <2>4, <2>5
      <3>2. From(i) = s /\ i \in Late \cup Range(arrived)
        BY <1>0, <2>3, <3>1 DEF IInv, PlacesInv, Late
      <3>3. i \in Calls
        BY <3>2, QueueTypes DEF IInv, Here
      <3> QED BY <3>2, <3>3
    <2>7. \A i \in Late \cup Range(arrived) :
            i \in lost \/ \E s \in Sources : i \in Range(front(s)) \cup Range(back(s))
      <3> SUFFICES ASSUME NEW i \in Late \cup Range(arrived), i \notin lost
                   PROVE  \E s \in Sources : i \in Range(front(s)) \cup Range(back(s))
        OBVIOUS
      <3>1. CASE i \in Late
        BY <1>0, <2>4, <2>5, <3>1 DEF Late
      <3>2. CASE i \in Range(arrived)
        <4>1. From(i) \in Sources
          BY <1>0 DEF From
        <4> QED BY <2>3, <2>4, <2>5, <3>2, <4>1
      <3> QED BY <3>1, <3>2
    <2>8. \A s, t \in Sources : \A i \in Range(front(s)), e \in Range(front(t)) \cup Range(back(t)) :
            s # t => <<i, e>> \in InOrder
      BY <2>6, FromApart
    <2> DEFINE some == ready \o front("peer")
    <2>9. /\ some \in Seq(Calls) /\ Range(some) = Range(ready) \cup Range(front("peer"))
          /\ Sorted(some, InOrder)
      <3>1. Then(Range(ready), Range(front("peer")), InOrder)
        BY <1>0, <1>3, <2>6 DEF Then
      <3> QED BY <1>0, <1>1, <1>2, <2>5, <3>1, JoinFacts
    <2> HIDE DEF some
    <2>10. /\ ready' \in Seq(Calls)
           /\ Range(ready') = Range(ready) \cup Range(front("peer")) \cup Range(front("mesh"))
           /\ Sorted(ready', InOrder)
      <3>1. Then(Range(some), Range(front("mesh")), InOrder)
        BY <1>0, <1>3, <2>6, <2>8, <2>9 DEF Then
      <3>2. ready' = some \o front("mesh")
        BY <2>1 DEF some
      <3> DEFINE last == front("mesh")
      <3>3. last \in Seq(Calls) /\ Sorted(last, InOrder)
        BY <1>0, <2>5
      <3> HIDE DEF last
      <3> DEFINE T == Calls
                 R == InOrder
      <3>5. some \in Seq(T) /\ last \in Seq(T) /\ Sorted(some, R) /\ Sorted(last, R)
        BY <2>9, <3>3
      <3> HIDE DEF T, R
      <3>6. /\ some \o last \in Seq(T)
            /\ Range(some \o last) = Range(some) \cup Range(last)
            /\ Then(Range(some), Range(last), R) => Sorted(some \o last, R)
        BY ONLY <3>5, JoinFacts
      <3>4. /\ some \o last \in Seq(Calls)
            /\ Range(some \o last) = Range(some) \cup Range(last)
            /\ Then(Range(some), Range(last), InOrder) => Sorted(some \o last, InOrder)
        BY <3>6 DEF T, R
      <3> QED BY <2>9, <3>1, <3>2, <3>4 DEF last
    <2>11. late' \in [Sources -> Seq(Calls)] /\ \A s \in Sources : late'[s] = back(s)
      BY <2>1, <2>5
    <2>12. Late' = Range(back("peer")) \cup Range(back("mesh"))
      BY <1>0, <2>11 DEF Late
    <2>13. Then(Range(ready'), Late', InOrder)
      <3> SUFFICES ASSUME NEW x \in Range(ready'), NEW s \in Sources, NEW y \in Range(back(s))
                   PROVE  <<x, y>> \in InOrder
        BY <1>0, <2>12 DEF Then
      <3>1. CASE x \in Range(ready)
        BY <1>3, <2>6, <3>1 DEF Then
      <3>2. ASSUME NEW t \in Sources, x \in Range(front(t)) PROVE <<x, y>> \in InOrder
        BY <2>5, <2>8, <3>2 DEF Then
      <3> QED BY <1>0, <2>10, <3>1, <3>2
    <2>14. Range(ready') \cup Late' \subseteq Here
      BY <1>0, <2>6, <2>10, <2>12 DEF Here
    <2>15. \A i \in Here : Reliable(i) => i \in Range(ready') \cup Late'
      BY <1>0, <2>7, <2>10, <2>12 DEF Here
    <2> QED BY <2>5, <2>6, <2>10, <2>11, <2>13, <2>14, <2>15
  <1> QED BY <1>4, <1>5 DEF WrapperPoll

\* GoldNetSimPeer polls: packets arrived are held, and those due released.
LEMMA WrapperPollHolds ==
    ASSUME IInv, WrapperPoll
    PROVE  IInv'
PROOF
  <1>0. /\ UNCHANGED <<role, alive, sent, sim, held, sess, heard, left, conn, parted_s, parted_r,
                       stream, loose, recv_sim, peer_sim, got>>
        /\ role = "host" /\ ~parted_r /\ arrived' = <<>>
    BY DEF WrapperPoll, sending, session, air
  <1>1. /\ ready' \in Seq(Calls) /\ late' \in [Sources -> Seq(Calls)]
        /\ Sorted(ready', InOrder) /\ \A s \in Sources : Sorted(late'[s], InOrder)
        /\ Range(ready') \cup Late' \subseteq Here
        /\ \A i \in Here : Reliable(i) => i \in Range(ready') \cup Late'
        /\ \A s \in Sources : \A i \in Range(late'[s]) : From(i) = s
        /\ Then(Range(ready'), Late', InOrder)
    BY PollFacts
  <1>2. Calls' = Calls /\ InOrder' = InOrder
    BY <1>0, SameCalls
  <1>3. /\ Range(arrived') = {} /\ Here' = Range(ready') \cup Late' /\ Here' \subseteq Here
        /\ Read' = Read /\ Carried' = Carried /\ Held' = Held
    BY <1>0, <1>1, NothingIn DEF Here, Read, Carried, Held
  <1>4. StateInv' /\ SessionsInv' /\ LeftInv'
    BY <1>0 DEF IInv, StateInv, SessionsInv, LeftInv
  <1>5. RestInv'
    BY <1>0 DEF IInv, RestInv
  <1>6. QueuesInv'
    <2>1. <<>> \in Seq(Calls)
      OBVIOUS
    <2> QED BY <1>0, <1>1, <1>2, <2>1 DEF IInv, QueuesInv
  <1>7. CallsInv'
    BY <1>0, <1>2 DEF IInv, CallsInv
  <1>8. PlacesInv'
    BY <1>0, <1>1, <1>3 DEF IInv, PlacesInv, From, Reliable
  <1>9. SortedInv'
    BY <1>0, <1>1, <1>2, NothingIn DEF IInv, SortedInv
  <1>10. ChainInv'
    <2>1. ChainInv
      BY DEF IInv
    <2> QED BY ONLY <1>0, <1>1, <1>2, <1>3, <2>1 DEF ChainInv, Then, Here
  <1>11. ComingInv'
    <2>1. \A l : Due(l)' = Due(l) /\ \A e \in Due(l) : Reliable(e)
      BY <1>0, <1>2 DEF Due, Reliable
    <2>2. \A e \in Here : Reliable(e) => e \in Here'
      BY <1>1, <1>3
    <2>3. ASSUME ~conn', NEW i \in Here', Reliable(i)', sent'[i].link # "mesh"
          PROVE  Order!Before(i)' \subseteq Read' \cup Here'
      <3>1. i \in Here /\ Reliable(i) /\ i \in Calls
        BY <1>0, <1>3, <2>3, QueueTypes DEF IInv, Reliable
      <3>2. Order!Before(i)' = Order!Before(i)
        BY <1>0 DEF Order!Before
      <3>3. Order!Before(i) \subseteq Due(sent[i].link)
        BY <3>1, DueBefore DEF IInv
      <3> QED BY <1>0, <1>3, <2>1, <2>2, <3>1, <3>2, <3>3, BeforeHere
    <2>4. ComingInv
      BY DEF IInv
    <2> QED BY <1>0, <1>3, <2>1, <2>2, <2>3, <2>4 DEF ComingInv
  <1> QED BY <1>4, <1>5, <1>6, <1>7, <1>8, <1>9, <1>10, <1>11 DEF IInv

\* The inner reads a packet.
LEMMA InnerReadsHolds ==
    ASSUME IInv, InnerReads
    PROVE  IInv' /\ Order!ReadNext
PROOF
  <1> DEFINE queue == IF role = "host" THEN ready ELSE arrived
             i == Head(queue)
             rest == Tail(queue)
  <1>0. /\ UNCHANGED <<role, alive, sent, sim, held, sess, heard, left, conn, parted_s, parted_r,
                       stream, loose, recv_sim, peer_sim, late>>
        /\ ~parted_r /\ queue # <<>> /\ got' = Append(got, i)
        /\ \/ role = "host" /\ ready' = rest /\ arrived' = arrived
           \/ role = "client" /\ arrived' = rest /\ ready' = ready
    BY DEF InnerReads, sending, session, air, IInv, StateInv
  <1>1. ready \in Seq(Calls) /\ arrived \in Seq(Calls) /\ got \in Seq(Calls)
    BY DEF IInv, QueuesInv
  <1>2. queue \in Seq(Calls) /\ Sorted(queue, InOrder)
    BY <1>1 DEF IInv, SortedInv
  <1>3. role = "client" => Range(ready) = {} /\ Late = {}
    BY NothingIn DEF IInv, RestInv, Late
  <1>4. \/ role = "host" /\ Range(queue) = Range(ready)
        \/ role = "client" /\ Range(queue) = Range(arrived)
    BY <1>0
  <1>5. Then(Range(queue), Here \ Range(queue), InOrder)
    BY <1>3, <1>4 DEF IInv, ChainInv, Then, Here
  <1> HIDE DEF queue
  <1>6. /\ i \in Calls /\ rest \in Seq(Calls)
        /\ Range(queue) = {i} \cup Range(rest)
        /\ Sorted(rest, InOrder) /\ Then({i}, Range(rest), InOrder)
    BY <1>0, <1>2, TakeFacts
  <1> HIDE DEF i, rest
  <1>7. i \in Here /\ \A e \in Here : e = i \/ <<i, e>> \in InOrder
    BY <1>4, <1>5, <1>6 DEF Here, Then
  <1>8. got' \in Seq(Calls) /\ Range(got') = Range(got) \cup {i}
    <2> DEFINE T == Calls
    <2>0. got \in Seq(T) /\ i \in T
      BY <1>1, <1>6
    <2> HIDE DEF T
    <2>1. Append(got, i) \in Seq(T) /\ Range(Append(got, i)) = Range(got) \cup {i}
      BY ONLY <2>0, AppendFacts
    <2> QED BY <1>0, <2>1 DEF T
  <1>9. Calls' = Calls /\ InOrder' = InOrder
    BY <1>0, SameCalls
  <1>10. i \notin Range(rest)
    <2>1. ASSUME i \in Range(rest) PROVE FALSE
      <3>1. <<i, i>> \in InOrder
        BY <1>6, <2>1 DEF Then
      <3> QED BY <3>1, Ordered
    <2> QED BY <2>1
  <1>11. /\ Read' = Read \cup {i} /\ Late' = Late /\ Held' = Held /\ Carried' = Carried
         /\ Here' \subseteq Here /\ Here \subseteq Here' \cup {i}
         /\ Range(ready') \subseteq Range(ready) /\ Range(arrived') \subseteq Range(arrived)
    BY <1>0, <1>4, <1>6, <1>8 DEF Read, Late, Held, Carried, Here, queue
  <1>12. i \notin Here'
    <2>1. ready' \in Seq(Calls) /\ arrived' \in Seq(Calls)
      BY <1>0, <1>1, <1>6
    <2>2. CASE role = "host"
      <3>1. \A e \in Late \cup Range(arrived) : e # i
        <4> SUFFICES ASSUME i \in Late \cup Range(arrived) PROVE FALSE
          OBVIOUS
        <4>1. <<i, i>> \in InOrder
          BY <1>4, <1>6, <2>2 DEF IInv, ChainInv, Then
        <4> QED BY <4>1, Ordered
      <3> QED BY <1>0, <1>10, <1>11, <2>2, <3>1 DEF Here
    <2>3. CASE role = "client"
      BY <1>0, <1>3, <1>10, <1>11, <2>3 DEF Here
    <2> QED BY <1>4, <2>2, <2>3
  <1>13. IInv'
    <2>1. StateInv' /\ SessionsInv' /\ LeftInv'
      BY <1>0 DEF IInv, StateInv, SessionsInv, LeftInv
    <2>2. RestInv'
      BY <1>0 DEF IInv, RestInv
    <2>3. QueuesInv'
      BY <1>0, <1>6, <1>8, <1>9 DEF IInv, QueuesInv
    <2>4. CallsInv'
      BY <1>0, <1>9 DEF IInv, CallsInv
    <2>5. PlacesInv'
      BY <1>0, <1>11 DEF IInv, PlacesInv, From, Reliable
    <2>6. SortedInv'
      BY <1>0, <1>6, <1>9 DEF IInv, SortedInv
    <2>7. ChainInv'
      <3>1. ChainInv
        BY DEF IInv
      <3>2. Then({i}, Here', InOrder)
        BY <1>7, <1>11, <1>12 DEF Then
      <3>3. loose' = loose
        BY <1>0
      <3>4. Range(ready) \subseteq Here /\ Late \subseteq Here /\ Range(arrived) \subseteq Here
        BY DEF Here
      <3>5. Then({i}, Carried \cup Held, InOrder)
        BY ONLY <1>7, <3>1, <3>4 DEF ChainInv, Then, Here
      <3>6. Then(Read', Here' \cup Carried' \cup Held', InOrder')
        BY ONLY <1>9, <1>11, <3>1, <3>2, <3>5 DEF ChainInv, Then
      <3>7. /\ Then(Range(ready'), Late' \cup Range(arrived') \cup Carried' \cup Held', InOrder')
            /\ Then(Late', Range(arrived') \cup Carried' \cup Held', InOrder')
            /\ Then(Range(arrived'), Carried' \cup Held', InOrder')
            /\ Then(Carried', Held', InOrder')
        BY ONLY <1>9, <1>11, <3>1 DEF ChainInv, Then
      <3>8. loose' \cap (Read' \cup Here' \cup Carried' \cup Held') = {}
        BY ONLY <1>7, <1>11, <3>1, <3>3 DEF ChainInv
      <3> QED BY <3>6, <3>7, <3>8 DEF ChainInv
    <2>8. ComingInv'
      <3>1. \A l : Due(l)' = Due(l)
        BY <1>0, <1>9 DEF Due
      <3>2. \A e : Order!Before(e)' = Order!Before(e)
        BY <1>0 DEF Order!Before
      <3>3. Read' \cup Here' = Read \cup Here
        BY <1>7, <1>11
      <3>4. ComingInv
        BY DEF IInv
      <3> QED BY <1>0, <1>11, <3>1, <3>2, <3>3, <3>4 DEF ComingInv, Reliable
    <2> QED BY <2>1, <2>2, <2>3, <2>4, <2>5, <2>6, <2>7, <2>8 DEF IInv
  <1>14. Order!ReadNext
    <2>1. \A e \in Read : <<e, i>> \in InOrder
      BY <1>7 DEF IInv, ChainInv, Then
    <2>2. i \notin Read
      <3>1. i \in Read => <<i, i>> \in InOrder
        BY <2>1
      <3> QED BY <3>1, Ordered
    <2>3. i > left[sent[i].link]
      <3>1. left[sent[i].link] < i
        BY <1>7 DEF IInv, PlacesInv
      <3> QED BY <3>1
    <2>4. ASSUME sent[i].rel, NEW e \in Order!Before(i) PROVE e \in Read
      <3>1. e \in Read \cup Here
        BY <1>0, <1>7, <2>4, BeforeHere DEF Reliable
      <3>2. e \in Due(sent[i].link) /\ e < i /\ e \notin sent[i].over /\ i \in Nat
        BY <1>6, <2>4, DueBefore DEF IInv
      <3>3. e \in Calls /\ sent[e].rel /\ sent[e].link = sent[i].link /\ e \in Nat
        BY <3>2, DueBefore DEF Due, IInv
      <3>4. <<i, e>> \notin InOrder
        <4>1. <<i, e>> \in InOrder => i < e \/ e \in sent[i].over
          BY <2>4, <3>3, Ordered
        <4> QED BY <3>2, <3>3, <4>1
      <3>5. e # i
        BY <3>2
      <3> QED BY <1>7, <3>1, <3>4, <3>5
    <2>5. ASSUME sent[i].rel PROVE Order!NotPassed(i)
      <3> SUFFICES ASSUME NEW e \in Read, sent[e].link = sent[i].link, sent[e].rel
                   PROVE  e < i \/ i \in sent[e].over
        BY DEF Order!NotPassed, Order!Read, Read, Range
      <3> QED BY <2>1, <2>5, Ordered
    <2>6. Order!Read = Read
      BY DEF Order!Read, Read, Range
    <2>7. UNCHANGED <<sent, sess, left, Objects \ alive>>
      BY <1>0
    <2>8. i \in DOMAIN sent \ Order!Read
      BY <1>6, <2>2, <2>6 DEF Calls
    <2> QED BY <1>0, <2>3, <2>4, <2>5, <2>6, <2>7, <2>8 DEF Order!ReadNext
  <1> QED BY <1>13, <1>14

-----------------------------------------------------------------------------
\* The sending end.

\* What a poll takes from the links, and what it leaves.
LEMMA PumpFacts ==
    ASSUME IInv, NEW due \in [HeldLinks -> 0 .. MaxSends],
           \A l \in HeldLinks : due[l] <= Len(held[l]),
           held' = [l \in HeldLinks |-> SubSeq(held[l], due[l] + 1, Len(held[l]))]
    PROVE  LET out == SubSeq(held["one"], 1, due["one"]) \o SubSeq(held["all"], 1, due["all"])
           IN  /\ out \in Seq(Calls) /\ Sorted(out, InOrder)
               /\ held' \in [HeldLinks -> Seq(Calls)]
               /\ \A l \in HeldLinks : /\ Sorted(held'[l], InOrder)
                                       /\ Range(held'[l]) \subseteq Range(held[l])
                                       /\ Range(held[l]) \subseteq Range(held'[l]) \cup Range(out)
                                       /\ held[l] = <<>> => held'[l] = <<>>
               /\ Range(out) \subseteq Held
               /\ Then(Range(out), Range(held'["one"]) \cup Range(held'["all"]), InOrder)
PROOF
  <1> DEFINE front(l) == SubSeq(held[l], 1, due[l])
             back(l) == SubSeq(held[l], due[l] + 1, Len(held[l]))
             out == front("one") \o front("all")
  <1>0. "one" \in HeldLinks /\ "all" \in HeldLinks /\ HeldLinks = {"one", "all"}
    BY DEF HeldLinks
  <1>1. \A l \in HeldLinks : held[l] \in Seq(Calls) /\ Sorted(held[l], InOrder)
    BY QueueTypes DEF IInv, SortedInv
  <1>2. ASSUME NEW l \in HeldLinks
        PROVE  /\ front(l) \in Seq(Calls) /\ back(l) \in Seq(Calls)
               /\ Range(held[l]) = Range(front(l)) \cup Range(back(l))
               /\ Sorted(front(l), InOrder) /\ Sorted(back(l), InOrder)
               /\ Then(Range(front(l)), Range(back(l)), InOrder)
    <2>1. due[l] \in 0 .. Len(held[l])
      <3>1. due[l] \in Nat /\ Len(held[l]) \in Nat
        BY <1>1, BoundsAssumption
      <3> QED BY <3>1
    <2> QED BY <1>1, <2>1, SplitFacts
  <1>3. held' = [l \in HeldLinks |-> back(l)]
    OBVIOUS
  <1> HIDE DEF front, back
  <1>4. held' \in [HeldLinks -> Seq(Calls)] /\ \A l \in HeldLinks : held'[l] = back(l)
    BY <1>2, <1>3
  <1>5. \A l \in HeldLinks : \A i \in Range(front(l)) \cup Range(back(l)) :
          i \in Calls /\ sent[i].link = l
    BY <1>0, <1>2, QueueTypes DEF IInv, PlacesInv, Held
  <1>6. \A l, k \in HeldLinks : \A i \in Range(front(l)), e \in Range(front(k)) \cup Range(back(k)) :
          l # k => <<i, e>> \in InOrder
    <2>1. \A l, k \in HeldLinks : \A i \in Range(front(l)), e \in Range(front(k)) \cup Range(back(k)) :
            l # k => i # e /\ i \in Calls /\ e \in Calls /\ sent[i].link # sent[e].link
      BY ONLY <1>5
    <2> QED BY ONLY <2>1, Apart
  <1>7. /\ out \in Seq(Calls) /\ Range(out) = Range(front("one")) \cup Range(front("all"))
        /\ Sorted(out, InOrder)
    <2>1. Then(Range(front("one")), Range(front("all")), InOrder)
      BY <1>0, <1>6 DEF Then
    <2> QED BY <1>0, <1>2, <2>1, JoinFacts
  <1> HIDE DEF out
  <1>8. Then(Range(out), Range(held'["one"]) \cup Range(held'["all"]), InOrder)
    <2> SUFFICES ASSUME NEW l \in HeldLinks, NEW k \in HeldLinks,
                        NEW i \in Range(front(l)), NEW e \in Range(back(k))
                 PROVE  <<i, e>> \in InOrder
      BY <1>0, <1>4, <1>7 DEF Then
    <2>1. CASE l = k
      BY <1>2, <2>1 DEF Then
    <2>2. CASE l # k
      BY <1>6, <2>2
    <2> QED BY <2>1, <2>2
  <1>9. ASSUME NEW l \in HeldLinks, held[l] = <<>> PROVE held'[l] = <<>>
    <2>1. Range(back(l)) = {}
      BY <1>2, <1>9, NothingIn
    <2> QED BY <1>2, <1>4, <2>1, EmptyRange
  <1>10. Range(out) \subseteq Held
    BY <1>0, <1>2, <1>7 DEF Held
  <1>11. \A l \in HeldLinks : /\ Sorted(held'[l], InOrder)
                              /\ Range(held'[l]) \subseteq Range(held[l])
                              /\ Range(held[l]) \subseteq Range(held'[l]) \cup Range(out)
    BY <1>0, <1>2, <1>4, <1>7
  <1> QED BY <1>4, <1>7, <1>8, <1>9, <1>10, <1>11 DEF out, front

\* The sender's poll releases what is due.
LEMMA SendPollHolds ==
    ASSUME IInv, SendPoll
    PROVE  IInv'
PROOF
  <1>1. PICK due \in [HeldLinks -> 0 .. MaxSends] :
          /\ \A l \in HeldLinks : due[l] <= Len(held[l])
          /\ LET out == SubSeq(held["one"], 1, due["one"])
                        \o SubSeq(held["all"], 1, due["all"])
                 there == {i \in Range(out) : sent[i].obj \in alive \cup {"link"}}
             IN  InnerRpc(Sift(out, there), sent)
          /\ held' = [l \in HeldLinks |-> SubSeq(held[l], due[l] + 1, Len(held[l]))]
    BY DEF SendPoll
  <1>2. UNCHANGED <<role, alive, sent, sim, sess, heard, left, conn, parted_s, parted_r, arrived,
                    recv_sim, peer_sim, late, ready, got>>
    BY DEF SendPoll, session, Configs, wrapper
  <1> DEFINE out == SubSeq(held["one"], 1, due["one"]) \o SubSeq(held["all"], 1, due["all"])
             there == {i \in Range(out) : sent[i].obj \in alive \cup {"link"}}
             going == Sift(out, there)
  <1>3. /\ out \in Seq(Calls) /\ Sorted(out, InOrder)
        /\ held' \in [HeldLinks -> Seq(Calls)]
        /\ \A l \in HeldLinks : /\ Sorted(held'[l], InOrder)
                                /\ Range(held'[l]) \subseteq Range(held[l])
                                /\ Range(held[l]) \subseteq Range(held'[l]) \cup Range(out)
                                /\ held[l] = <<>> => held'[l] = <<>>
        /\ Range(out) \subseteq Held
        /\ Then(Range(out), Range(held'["one"]) \cup Range(held'["all"]), InOrder)
    BY <1>1, PumpFacts
  <1>4. InnerRpc(going, sent)
    BY <1>1
  <1> HIDE DEF out
  <1>5. going \in Seq(Calls) /\ Range(going) = there /\ Sorted(going, InOrder)
    <2>1. there \subseteq Range(out)
      OBVIOUS
    <2> HIDE DEF there
    <2>2. going \in Seq(Calls) /\ Range(going) = Range(out) \cap there
      BY <1>3, SiftFacts
    <2>3. Sorted(going, InOrder)
      BY <1>3, SiftFacts
    <2> QED BY <2>1, <2>2, <2>3
  <1> HIDE DEF going
  <1>6. stream \in [Sources -> Seq(Calls)]
    BY DEF IInv, QueuesInv
  <1>7. \/ ~conn /\ stream' = stream /\ loose' = loose
        \/ /\ conn
           /\ loose' = loose \cup {i \in Range(going) : ~sent[i].rel}
           /\ stream' \in [Sources -> Seq(Calls)]
           /\ stream'["mesh"] = stream["mesh"]
           /\ Range(stream'["peer"])
                = Range(stream["peer"]) \cup {i \in Range(going) : sent[i].rel}
           /\ \A R : Sorted(stream["peer"], R) /\ Sorted(going, R)
                       /\ Then(Range(stream["peer"]), Range(going), R)
                     => Sorted(stream'["peer"], R)
    BY <1>4, <1>5, <1>6, RpcFacts
  <1> DEFINE new == IF conn THEN {i \in there : sent[i].rel} ELSE {}
             flies == IF conn THEN {i \in there : ~sent[i].rel} ELSE {}
  <1>8. Held' = Range(held'["one"]) \cup Range(held'["all"]) /\ Held' \subseteq Held
        /\ "one" \in HeldLinks /\ "all" \in HeldLinks
    BY <1>3 DEF Held, HeldLinks
  <1>9. there \subseteq Held /\ there \subseteq Range(out)
    BY <1>3
  <1>10. Then(Range(stream["peer"]), Range(going), InOrder)
    BY <1>5, <1>9 DEF IInv, ChainInv, Then, Carried
  <1>11. /\ stream' \in [Sources -> Seq(Calls)] /\ stream'["mesh"] = stream["mesh"]
         /\ Range(stream'["peer"]) = Range(stream["peer"]) \cup new
         /\ Sorted(stream'["peer"], InOrder) /\ loose' = loose \cup flies
         /\ ~conn => stream' = stream
    <2>1. Sorted(stream["peer"], InOrder)
      BY DEF IInv, SortedInv, Sources
    <2>2. CASE ~conn
      BY <1>6, <1>7, <2>1, <2>2
    <2>3. CASE conn
      BY <1>5, <1>7, <1>10, <2>1, <2>3
    <2> QED BY <2>2, <2>3
  <1>12. new \subseteq there /\ flies \subseteq there /\ new \cap flies = {}
         /\ \A i \in flies : ~sent[i].rel
    OBVIOUS
  <1>13. \A i \in there : conn => i \in new \/ ~sent[i].rel
    OBVIOUS
  <1> HIDE DEF new, flies
  <1>14. there \cap Held' = {}
    <2> SUFFICES ASSUME NEW i \in there, i \in Held' PROVE FALSE
      OBVIOUS
    <2>1. <<i, i>> \in InOrder
      BY <1>3, <1>8, <1>9 DEF Then
    <2> QED BY <2>1, Ordered
  <1>15. Calls' = Calls /\ InOrder' = InOrder
    BY <1>2, SameCalls
  <1>16. /\ Read' = Read /\ Late' = Late /\ Here' = Here /\ Range(ready') = Range(ready)
         /\ Range(arrived') = Range(arrived) /\ Carried' = Carried \cup new
    BY <1>2, <1>11 DEF Read, Late, Here, Carried
  <1>17. there \subseteq Calls
    BY <1>9, QueueTypes DEF IInv
  <1>18. StateInv' /\ SessionsInv' /\ LeftInv'
    <2>1. StateInv' /\ SessionsInv'
      BY <1>2 DEF IInv, StateInv, SessionsInv
    <2>2. Len(sent') \in Nat /\ Len(sent) <= Len(sent')
      BY <1>2 DEF IInv, StateInv
    <2>3. Range(held'["one"]) \subseteq Range(held["one"])
      BY <1>3, <1>8
    <2> QED BY <1>2, <2>1, <2>2, <2>3, LeftHolds
  <1>19. RestInv'
    BY <1>2, <1>3, <1>8, <1>11 DEF IInv, RestInv
  <1>20. QueuesInv'
    BY <1>2, <1>3, <1>11, <1>12, <1>15, <1>17 DEF IInv, QueuesInv
  <1>21. CallsInv'
    BY <1>2, <1>15 DEF IInv, CallsInv
  <1>22. \A i \in there : From(i) = "peer" /\ left[sent[i].link] < i
    BY <1>9 DEF IInv, PlacesInv, Held, HeldLinks, From
  <1>23. PlacesInv'
    <2>1. \A s \in Sources : \A i \in Range(late'[s]) \cup Range(stream'[s]) : From(i)' = s
      BY <1>2, <1>11, <1>12, <1>22 DEF IInv, PlacesInv, From, Sources
    <2>2. \A k \in HeldLinks : \A i \in Range(held'[k]) : sent'[i].link = k
      BY <1>2, <1>3 DEF IInv, PlacesInv
    <2>3. \A i \in loose' : ~Reliable(i)' /\ From(i)' = "peer"
      BY <1>2, <1>11, <1>12, <1>22 DEF IInv, PlacesInv, Reliable, From
    <2>4. \A i \in Here' \cup Carried' \cup loose' \cup Held' :
             left'[sent'[i].link] < i
      BY <1>2, <1>8, <1>11, <1>12, <1>16, <1>22 DEF IInv, PlacesInv
    <2> QED BY <2>1, <2>2, <2>3, <2>4 DEF PlacesInv
  <1>24. SortedInv'
    BY <1>2, <1>3, <1>11, <1>15 DEF IInv, SortedInv, Sources
  <1>25. ChainInv'
    <2>1. ChainInv
      BY DEF IInv
    <2>2. Then(there, Held', InOrder)
      BY <1>3, <1>8, <1>9 DEF Then
    <2>3. /\ Then(Read', Here' \cup Carried' \cup Held', InOrder')
          /\ Then(Range(ready'), Late' \cup Range(arrived') \cup Carried' \cup Held', InOrder')
          /\ Then(Late', Range(arrived') \cup Carried' \cup Held', InOrder')
          /\ Then(Range(arrived'), Carried' \cup Held', InOrder')
      BY ONLY <1>8, <1>9, <1>12, <1>15, <1>16, <2>1 DEF ChainInv, Then
    <2>4. Then(Carried', Held', InOrder')
      BY ONLY <1>8, <1>12, <1>15, <1>16, <2>1, <2>2 DEF ChainInv, Then
    <2>5. Held \cap (Read \cup Here \cup Carried) = {}
      <3> SUFFICES ASSUME NEW i \in Held, i \in Read \cup Here \cup Carried PROVE FALSE
        OBVIOUS
      <3>1. <<i, i>> \in InOrder
        BY <2>1 DEF ChainInv, Then, Here
      <3> QED BY <3>1, Ordered
    <2>6. loose' \cap (Read' \cup Here' \cup Carried' \cup Held') = {}
      BY ONLY <1>8, <1>9, <1>11, <1>12, <1>14, <1>16, <2>1, <2>5 DEF ChainInv
    <2> QED BY <2>3, <2>4, <2>6 DEF ChainInv
  <1>26. ComingInv'
    <2>1. \A l : Due(l)' = Due(l)
      BY <1>2, <1>15 DEF Due
    <2>2. \A e : Order!Before(e)' = Order!Before(e)
      BY <1>2 DEF Order!Before
    <2>3. ASSUME conn', NEW k \in HeldLinks, NEW e \in Due(k)
          PROVE  e \in Read' \cup Here' \cup Range(stream'["peer"]) \cup Range(held'[k])
      <3>1. e \in Read \cup Here \cup Range(stream["peer"]) \cup Range(held[k])
        BY <1>2, <2>3 DEF IInv, ComingInv
      <3>2. ASSUME e \in Range(out) PROVE e \in Range(stream'["peer"])
        <4>1. e \in Calls /\ sent[e].rel /\ sent[e].link # "mesh" /\ sent[e].obj \notin Objects \ alive
          BY <2>3 DEF Due, HeldLinks
        <4>2. sent[e].obj \in alive \cup {"link"}
          BY <4>1 DEF IInv, CallsInv
        <4> QED BY <1>2, <1>11, <1>13, <2>3, <3>2, <4>1, <4>2
      <3> QED BY <1>3, <1>11, <1>16, <3>1, <3>2
    <2>4. ComingInv
      BY DEF IInv
    <2> QED BY <1>2, <1>11, <1>16, <2>1, <2>2, <2>3, <2>4 DEF ComingInv, Reliable
  <1> QED BY <1>18, <1>19, <1>20, <1>21, <1>23, <1>24, <1>25, <1>26 DEF IInv

\* A call is made, and put where it may stand: behind what the transport has
\* (with what the link holds let pass), among the loose ones, behind what
\* the link holds, or nowhere.
Source(k) == IF k = "mesh" THEN "mesh" ELSE "peer"

Put(k, rel, o, over, toS, toL, toH) ==
    LET n == Len(sent) + 1
    IN  /\ Len(sent) < MaxSends
        /\ Made(k, rel, o, over)
        /\ UNCHANGED <<role, alive, sess, heard, left, sim, conn, parted_s, parted_r,
                       arrived, recv_sim, peer_sim, late, ready, got>>
        /\ toS \subseteq {n} /\ toL \subseteq {n} /\ toH \subseteq {n}
        /\ stream' \in [Sources -> Seq(Calls')] /\ held' \in [HeldLinks -> Seq(Calls')]
        /\ \A s \in Sources : /\ Sorted(stream'[s], InOrder')
                              /\ Range(stream'[s]) = IF s = Source(k) THEN Range(stream[s]) \cup toS
                                                                      ELSE Range(stream[s])
        /\ \A l \in HeldLinks : /\ Sorted(held'[l], InOrder')
                                /\ Range(held'[l]) = IF l = k THEN Range(held[l]) \cup toH
                                                              ELSE Range(held[l])
        /\ loose' = loose \cup toL
        /\ ~conn => stream'["peer"] = stream["peer"]
        /\ n \in toS => rel /\ n \notin toL \cup toH
                            /\ (k \in HeldLinks => Range(held[k]) \subseteq over)
        /\ n \in toL => ~rel /\ k \in HeldLinks /\ n \notin toH
        /\ n \in toH => k \in HeldLinks
        /\ rel /\ (conn \/ k = "mesh") => n \in toS \cup toH

\* A call is made and put at one of the places it may go to.
LEMMA PutHolds ==
    ASSUME IInv, NEW k \in Links, NEW rel \in BOOLEAN, NEW o \in Objects \cup {"link", "none"},
           k # "mesh" => o \in Objects \cup {"link"},
           NEW over \in SUBSET Calls, NEW toS, NEW toL, NEW toH,
           Put(k, rel, o, over, toS, toL, toH)
    PROVE  IInv' /\ Order!Call
PROOF
  <1>n. PICK n : n = Len(sent) + 1
    OBVIOUS
  <1>0. /\ role' = role /\ alive' = alive /\ sess' = sess /\ heard' = heard
        /\ left' = left /\ sim' = sim /\ conn' = conn
        /\ parted_s' = parted_s /\ parted_r' = parted_r /\ arrived' = arrived
        /\ recv_sim' = recv_sim /\ peer_sim' = peer_sim /\ late' = late /\ ready' = ready
        /\ got' = got
    BY <1>n DEF Put
  <1>1. /\ n \in Nat /\ n \notin Calls /\ Calls' = Calls \cup {n}
        /\ sent' \in Seq(Call) /\ Len(sent') <= MaxSends
        /\ \A i \in Calls : i < n /\ sent'[i] = sent[i]
        /\ sent'[n] = [link |-> k, rel |-> rel, obj |-> o, at |-> sess, over |-> over]
        /\ InOrder \subseteq InOrder'
        /\ \A i \in Calls : <<i, n>> \in InOrder'
        /\ \A i \in Calls : i \in over \/ ~rel \/ sent[i].link # k => <<n, i>> \in InOrder'
    <2>1. /\ StateInv /\ SessionsInv /\ Len(sent) < MaxSends /\ Made(k, rel, o, over)
      BY DEF Put, IInv
    <2> QED BY <1>n, <2>1, MadeFacts
  <1>2. /\ toS \subseteq {n} /\ toL \subseteq {n} /\ toH \subseteq {n}
        /\ stream' \in [Sources -> Seq(Calls')] /\ held' \in [HeldLinks -> Seq(Calls')]
        /\ loose' = loose \cup toL
    BY <1>n DEF Put
  <1>3. \A s \in Sources : /\ Sorted(stream'[s], InOrder')
                           /\ Range(stream[s]) \subseteq Range(stream'[s])
                           /\ Range(stream'[s]) \subseteq Range(stream[s]) \cup toS
                           /\ s # Source(k) => Range(stream'[s]) = Range(stream[s])
                           /\ s = Source(k) => toS \subseteq Range(stream'[s])
    BY <1>n DEF Put
  <1>4. \A l \in HeldLinks : /\ Sorted(held'[l], InOrder')
                             /\ Range(held[l]) \subseteq Range(held'[l])
                             /\ Range(held'[l]) \subseteq Range(held[l]) \cup toH
                             /\ l # k => Range(held'[l]) = Range(held[l])
                             /\ l = k => toH \subseteq Range(held'[l])
    BY <1>n DEF Put
  <1>5. /\ ~conn => stream'["peer"] = stream["peer"]
        /\ n \in toS => rel /\ n \notin toL \cup toH
                            /\ (k \in HeldLinks => Range(held[k]) \subseteq over)
        /\ n \in toL => ~rel /\ k \in HeldLinks /\ n \notin toH
        /\ n \in toH => k \in HeldLinks
        /\ rel /\ (conn \/ k = "mesh") => n \in toS \cup toH
    BY <1>n DEF Put
  <1>6. sent' = Append(sent, [link |-> k, rel |-> rel, obj |-> o, at |-> sess, over |-> over])
    BY DEF Put, Made
  <1>7. /\ Read \subseteq Calls /\ Here \subseteq Calls /\ Carried \subseteq Calls
        /\ Held \subseteq Calls /\ loose \subseteq Calls
    BY QueueTypes DEF IInv, QueuesInv
  <1>8. "peer" \in Sources /\ "mesh" \in Sources /\ "one" \in HeldLinks /\ "all" \in HeldLinks
        /\ Sources = {"peer", "mesh"} /\ HeldLinks = {"one", "all"} /\ Source(k) \in Sources
        /\ "mesh" \notin HeldLinks
    BY DEF Sources, HeldLinks, Source
  <1>9. /\ Read' = Read /\ Late' = Late /\ Here' = Here /\ Range(ready') = Range(ready)
        /\ Range(arrived') = Range(arrived)
        /\ Carried' \subseteq Carried \cup toS /\ Carried \subseteq Carried'
        /\ Held' \subseteq Held \cup toH /\ Held \subseteq Held'
    BY <1>0, <1>3, <1>4, <1>8 DEF Read, Late, Here, Carried, Held
  <1>10. \A i \in Calls : sent'[i] = sent[i] /\ From(i)' = From(i) /\ (Reliable(i)' <=> Reliable(i))
    BY <1>1 DEF From, Reliable
  <1>11. From(n)' = Source(k) /\ (Reliable(n)' <=> rel) /\ sent'[n].link = k
         /\ sent'[n].at = sess /\ sent'[n].obj = o /\ sent'[n].rel = rel /\ sent'[n].over = over
    BY <1>1 DEF From, Reliable, Source
  <1>12. StateInv'
    BY <1>0, <1>1 DEF IInv, StateInv
  <1>13. SessionsInv' /\ RestInv' /\ LeftInv'
    <2>1. SessionsInv'
      BY <1>0 DEF IInv, SessionsInv
    <2>2. RestInv'
      BY <1>0, <1>5 DEF IInv, RestInv
    <2>3. Len(sent) \in Nat /\ Len(sent') = Len(sent) + 1
      BY <1>6 DEF IInv, StateInv
    <2>4. \A i \in Range(held'["one"]) : i \in Range(held["one"]) \/ i = Len(sent) + 1
      BY <1>n, <1>2, <1>4, <1>8
    <2> QED BY <1>0, <2>1, <2>2, <2>3, <2>4, LeftHolds
  <1>14. QueuesInv'
    <2>1. \A q : q \in Seq(Calls) => q \in Seq(Calls')
      BY <1>1
    <2>2. late \in [Sources -> Seq(Calls')]
      BY <2>1 DEF IInv, QueuesInv
    <2>3. ready \in Seq(Calls') /\ arrived \in Seq(Calls') /\ got \in Seq(Calls')
      BY <2>1 DEF IInv, QueuesInv
    <2>4. loose' \subseteq Calls'
      BY <1>1, <1>2, <1>7
    <2> QED BY <1>0, <1>2, <2>2, <2>3, <2>4 DEF QueuesInv
  <1>15. CallsInv'
    <2>1. sess \in Nat
      BY DEF IInv, SessionsInv
    <2> QED BY <1>0, <1>1, <1>10, <1>11, <2>1 DEF IInv, CallsInv
  <1>16. PlacesInv'
    <2>1. ASSUME NEW s \in Sources, NEW i \in Range(late'[s]) \cup Range(stream'[s])
          PROVE  From(i)' = s
      <3>1. i \in Range(late[s]) \cup Range(stream[s]) \/ (i = n /\ s = Source(k))
        BY <1>0, <1>2, <1>3, <2>1
      <3>2. CASE i \in Range(late[s]) \cup Range(stream[s])
        <4>1. From(i) = s /\ i \in Calls
          BY <1>7, <1>8, <3>2 DEF IInv, PlacesInv, Here, Late, Carried
        <4> QED BY <1>10, <4>1
      <3> QED BY <1>11, <3>1, <3>2
    <2>2. ASSUME NEW l \in HeldLinks, NEW i \in Range(held'[l]) PROVE sent'[i].link = l
      <3>1. i \in Range(held[l]) \/ (i = n /\ l = k)
        BY <1>2, <1>4, <2>2
      <3>2. CASE i \in Range(held[l])
        <4>1. sent[i].link = l /\ i \in Calls
          BY <1>7, <1>8, <3>2 DEF IInv, PlacesInv, Held
        <4> QED BY <1>10, <4>1
      <3> QED BY <1>11, <3>1, <3>2
    <2>3. ASSUME NEW i \in loose' PROVE ~Reliable(i)' /\ From(i)' = "peer"
      <3>1. CASE i \in loose
        BY <1>7, <1>10, <3>1 DEF IInv, PlacesInv
      <3>2. CASE i = n /\ n \in toL
        BY <1>5, <1>8, <1>11, <3>2 DEF Source
      <3> QED BY <1>2, <2>3, <3>1, <3>2
    <2>4. ASSUME NEW i \in Here' \cup Carried' \cup loose' \cup Held'
          PROVE  left'[sent'[i].link] < i
      <3>1. i \in Here \cup Carried \cup loose \cup Held \/ i = n
        BY <1>2, <1>9
      <3>2. CASE i \in Here \cup Carried \cup loose \cup Held
        BY <1>0, <1>7, <1>10, <3>2 DEF IInv, PlacesInv
      <3>3. left[k] < n
        <4>1. left[k] \in Nat /\ left[k] <= Len(sent) /\ Len(sent) \in Nat
          BY DEF IInv, StateInv, LeftInv
        <4> QED BY <1>n, <4>1
      <3> QED BY <1>0, <1>11, <3>1, <3>2, <3>3
    <2> QED BY <2>1, <2>2, <2>3, <2>4 DEF PlacesInv
  <1>17. SortedInv'
    <2>1. \A q : Sorted(q, InOrder) => Sorted(q, InOrder')
      BY <1>1 DEF Sorted
    <2> QED BY <1>0, <1>3, <1>4, <2>1 DEF IInv, SortedInv
  <1>18. ChainInv'
    <2>1. ChainInv
      BY DEF IInv
    <2>2. \A e \in toS : e = n /\ \A i \in Held : <<e, i>> \in InOrder'
      <3> SUFFICES ASSUME n \in toS, NEW i \in Held PROVE <<n, i>> \in InOrder'
        BY <1>2
      <3>1. i \in Calls
        BY <1>7
      <3>2. i \in over \/ sent[i].link # k
        BY <1>5, <1>8 DEF IInv, PlacesInv, Held
      <3> QED BY <1>1, <3>1, <3>2
    <2>3. n \in toS => toH = {}
      BY <1>2, <1>5
    <2>4. \A i \in toH \cup toS : i = n
      BY <1>2
    <2>5. \A e \in Calls, i \in toH \cup toS : <<e, i>> \in InOrder'
      BY <1>1, <2>4
    <2>6. Range(ready) \subseteq Calls /\ Late \subseteq Calls /\ Range(arrived) \subseteq Calls
      BY <1>7 DEF Here
    <2>7. InOrder \subseteq InOrder'
      BY <1>1
    <2>8. /\ Then(Read', Here' \cup Carried' \cup Held', InOrder')
          /\ Then(Range(ready'), Late' \cup Range(arrived') \cup Carried' \cup Held', InOrder')
          /\ Then(Late', Range(arrived') \cup Carried' \cup Held', InOrder')
          /\ Then(Range(arrived'), Carried' \cup Held', InOrder')
      BY ONLY <1>7, <1>9, <2>1, <2>5, <2>6, <2>7 DEF ChainInv, Then
    <2>9. Then(Carried', Held', InOrder')
      <3> SUFFICES ASSUME NEW e \in Carried', NEW i \in Held' PROVE <<e, i>> \in InOrder'
        BY DEF Then
      <3>1. CASE e \in Carried /\ i \in Held
        BY <2>1, <2>7, <3>1 DEF ChainInv, Then
      <3>2. CASE e \in Carried /\ i \in toH
        BY <1>7, <2>5, <3>2
      <3>3. CASE e \in toS /\ i \in Held
        BY <2>2, <3>3
      <3>4. ~(e \in toS /\ i \in toH)
        BY <2>3, <2>4
      <3> QED BY <1>9, <3>1, <3>2, <3>3, <3>4
    <2>10. loose' \cap (Read' \cup Here' \cup Carried' \cup Held') = {}
      <3>1. \A i \in toL : i = n /\ i \notin toS /\ i \notin toH
        BY <1>2, <1>5
      <3>2. \A i \in toS \cup toH : i = n
        BY <2>4
      <3> QED BY ONLY <1>1, <1>2, <1>7, <1>9, <2>1, <3>1, <3>2 DEF ChainInv
    <2> QED BY <2>8, <2>9, <2>10 DEF ChainInv
  <1>19. ComingInv'
    <2>1. ASSUME NEW l, NEW e \in Due(l)'
          PROVE  e \in Due(l) \/ (e = n /\ l = k /\ rel)
      BY <1>0, <1>1, <1>10, <1>11, <2>1 DEF Due
    <2>2. ASSUME conn', NEW l \in HeldLinks, NEW e \in Due(l)'
          PROVE  e \in Read' \cup Here' \cup Range(stream'["peer"]) \cup Range(held'[l])
      <3>1. CASE e \in Due(l)
        BY <1>0, <1>3, <1>4, <1>8, <1>9, <2>2, <3>1 DEF IInv, ComingInv
      <3>2. CASE e = n /\ l = k /\ rel
        <4>1. Source(k) = "peer"
          BY <1>8, <2>2, <3>2 DEF Source
        <4> QED BY <1>0, <1>3, <1>4, <1>5, <1>8, <2>2, <3>2, <4>1
      <3> QED BY <2>1, <2>2, <3>1, <3>2
    <2>3. ASSUME ~parted_r', NEW e \in Due("mesh")'
          PROVE  e \in Read' \cup Here' \cup Range(stream'["mesh"])
      <3>1. CASE e \in Due("mesh")
        BY <1>0, <1>3, <1>8, <1>9, <2>3, <3>1 DEF IInv, ComingInv
      <3>2. CASE e = n /\ k = "mesh" /\ rel
        <4>1. n \in toS /\ Source(k) = "mesh"
          BY <1>5, <1>8, <3>2 DEF Source
        <4> QED BY <1>3, <1>8, <3>2, <4>1
      <3> QED BY <2>1, <2>3, <3>1, <3>2
    <2>4. ASSUME ~conn', ~parted_r', NEW i \in Here', Reliable(i)', sent'[i].link # "mesh"
          PROVE  Order!Before(i)' \subseteq Read' \cup Here'
      <3>1. i \in Calls /\ i \in Here /\ Reliable(i)
        BY <1>7, <1>9, <1>10, <2>4
      <3>2. \A e \in 1 .. (i - 1) : e \in Calls
        <4>1. Calls = 1 .. Len(sent) /\ Len(sent) \in Nat
          BY DEF IInv, StateInv, Calls
        <4> QED BY <3>1, <4>1
      <3>3. Order!Before(i)' = Order!Before(i)
        BY <1>0, <1>10, <3>1, <3>2 DEF Order!Before
      <3> QED BY <1>0, <1>9, <2>4, <3>1, <3>3, BeforeHere
    <2> QED BY <2>2, <2>3, <2>4 DEF ComingInv
  <1>20. Order!Call
    <2> DEFINE c == sent'[n]
    <2>1. n \in DOMAIN sent'
      BY <1>1 DEF Calls
    <2>2. sent' = Append(sent, c) /\ c.link \in Links /\ c.at = sess
      BY <1>1, <1>6
    <2>3. c.over \subseteq DOMAIN sent
      BY <1>11 DEF Calls
    <2>4. UNCHANGED <<got, sess, left, Objects \ alive>>
      BY <1>0
    <2>5. c \in {sent'[i] : i \in DOMAIN sent'}
      BY <2>1
    <2> HIDE DEF c
    <2> QED BY <2>2, <2>3, <2>4, <2>5 DEF Order!Call
  <1> QED BY <1>12, <1>13, <1>14, <1>15, <1>16, <1>17, <1>18, <1>19, <1>20 DEF IInv

\* Making a call leaves the queues what they were, in the order of more calls.
LEMMA MadeQueues ==
    ASSUME IInv, NEW k \in Links, NEW rel \in BOOLEAN,
           NEW o \in Objects \cup {"link", "none"}, NEW over \in SUBSET Calls,
           Len(sent) < MaxSends, Made(k, rel, o, over)
    PROVE  LET n == Len(sent) + 1
           IN  /\ n \in Calls' /\ Calls' = Calls \cup {n}
               /\ stream \in [Sources -> Seq(Calls')] /\ held \in [HeldLinks -> Seq(Calls')]
               /\ \A s \in Sources : /\ Sorted(stream[s], InOrder')
                                     /\ Then(Range(stream[s]), {n}, InOrder')
               /\ \A l \in HeldLinks : /\ Sorted(held[l], InOrder')
                                       /\ Then(Range(held[l]), {n}, InOrder')
PROOF
  <1>n. PICK n : n = Len(sent) + 1
    OBVIOUS
  <1>1. /\ Calls' = Calls \cup {n} /\ InOrder \subseteq InOrder'
        /\ \A i \in Calls : <<i, n>> \in InOrder'
    <2>1. StateInv /\ SessionsInv
      BY DEF IInv
    <2> QED BY <1>n, <2>1, MadeFacts
  <1>2. \A q : q \in Seq(Calls) => q \in Seq(Calls')
    BY <1>1
  <1>3. stream \in [Sources -> Seq(Calls')] /\ held \in [HeldLinks -> Seq(Calls')]
    BY <1>2 DEF IInv, QueuesInv
  <1>4. \A q : Sorted(q, InOrder) => Sorted(q, InOrder')
    BY <1>1 DEF Sorted
  <1>5. /\ \A s \in Sources : Sorted(stream[s], InOrder')
        /\ \A l \in HeldLinks : Sorted(held[l], InOrder')
    BY <1>4 DEF IInv, SortedInv
  <1>6. /\ \A s \in Sources : Range(stream[s]) \subseteq Calls
        /\ \A l \in HeldLinks : Range(held[l]) \subseteq Calls
    BY QueueTypes DEF IInv, Carried, Held, Sources, HeldLinks
  <1>7. /\ \A s \in Sources : Then(Range(stream[s]), {n}, InOrder')
        /\ \A l \in HeldLinks : Then(Range(held[l]), {n}, InOrder')
    BY <1>1, <1>6 DEF Then
  <1> QED BY <1>n, <1>1, <1>3, <1>5, <1>7

\* _sim_send, by its link or at once, or lost.
LEMMA SendHolds ==
    ASSUME IInv, NEW k \in HeldLinks, NEW rel \in BOOLEAN, NEW o \in Objects \cup {"link"},
           Sending, (~rel /\ Lost(k, rel, o)) \/ SimSend(k, rel, o)
    PROVE  IInv' /\ Order!Call
PROOF
  <1>n. PICK n : n = Len(sent) + 1
    OBVIOUS
  <1>0. /\ UNCHANGED <<role, alive, sess, heard, left, sim, conn, parted_s, parted_r,
                       arrived, recv_sim, peer_sim, late, ready, got>>
        /\ Len(sent) < MaxSends
    BY DEF Sending, session, wrapper
  <1>1. /\ k \in Links /\ k # "mesh" /\ o \in Objects \cup {"link", "none"} /\ {} \in SUBSET Calls
        /\ Source(k) = "peer" /\ Sources = {"peer", "mesh"}
    BY DEF Links, HeldLinks, Source, Sources
  <1>2. Range(held[k]) \in SUBSET Calls
    BY QueueTypes DEF IInv, Held, HeldLinks
  <1>3. CASE ~rel /\ Lost(k, rel, o)
    <2>1. Made(k, rel, o, {}) /\ held' = held /\ stream' = stream /\ loose' = loose
      BY <1>3 DEF Lost
    <2>2. /\ stream \in [Sources -> Seq(Calls')] /\ held \in [HeldLinks -> Seq(Calls')]
          /\ \A s \in Sources : Sorted(stream[s], InOrder')
          /\ \A l \in HeldLinks : Sorted(held[l], InOrder')
      BY <1>0, <1>1, <2>1, MadeQueues
    <2>3. Put(k, rel, o, {}, {}, {}, {})
      BY <1>0, <1>3, <2>1, <2>2 DEF Put
    <2> QED BY <1>1, <2>3, PutHolds
  <1>4. CASE /\ Made(k, rel, o, Range(held[k]))
             /\ InnerRpc(<<Len(sent) + 1>>, sent')
             /\ UNCHANGED held
    <2>1. /\ n \in Calls'
          /\ stream \in [Sources -> Seq(Calls')] /\ held \in [HeldLinks -> Seq(Calls')]
          /\ \A s \in Sources : /\ Sorted(stream[s], InOrder')
                                /\ Then(Range(stream[s]), {n}, InOrder')
          /\ \A l \in HeldLinks : Sorted(held[l], InOrder')
      BY <1>n, <1>0, <1>1, <1>2, <1>4, MadeQueues
    <2>2. sent'[n].rel = rel
      <3>1. StateInv /\ SessionsInv
        BY DEF IInv
      <3>2. sent'[n] = [link |-> k, rel |-> rel, obj |-> o, at |-> sess, over |-> Range(held[k])]
        BY <1>n, <1>0, <1>1, <1>2, <1>4, <3>1, MadeFacts
      <3> QED BY <3>2
    <2> DEFINE one == <<n>>
    <2>3. one \in Seq(Calls') /\ Range(one) = {n} /\ \A R : Sorted(one, R)
      BY <2>1 DEF Range, Sorted
    <2>4. InnerRpc(one, sent')
      BY <1>n, <1>4
    <2> HIDE DEF one
    <2>5. \/ ~conn /\ stream' = stream /\ loose' = loose
          \/ /\ conn
             /\ loose' = loose \cup {i \in Range(one) : ~sent'[i].rel}
             /\ stream' \in [Sources -> Seq(Calls')]
             /\ stream'["mesh"] = stream["mesh"]
             /\ Range(stream'["peer"])
                  = Range(stream["peer"]) \cup {i \in Range(one) : sent'[i].rel}
             /\ \A R : Sorted(stream["peer"], R) /\ Sorted(one, R)
                         /\ Then(Range(stream["peer"]), Range(one), R)
                       => Sorted(stream'["peer"], R)
      BY <2>1, <2>3, <2>4, RpcFacts
    <2>6. CASE ~conn
      <3>1. Put(k, rel, o, Range(held[k]), {}, {}, {})
        BY <1>0, <1>1, <1>4, <2>1, <2>5, <2>6 DEF Put
      <3> QED BY <1>1, <1>2, <3>1, PutHolds
    <2>7. CASE conn /\ rel
      <3>1. /\ loose' = loose /\ stream'["mesh"] = stream["mesh"]
            /\ Range(stream'["peer"]) = Range(stream["peer"]) \cup {n}
        BY <2>2, <2>3, <2>5, <2>7
      <3>2. Sorted(stream'["peer"], InOrder')
        BY <1>1, <2>1, <2>3, <2>5, <2>7
      <3>3. Put(k, rel, o, Range(held[k]), {n}, {}, {})
        BY <1>n, <1>0, <1>1, <1>4, <2>1, <2>5, <2>7, <3>1, <3>2 DEF Put
      <3> QED BY <1>1, <1>2, <3>3, PutHolds
    <2>8. CASE conn /\ ~rel
      <3>1. /\ loose' = loose \cup {n} /\ stream'["mesh"] = stream["mesh"]
            /\ Range(stream'["peer"]) = Range(stream["peer"])
        BY <2>2, <2>3, <2>5, <2>8
      <3>2. Sorted(stream'["peer"], InOrder')
        BY <1>1, <2>1, <2>3, <2>5, <2>8
      <3>3. Put(k, rel, o, Range(held[k]), {}, {n}, {})
        BY <1>n, <1>0, <1>1, <1>4, <2>1, <2>5, <2>8, <3>1, <3>2 DEF Put
      <3> QED BY <1>1, <1>2, <3>3, PutHolds
    <2> QED BY <2>6, <2>7, <2>8
  <1>5. CASE /\ Made(k, rel, o, {})
             /\ held' = [held EXCEPT ![k] = Append(@, Len(sent) + 1)]
             /\ UNCHANGED air
    <2>1. /\ n \in Calls'
          /\ stream \in [Sources -> Seq(Calls')] /\ held \in [HeldLinks -> Seq(Calls')]
          /\ \A s \in Sources : Sorted(stream[s], InOrder')
          /\ \A l \in HeldLinks : /\ Sorted(held[l], InOrder')
                                  /\ Then(Range(held[l]), {n}, InOrder')
      BY <1>n, <1>0, <1>1, <1>5, MadeQueues
    <2>2. stream' = stream /\ loose' = loose
      BY <1>5 DEF air
    <2> DEFINE q == held[k]
               more == Append(q, n)
    <2>3. more \in Seq(Calls') /\ Range(more) = Range(held[k]) \cup {n} /\ Sorted(more, InOrder')
      <3>1. q \in Seq(Calls') /\ Sorted(q, InOrder') /\ Then(Range(q), {n}, InOrder')
        BY <2>1
      <3> HIDE DEF q
      <3> DEFINE T == Calls'
                 R == InOrder'
      <3>2. q \in Seq(T) /\ n \in T /\ Sorted(q, R) /\ Then(Range(q), {n}, R)
        BY <2>1, <3>1
      <3> HIDE DEF T, R
      <3>3. Append(q, n) \in Seq(T) /\ Range(Append(q, n)) = Range(q) \cup {n}
        BY ONLY <3>2, AppendFacts
      <3>4. Sorted(Append(q, n), R)
        BY ONLY <3>2, PutSorted
      <3> QED BY <3>3, <3>4 DEF q, T, R
    <2>4. held' = [held EXCEPT ![k] = more]
      BY <1>n, <1>5
    <2> HIDE DEF more
    <2>5. /\ held' \in [HeldLinks -> Seq(Calls')]
          /\ \A l \in HeldLinks : held'[l] = IF l = k THEN more ELSE held[l]
      BY <2>1, <2>3, <2>4
    <2>6. Put(k, rel, o, {}, {}, {}, {n})
      BY <1>n, <1>0, <1>5, <2>1, <2>2, <2>3, <2>5 DEF Put
    <2> QED BY <1>1, <2>6, PutHolds
  <1> QED BY <1>3, <1>4, <1>5 DEF SimSend, Lost

\* The three callers of _sim_send.
LEMMA CallHolds ==
    ASSUME IInv,
           \/ \E l \in HeldLinks, rel \in BOOLEAN, o \in Objects : Rpc(l, rel, o)
           \/ SendSnapshot
           \/ SendUplink
    PROVE  IInv' /\ Order!Call
PROOF
  <1>1. ASSUME NEW l \in HeldLinks, NEW rel \in BOOLEAN, NEW o \in Objects, Rpc(l, rel, o)
        PROVE  IInv' /\ Order!Call
    <2>1. PICK k \in HeldLinks : k = LinkOf(l)
      BY DEF LinkOf, HeldLinks
    <2>2. Sending /\ ((~rel /\ Lost(k, rel, o)) \/ SimSend(k, rel, o))
      BY <1>1, <2>1 DEF Rpc
    <2> QED BY <2>2, SendHolds
  <1>2. ASSUME Packet PROVE IInv' /\ Order!Call
    <2>1. "one" \in HeldLinks /\ FALSE \in BOOLEAN /\ "link" \in Objects \cup {"link"}
      BY DEF HeldLinks
    <2>2. /\ Sending
          /\ (~FALSE /\ Lost("one", FALSE, "link")) \/ SimSend("one", FALSE, "link")
      BY <1>2 DEF Packet
    <2> QED BY <2>1, <2>2, SendHolds
  <1> QED BY <1>1, <1>2 DEF SendSnapshot, SendUplink

\* The other peer sends.
LEMMA MeshSendsHolds ==
    ASSUME IInv, MeshSends
    PROVE  IInv' /\ Order!Call
PROOF
  <1>n. PICK n : n = Len(sent) + 1
    OBVIOUS
  <1>0. /\ UNCHANGED <<role, alive, sess, heard, left, sim, held, conn, parted_s, parted_r,
                       arrived, recv_sim, peer_sim, late, ready, got>>
        /\ loose' = loose /\ n <= MaxSends
        /\ Made("mesh", TRUE, "none", {})
        /\ stream' = [stream EXCEPT !["mesh"] = Append(@, n)]
    BY <1>n DEF MeshSends, session, Configs, wrapper
  <1>1. Len(sent) < MaxSends
    <2>1. Len(sent) \in Nat
      BY DEF IInv, StateInv
    <2> QED BY <1>n, <1>0, <2>1, BoundsAssumption
  <1>2. /\ "mesh" \in Links /\ TRUE \in BOOLEAN /\ "none" \in Objects \cup {"link", "none"}
        /\ {} \in SUBSET Calls /\ "mesh" \notin HeldLinks
        /\ Source("mesh") = "mesh" /\ "mesh" \in Sources /\ "peer" \in Sources
    BY DEF Links, HeldLinks, Source, Sources
  <1>3. /\ n \in Calls'
        /\ stream \in [Sources -> Seq(Calls')] /\ held \in [HeldLinks -> Seq(Calls')]
        /\ \A s \in Sources : /\ Sorted(stream[s], InOrder')
                              /\ Then(Range(stream[s]), {n}, InOrder')
        /\ \A l \in HeldLinks : Sorted(held[l], InOrder')
    BY <1>n, <1>0, <1>1, <1>2, MadeQueues
  <1> DEFINE q == stream["mesh"]
             more == Append(q, n)
  <1>4. more \in Seq(Calls') /\ Range(more) = Range(stream["mesh"]) \cup {n} /\ Sorted(more, InOrder')
    <2>1. q \in Seq(Calls') /\ Sorted(q, InOrder') /\ Then(Range(q), {n}, InOrder')
      BY <1>2, <1>3
    <2> HIDE DEF q
    <2>2. more \in Seq(Calls') /\ Range(more) = Range(q) \cup {n} /\ Sorted(more, InOrder')
      BY <1>3, <2>1, PutFacts
    <2> QED BY <2>2 DEF q
  <1>5. stream' = [stream EXCEPT !["mesh"] = more]
    BY <1>0
  <1> HIDE DEF more
  <1>6. /\ stream' \in [Sources -> Seq(Calls')]
        /\ \A s \in Sources : stream'[s] = IF s = "mesh" THEN more ELSE stream[s]
    BY <1>2, <1>3, <1>4, <1>5
  <1>7. stream'["peer"] = stream["peer"]
    BY <1>2, <1>6
  <1>8. Put("mesh", TRUE, "none", {}, {n}, {}, {})
    BY <1>n, <1>0, <1>1, <1>2, <1>3, <1>4, <1>6, <1>7 DEF Put
  <1> QED BY <1>2, <1>8, PutHolds

-----------------------------------------------------------------------------
\* The theorems.

\* Every step keeps the invariant, and is one of CallOrder's or none there.
LEMMA StepHolds ==
    ASSUME IInv, [Next]_vars
    PROVE  IInv' /\ [Order!Next]_Order!vars
PROOF
  <1> DEFINE Silent == UNCHANGED <<sent, got, sess, left, Objects \ alive>>
  <1>1. Silent => [Order!Next]_Order!vars
    BY DEF Order!vars
  <1>2. CASE \/ \E l \in HeldLinks, rel \in BOOLEAN, o \in Objects : Rpc(l, rel, o)
             \/ SendSnapshot \/ SendUplink
    BY <1>2, CallHolds DEF Order!Next
  <1>3. CASE MeshSends
    BY <1>3, MeshSendsHolds DEF Order!Next
  <1>4. CASE SendPoll
    <2>1. Silent
      BY <1>4 DEF SendPoll, session
    <2> QED BY <1>1, <1>4, <2>1, SendPollHolds
  <1>5. ASSUME NEW o \in Objects, Free(o) PROVE IInv' /\ [Order!Next]_Order!vars
    <2>1. /\ UNCHANGED <<role, sent, sess, heard, left, conn, parted_s, parted_r>> /\ UNCHANGED queues
          /\ alive' \subseteq alive /\ sim' = sim /\ recv_sim' = recv_sim /\ peer_sim' = peer_sim
          /\ got' = got /\ sent' = sent /\ sess' = sess /\ left' = left
      BY <1>5 DEF Free, queues, session, Configs, air, wrapper
    <2>2. sim' \in SendConfigs /\ recv_sim' \in RecvConfigs /\ peer_sim' \in RecvConfigs
      BY <2>1 DEF IInv, StateInv
    <2>3. IInv'
      BY ONLY IInv, <2>1, <2>2, QuietHolds
    <2>4. Order!Free
      BY <2>1 DEF Order!Free
    <2> QED BY <2>3, <2>4 DEF Order!Next
  <1>6. ASSUME \/ \E c \in SendConfigs : SetSim(c)
               \/ \E c \in RecvConfigs : SetRecvSim(c)
               \/ UNCHANGED vars
        PROVE  IInv' /\ [Order!Next]_Order!vars
    <2>1. /\ UNCHANGED <<role, sent, sess, heard, left, conn, parted_s, parted_r>> /\ UNCHANGED queues
          /\ alive' = alive
      BY <1>6 DEF SetSim, SetRecvSim, vars, queues, session, air, wrapper, sending
    <2>2. sim' \in SendConfigs /\ recv_sim' \in RecvConfigs /\ peer_sim' \in RecvConfigs
      BY <1>6 DEF IInv, StateInv, SetSim, SetRecvSim, vars, wrapper, sending
    <2>3. alive' \subseteq alive
      BY <2>1
    <2>4. IInv'
      BY ONLY IInv, <2>1, <2>2, <2>3, QuietHolds
    <2>5. Silent
      BY <2>1 DEF queues
    <2> QED BY <1>1, <2>4, <2>5
  <1>7. CASE SenderHears
    <2>1. Silent
      BY <1>7 DEF SenderHears
    <2> QED BY <1>1, <1>7, <2>1, SenderHearsHolds
  <1>8. CASE HostCloses \/ Break
    <2>1. /\ conn /\ conn' = FALSE /\ parted_s' \in BOOLEAN
          /\ UNCHANGED <<role, alive, sent, sess, heard, left, sim, recv_sim, peer_sim, parted_r,
                         arrived, late, ready, got>>
          /\ stream' = [stream EXCEPT !["peer"] = <<>>] /\ loose' \subseteq loose
          /\ \/ held' = [held EXCEPT !["one"] = <<>>]
             \/ held' = held /\ parted_s' = parted_s
      <3>1. parted_s \in BOOLEAN
        BY DEF IInv, StateInv
      <3>2. CASE HostCloses
        BY <3>2 DEF HostCloses, ForgetLink, session, Configs, wrapper
      <3>3. CASE Break
        BY <3>1, <3>3 DEF Break, sending, session, wrapper
      <3> QED BY <1>8, <3>2, <3>3
    <2>2. Silent
      BY <2>1
    <2>3. IInv'
      BY ONLY IInv, <2>1, LossHolds
    <2> QED BY <1>1, <2>2, <2>3
  <1>9. CASE Connect
    BY <1>9, ConnectHolds DEF Order!Next
  <1>10. ASSUME NEW s \in Sources, Arrive(s) PROVE IInv' /\ [Order!Next]_Order!vars
    <2>1. Silent
      BY <1>10 DEF Arrive, sending, session
    <2> QED BY <1>1, <1>10, <2>1, ArriveHolds
  <1>11. ASSUME NEW i \in loose, ArriveLoose(i) PROVE IInv' /\ [Order!Next]_Order!vars
    <2>1. Silent
      BY <1>11 DEF ArriveLoose, sending, session
    <2> QED BY <1>1, <1>11, <2>1, ArriveLooseHolds
  <1>12. CASE WrapperPoll
    <2>1. Silent
      BY <1>12 DEF WrapperPoll, sending, session
    <2> QED BY <1>1, <1>12, <2>1, WrapperPollHolds
  <1>13. CASE InnerReads
    BY <1>13, InnerReadsHolds DEF Order!Next
  <1>14. CASE ReceiverHears
    <2>1. Silent
      BY <1>14 DEF ReceiverHears, sending, session
    <2> QED BY <1>1, <1>14, <2>1, ReceiverHearsHolds
  <1>15. CASE MeshLeaves
    BY <1>15, MeshLeavesHolds DEF Order!Next
  <1> QED BY <1>2, <1>3, <1>4, <1>5, <1>6, <1>7, <1>8, <1>9, <1>10, <1>11, <1>12, <1>13,
             <1>14, <1>15 DEF Next

(***************************************************************************)
(* Where every call stands on its way from _sim_send to the inner of the   *)
(* process it is for: at one place, in the order of its link, on a link    *)
(* that was not left since, and with no earlier one left out.              *)
(***************************************************************************)
THEOREM InvariantHolds == Spec => []IInv
PROOF
  <1>1. IInv /\ [Next]_vars => IInv'
    BY StepHolds
  <1> QED BY InitHolds, <1>1, PTL DEF Spec

(***************************************************************************)
(* The state of both ends and the links between them keeps its types.      *)
(***************************************************************************)
THEOREM TypesHold == Spec => []TypeOK
PROOF
  <1>1. IInv => TypeOK
    <2> SUFFICES ASSUME IInv PROVE TypeOK
      OBVIOUS
    <2>1. Calls \subseteq 1 .. MaxSends
      <3>1. Calls = 1 .. Len(sent) /\ Len(sent) \in Nat /\ Len(sent) <= MaxSends
        BY DEF IInv, StateInv, Calls
      <3> QED BY ONLY <3>1, BoundsAssumption
    <2>2. \A q : q \in Seq(Calls) => q \in Seqs
      <3>1. \A S, T : S \subseteq T => \A q : q \in Seq(S) => q \in Seq(T)
        OBVIOUS
      <3>2. \A q : q \in Seq(Calls) => q \in Seq(1 .. MaxSends)
        BY ONLY <2>1, <3>1, Zenon
      <3> QED BY <3>2 DEF Seqs
    <2>3. /\ ready \in Seqs /\ arrived \in Seqs /\ got \in Seqs
          /\ late \in [Sources -> Seqs] /\ stream \in [Sources -> Seqs]
          /\ held \in [HeldLinks -> Seqs] /\ loose \subseteq 1 .. MaxSends
      BY <2>1, <2>2 DEF IInv, QueuesInv
    <2>4. /\ sess \in 0 .. MaxSessions /\ heard \in 0 .. MaxSends
          /\ left \in [Links -> 0 .. MaxSends]
      <3>1. /\ Len(sent) \in Nat /\ Len(sent) <= MaxSends /\ sess \in Nat
            /\ sess <= MaxSessions /\ heard \in Nat /\ heard <= Len(sent)
            /\ left \in [Links -> Nat] /\ \A l \in Links : left[l] <= Len(sent)
        BY DEF IInv, StateInv, SessionsInv, LeftInv
      <3>2. \A l \in Links : left[l] \in 0 .. MaxSends
        BY <3>1, BoundsAssumption
      <3>3. sess \in 0 .. MaxSessions /\ heard \in 0 .. MaxSends
        BY <3>1, BoundsAssumption
      <3> QED BY ONLY <3>1, <3>2, <3>3
    <2>5. sent \in Seq([link : Links, rel : BOOLEAN, obj : Objects \cup {"link", "none"},
                        at : 0 .. MaxSessions, over : SUBSET (1 .. MaxSends)])
      BY DEF IInv, StateInv, Call
    <2>6. /\ role \in {"host", "client"} /\ alive \subseteq Objects /\ sim \in SendConfigs
          /\ {recv_sim, peer_sim} \subseteq RecvConfigs
          /\ {conn, parted_s, parted_r} \subseteq BOOLEAN
      BY DEF IInv, StateInv
    <2> QED BY <2>3, <2>4, <2>5, <2>6 DEF TypeOK
  <1> QED BY InvariantHolds, <1>1, PTL

(***************************************************************************)
(* CallsKeepOrder: whatever is configured on either leg and changed while  *)
(* calls are held, whenever a connection breaks, is replaced or is heard   *)
(* to be gone, the chain from _sim_send to GoldNetSimPeer reads each call  *)
(* once at most, the reliable ones of a link in order, and none to a peer  *)
(* in a session later than the one whose end the sender heard of; a host's *)
(* none but its own client's.  What a client holds when its peer is        *)
(* replaced unheard does come to the next, in order.                       *)
(***************************************************************************)
THEOREM ChainKeepsOrder == Spec => CallsKeepOrder
PROOF
  <1>1. Init => Order!Init
    BY DEF Init, Order!Init
  <1>2. IInv /\ [Next]_vars => [Order!Next]_Order!vars
    BY StepHolds
  <1> QED BY InvariantHolds, <1>1, <1>2, PTL DEF Spec, Order!Spec, CallsKeepOrder

(***************************************************************************)
(* RecvSimHolds, through every session a client joins and every change of  *)
(* set_recv_sim_config in it or between two.                               *)
(***************************************************************************)
THEOREM RecvSimAlwaysHolds == Spec => []RecvSimHolds
PROOF
  <1>1. Init => RecvSimHolds
    BY DEF Init, RecvSimHolds
  <1>2. RecvSimHolds /\ [Next]_vars => RecvSimHolds'
    <2> SUFFICES ASSUME RecvSimHolds, [Next]_vars PROVE RecvSimHolds'
      OBVIOUS
    <2>1. ASSUME UNCHANGED <<peer_sim, recv_sim>>, parted_r' \/ parted_r' = parted_r
          PROVE  RecvSimHolds'
      BY <2>1 DEF RecvSimHolds
    <2>2. ASSUME peer_sim' = recv_sim' PROVE RecvSimHolds'
      BY <2>2 DEF RecvSimHolds
    <2>3. CASE Connect
      BY <2>2, <2>3 DEF Connect, NewWrapper, Configs
    <2>4. CASE \E c \in RecvConfigs : SetRecvSim(c)
      BY <2>2, <2>4 DEF SetRecvSim
    <2>5. CASE ReceiverHears
      BY <2>1, <2>5 DEF ReceiverHears
    <2>6. CASE \/ \E l \in HeldLinks, rel \in BOOLEAN, o \in Objects : Rpc(l, rel, o)
               \/ SendSnapshot \/ SendUplink
      BY <2>1, <2>6 DEF Rpc, SendSnapshot, SendUplink, Packet, Sending, wrapper
    <2>7. CASE \/ SendPoll
               \/ \E o \in Objects : Free(o)
               \/ \E c \in SendConfigs : SetSim(c)
               \/ SenderHears \/ HostCloses \/ Break
               \/ \E s \in Sources : Arrive(s)
               \/ \E i \in loose : ArriveLoose(i)
               \/ MeshSends
      BY <2>1, <2>7 DEF SendPoll, Free, SetSim, SenderHears, HostCloses, Break, Arrive,
                        ArriveLoose, MeshSends, wrapper, Configs
    <2>8. CASE WrapperPoll \/ InnerReads \/ MeshLeaves
      BY <2>1, <2>8 DEF WrapperPoll, InnerReads, MeshLeaves
    <2>9. CASE UNCHANGED vars
      BY <2>1, <2>9 DEF vars
    <2> QED BY <2>3, <2>4, <2>5, <2>6, <2>7, <2>8, <2>9 DEF Next
  <1> QED BY <1>1, <1>2, PTL DEF Spec
=============================================================================
