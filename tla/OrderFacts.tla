---------------------------- MODULE OrderFacts ----------------------------
(***************************************************************************)
(* Facts about order.  A set of naturals has a least element, which stands *)
(* for induction in proofs about a bounded count; and queues whose         *)
(* elements keep an order that need not be total keep it when they are put *)
(* to, taken from, joined and split.                                       *)
(***************************************************************************)
EXTENDS Integers, Sequences, Functions, FiniteSets, FiniteSetTheorems, TLAPS

\* What is false of some natural is false of a least one: proofs about a bounded
\* count go by that.
LEMMA LeastExists ==
    ASSUME NEW S, S \subseteq Nat, S # {}
    PROVE  \E x \in S : \A y \in S : x <= y
PROOF
  <1> SUFFICES ASSUME \A x \in S : \E y \in S : ~(x <= y) PROVE FALSE
    OBVIOUS
  <1>1. PICK top \in S : TRUE
    OBVIOUS
  <1> DEFINE D == {n \in 0 .. top : \A y \in S : n < y}
  <1>2. IsFiniteSet(D)
    <2> DEFINE all == 0 .. top
    <2>1. IsFiniteSet(all)
      BY <1>1, FS_Interval
    <2>2. D \subseteq all
      OBVIOUS
    <2> HIDE DEF all, D
    <2> QED BY <2>1, <2>2, FS_Subset
  <1>3. 0 \in D
    BY <1>1
  <1>4. ASSUME NEW n \in D PROVE n + 1 \in D
    BY <1>1, <1>4
  <1>5. ASSUME NEW n \in D, n # 0 PROVE n - 1 \in D
    BY <1>1, <1>5
  <1> DEFINE f == [n \in D |-> n + 1]
  <1>6. f \in Bijection(D, D \ {0})
    <2> D \subseteq Nat
      BY <1>1
    <2> HIDE DEF D
    <2>1. f \in [D -> D \ {0}]
      BY <1>4
    <2>2. ASSUME NEW a \in D, NEW b \in D, f[a] = f[b] PROVE a = b
      BY <2>2
    <2>3. ASSUME NEW c \in D \ {0} PROVE \E a \in D : f[a] = c
      <3>1. c - 1 \in D
        BY <1>5
      <3>2. f[c - 1] = c
        BY <3>1
      <3> QED BY <3>1, <3>2
    <2> HIDE DEF f
    <2> QED BY <2>1, <2>2, <2>3 DEF Bijection, Injection, Surjection, IsInjective
  <1> HIDE DEF f, D
  <1>7. Cardinality(D) = Cardinality(D \ {0})
    BY <1>2, <1>6, FS_Bijection DEF ExistsBijection
  <1>8. Cardinality(D \ {0}) = Cardinality(D) - 1
    BY <1>2, <1>3, FS_RemoveElement
  <1> QED BY <1>2, <1>7, <1>8, FS_CardinalityType

-----------------------------------------------------------------------------
\* Queues in order.

\* No element of q stands before one that it may not.
Sorted(q, R) == \A a, b \in DOMAIN q : a < b => <<q[a], q[b]>> \in R

\* Every element of P may stand before every one of Q.
Then(P, Q, R) == \A x \in P, y \in Q : <<x, y>> \in R

\* Queues joined, all of the first before the second.
LEMMA JoinFacts ==
    ASSUME NEW T, NEW p \in Seq(T), NEW q \in Seq(T)
    PROVE  /\ p \o q \in Seq(T)
           /\ Range(p \o q) = Range(p) \cup Range(q)
           /\ \A R : Sorted(p, R) /\ Sorted(q, R) /\ Then(Range(p), Range(q), R)
                       => Sorted(p \o q, R)
PROOF
  <1>1. p \o q \in Seq(T) /\ Len(p \o q) = Len(p) + Len(q)
    OBVIOUS
  <1>2. \A n \in DOMAIN (p \o q) :
           (p \o q)[n] = IF n <= Len(p) THEN p[n] ELSE q[n - Len(p)]
    OBVIOUS
  <1>3. Range(p \o q) = Range(p) \cup Range(q)
    <2>1. ASSUME NEW x \in Range(p) \cup Range(q) PROVE x \in Range(p \o q)
      <3>1. CASE x \in Range(p)
        <4>1. PICK n \in DOMAIN p : x = p[n]
          BY <3>1 DEF Range
        <4>2. n \in DOMAIN (p \o q) /\ (p \o q)[n] = x
          BY <4>1, <1>1, <1>2
        <4> QED BY <4>2 DEF Range
      <3>2. CASE x \in Range(q)
        <4>1. PICK n \in DOMAIN q : x = q[n]
          BY <3>2 DEF Range
        <4>2. n + Len(p) \in DOMAIN (p \o q) /\ (p \o q)[n + Len(p)] = x
          BY <4>1, <1>1, <1>2
        <4> QED BY <4>2 DEF Range
      <3> QED BY <2>1, <3>1, <3>2
    <2>2. ASSUME NEW x \in Range(p \o q) PROVE x \in Range(p) \cup Range(q)
      <3>1. PICK n \in DOMAIN (p \o q) : x = (p \o q)[n]
        BY <2>2 DEF Range
      <3>2. \/ n \in DOMAIN p /\ x = p[n]
            \/ n - Len(p) \in DOMAIN q /\ x = q[n - Len(p)]
        BY <3>1, <1>1, <1>2
      <3> QED BY <3>2 DEF Range
    <2> QED BY <2>1, <2>2
  <1>4. ASSUME NEW R, Sorted(p, R), Sorted(q, R), Then(Range(p), Range(q), R)
        PROVE  Sorted(p \o q, R)
    <2> SUFFICES ASSUME NEW a \in DOMAIN (p \o q), NEW b \in DOMAIN (p \o q), a < b
                 PROVE  <<(p \o q)[a], (p \o q)[b]>> \in R
      BY DEF Sorted
    <2>1. CASE b <= Len(p)
      <3>1. a \in DOMAIN p /\ b \in DOMAIN p /\ (p \o q)[a] = p[a] /\ (p \o q)[b] = p[b]
        BY <2>1, <1>1, <1>2
      <3> QED BY <3>1, <1>4 DEF Sorted
    <2>2. CASE ~(a <= Len(p))
      <3>1. /\ a - Len(p) \in DOMAIN q /\ b - Len(p) \in DOMAIN q /\ a - Len(p) < b - Len(p)
            /\ (p \o q)[a] = q[a - Len(p)] /\ (p \o q)[b] = q[b - Len(p)]
        BY <2>2, <1>1, <1>2
      <3> QED BY <3>1, <1>4 DEF Sorted
    <2>3. CASE a <= Len(p) /\ ~(b <= Len(p))
      <3>1. /\ a \in DOMAIN p /\ b - Len(p) \in DOMAIN q
            /\ (p \o q)[a] = p[a] /\ (p \o q)[b] = q[b - Len(p)]
        BY <2>3, <1>1, <1>2
      <3>2. p[a] \in Range(p) /\ q[b - Len(p)] \in Range(q)
        BY <3>1 DEF Range
      <3> QED BY <3>1, <3>2, <1>4 DEF Then
    <2> QED BY <2>1, <2>2, <2>3, <1>1
  <1> QED BY <1>1, <1>3, <1>4

\* A queue put to.
LEMMA AppendFacts ==
    ASSUME NEW T, NEW q \in Seq(T), NEW x \in T
    PROVE  Append(q, x) \in Seq(T) /\ Range(Append(q, x)) = Range(q) \cup {x}
PROOF
  <1>1. q \o <<x>> \in Seq(T) /\ Range(q \o <<x>>) = Range(q) \cup Range(<<x>>)
    <2>1. <<x>> \in Seq(T)
      OBVIOUS
    <2> QED BY <2>1, JoinFacts
  <1>2. Append(q, x) = q \o <<x>> /\ Range(<<x>>) = {x}
    BY DEF Range
  <1> QED BY ONLY <1>1, <1>2

\* Its order, if the new one may stand behind all there are.
LEMMA PutFacts ==
    ASSUME NEW T, NEW q \in Seq(T), NEW x \in T
    PROVE  /\ Append(q, x) \in Seq(T)
           /\ Range(Append(q, x)) = Range(q) \cup {x}
           /\ \A R : Sorted(q, R) /\ Then(Range(q), {x}, R) => Sorted(Append(q, x), R)
PROOF
  <1>1. Append(q, x) = q \o <<x>> /\ <<x>> \in Seq(T)
    OBVIOUS
  <1>2. Range(<<x>>) = {x}
    BY DEF Range
  <1>3. \A R : Sorted(<<x>>, R)
    BY DEF Sorted
  <1>4. <<x>> \in Seq(T)
    BY <1>1
  <1>5. /\ q \o <<x>> \in Seq(T)
        /\ Range(q \o <<x>>) = Range(q) \cup Range(<<x>>)
        /\ \A R : Sorted(q, R) /\ Sorted(<<x>>, R) /\ Then(Range(q), Range(<<x>>), R)
                    => Sorted(q \o <<x>>, R)
    BY <1>4, JoinFacts
  <1> QED BY ONLY <1>1, <1>2, <1>3, <1>5

\* The same of one order.
LEMMA PutSorted ==
    ASSUME NEW T, NEW q \in Seq(T), NEW x \in T, NEW R, Sorted(q, R), Then(Range(q), {x}, R)
    PROVE  Sorted(Append(q, x), R)
PROOF
  <1>1. \A S : Sorted(q, S) /\ Then(Range(q), {x}, S) => Sorted(Append(q, x), S)
    BY PutFacts
  <1> QED BY ONLY <1>1, Sorted(q, R), Then(Range(q), {x}, R)

\* A queue taken from.
LEMMA TakeFacts ==
    ASSUME NEW T, NEW q \in Seq(T), q # <<>>
    PROVE  /\ Head(q) \in T /\ Tail(q) \in Seq(T)
           /\ Range(q) = {Head(q)} \cup Range(Tail(q))
           /\ \A R : Sorted(q, R)
                       => Sorted(Tail(q), R) /\ Then({Head(q)}, Range(Tail(q)), R)
PROOF
  <1> DEFINE tail == Tail(q)
             head == Head(q)
  <1>1. head \in T /\ tail \in Seq(T) /\ 1 \in DOMAIN q /\ head = q[1]
    OBVIOUS
  <1>2. \A n \in DOMAIN tail : n \in Int /\ n + 1 \in DOMAIN q /\ 1 < n + 1 /\ tail[n] = q[n + 1]
    OBVIOUS
  <1>3. \A n \in DOMAIN q : \/ n = 1
                            \/ n - 1 \in DOMAIN tail /\ q[n] = tail[n - 1]
    OBVIOUS
  <1>4. 1 \in DOMAIN q /\ head = q[1]
    BY <1>1
  <1> HIDE DEF tail, head
  <1>5. Range(q) = {head} \cup Range(tail)
    BY ONLY <1>2, <1>3, <1>4 DEF Range
  <1>6. ASSUME NEW R, Sorted(q, R)
        PROVE  Sorted(tail, R) /\ Then({head}, Range(tail), R)
    <2>1. ASSUME NEW a \in DOMAIN tail, NEW b \in DOMAIN tail, a < b
          PROVE  <<tail[a], tail[b]>> \in R
      <3>1. a + 1 < b + 1
        BY ONLY <1>2, <2>1
      <3>2. \A c, d \in DOMAIN q : c < d => <<q[c], q[d]>> \in R
        BY ONLY <1>6 DEF Sorted
      <3> QED BY ONLY <1>2, <2>1, <3>1, <3>2
    <2>2. Then({head}, Range(tail), R)
      BY ONLY <1>2, <1>4, <1>6 DEF Sorted, Then, Range
    <2> QED BY ONLY <2>1, <2>2 DEF Sorted
  <1> QED BY <1>1, <1>5, <1>6 DEF head, tail

\* A queue split.
LEMMA SplitFacts ==
    ASSUME NEW T, NEW q \in Seq(T), NEW d \in 0 .. Len(q)
    PROVE  LET front == SubSeq(q, 1, d)
               back  == SubSeq(q, d + 1, Len(q))
           IN  /\ front \in Seq(T) /\ back \in Seq(T)
               /\ Range(q) = Range(front) \cup Range(back)
               /\ \A R : Sorted(q, R) => /\ Sorted(front, R) /\ Sorted(back, R)
                                         /\ Then(Range(front), Range(back), R)
PROOF
  <1> DEFINE front == SubSeq(q, 1, d)
             back  == SubSeq(q, d + 1, Len(q))
  <1>0. Len(q) \in Nat /\ d \in Nat /\ d <= Len(q) /\ DOMAIN q = 1 .. Len(q)
    OBVIOUS
  <1>1. front \in Seq(T) /\ DOMAIN front = 1 .. d /\ \A n \in 1 .. d : front[n] = q[n]
    OBVIOUS
  <1>2. /\ back \in Seq(T) /\ DOMAIN back = 1 .. (Len(q) - d)
        /\ \A n \in 1 .. (Len(q) - d) : back[n] = q[d + n]
    OBVIOUS
  <1> HIDE DEF front, back
  <1>3. /\ \A n \in DOMAIN front : n \in Int /\ n \in DOMAIN q /\ n <= d /\ front[n] = q[n]
        /\ \A n \in DOMAIN back : n \in Int /\ d + n \in DOMAIN q /\ d < d + n /\ back[n] = q[d + n]
    BY <1>0, <1>1, <1>2
  <1>4. \A n \in DOMAIN q : \/ n \in DOMAIN front /\ front[n] = q[n]
                            \/ n - d \in DOMAIN back /\ back[n - d] = q[n]
    BY <1>0, <1>1, <1>2
  <1>5. Range(q) = Range(front) \cup Range(back)
    BY <1>3, <1>4 DEF Range
  <1>6. ASSUME NEW R, Sorted(q, R)
        PROVE  Sorted(front, R) /\ Sorted(back, R) /\ Then(Range(front), Range(back), R)
    <2>1. \A a, b \in DOMAIN q : a < b => <<q[a], q[b]>> \in R
      BY ONLY <1>6 DEF Sorted
    <2>2. Sorted(front, R)
      BY ONLY <1>3, <2>1 DEF Sorted
    <2>3. d \in Int
      BY <1>0
    <2>4. Sorted(back, R)
      <3>1. \A a, b \in DOMAIN back : a < b => d + a < d + b
        BY ONLY <1>3, <2>3
      <3> QED BY ONLY <1>3, <2>1, <3>1 DEF Sorted
    <2>5. ASSUME NEW a \in DOMAIN front, NEW b \in DOMAIN back PROVE <<front[a], back[b]>> \in R
      <3>1. a < d + b /\ d + b \in DOMAIN q /\ a \in DOMAIN q
        <4>1. \A n \in DOMAIN q : n \in Int
          BY <1>0
        <4> QED BY ONLY <1>3, <2>3, <4>1
      <3> QED BY ONLY <1>3, <2>1, <3>1
    <2>6. Then(Range(front), Range(back), R)
      BY ONLY <2>5 DEF Then, Range
    <2> QED BY <2>2, <2>4, <2>6
  <1> QED BY <1>1, <1>2, <1>5, <1>6 DEF front, back
=============================================================================
