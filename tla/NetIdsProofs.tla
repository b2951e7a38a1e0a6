----------------------------- MODULE NetIdsProofs -----------------------------
(***************************************************************************)
(* What the operations of the id map preserve and return: each keeps a     *)
(* map's types and keeps it one to one, under the conditions the program   *)
(* calls it in.                                                            *)
(***************************************************************************)
EXTENDS NetIds, FiniteSetTheorems, TLAPS

(***************************************************************************)
(* drop, release and forget_learned take ids away and leave the others as  *)
(* they are.                                                               *)
(***************************************************************************)
LEMMA DropEachFacts ==
    ASSUME NEW Objs, NEW m, IsIds(m, Objs), IsInverse(m), NEW S
    PROVE  /\ IsIds(DropEach(m, S), Objs)
           /\ IsInverse(DropEach(m, S))
           /\ DropEach(m, S).next = m.next
           /\ DOMAIN DropEach(m, S).by_id = DOMAIN m.by_id \ S
           /\ \A i \in DOMAIN m.by_id \ S : DropEach(m, S).by_id[i] = m.by_id[i]
           /\ DOMAIN DropEach(m, S).by_obj = {o \in DOMAIN m.by_obj : m.by_obj[o] \notin S}
           /\ \A o \in DOMAIN DropEach(m, S).by_obj :
                 DropEach(m, S).by_obj[o] = m.by_obj[o]
PROOF
  <1> DEFINE d == DropEach(m, S)
             gone == {m.by_id[i].obj : i \in DOMAIN m.by_id \cap S}
  <1>1. /\ d = [by_id |-> d.by_id, by_obj |-> d.by_obj, next |-> d.next]
        /\ d.by_id = [i \in DOMAIN m.by_id \ S |-> m.by_id[i]]
        /\ d.by_obj = [o \in DOMAIN m.by_obj \ gone |-> m.by_obj[o]]
        /\ d.next = m.next
    BY DEF DropEach
  <1> HIDE DEF d
  <1>2. \A o \in DOMAIN m.by_obj : o \in gone <=> m.by_obj[o] \in S
    BY DEF IsInverse
  <1>3. IsIds(d, Objs)
    BY <1>1 DEF IsIds
  <1>4. IsInverse(d)
    <2>1. ASSUME NEW i \in DOMAIN d.by_id
          PROVE  /\ d.by_id[i].obj \in DOMAIN d.by_obj
                 /\ d.by_obj[d.by_id[i].obj] = i
      <3>1. i \in DOMAIN m.by_id /\ i \notin S /\ d.by_id[i] = m.by_id[i]
        BY <1>1, <2>1
      <3>2. m.by_id[i].obj \in DOMAIN m.by_obj /\ m.by_obj[m.by_id[i].obj] = i
        BY <3>1 DEF IsInverse
      <3> QED BY <1>1, <1>2, <3>1, <3>2
    <2>2. ASSUME NEW o \in DOMAIN d.by_obj
          PROVE  /\ d.by_obj[o] \in DOMAIN d.by_id
                 /\ d.by_id[d.by_obj[o]].obj = o
      <3>1. o \in DOMAIN m.by_obj /\ o \notin gone /\ d.by_obj[o] = m.by_obj[o]
        BY <1>1, <2>2
      <3>2. m.by_obj[o] \in DOMAIN m.by_id /\ m.by_id[m.by_obj[o]].obj = o
        BY <3>1 DEF IsInverse
      <3> QED BY <1>1, <1>2, <3>1, <3>2
    <2> QED BY <2>1, <2>2 DEF IsInverse
  <1> QED BY <1>1, <1>2, <1>3, <1>4 DEF d

\* One id, or a set of one.
LEMMA DropIsDropEach ==
    ASSUME NEW Objs, NEW m, IsIds(m, Objs), NEW i
    PROVE  Drop(m, i) = DropEach(m, {i})
PROOF
  <1> DEFINE d == DropEach(m, {i})
             gone == {m.by_id[j].obj : j \in DOMAIN m.by_id \cap {i}}
  <1>0. d = [by_id |-> [j \in DOMAIN m.by_id \ {i} |-> m.by_id[j]],
             by_obj |-> [o \in DOMAIN m.by_obj \ gone |-> m.by_obj[o]],
             next |-> m.next]
    BY DEF DropEach
  <1> HIDE DEF d
  <1>1. ASSUME i \in DOMAIN m.by_id PROVE Drop(m, i) = d
    <2>1. gone = {m.by_id[i].obj}
      BY <1>1
    <2>2. Drop(m, i) = [by_id |-> [j \in DOMAIN m.by_id \ {i} |-> m.by_id[j]],
                        by_obj |-> [o \in DOMAIN m.by_obj \ {m.by_id[i].obj} |-> m.by_obj[o]],
                        next |-> m.next]
      BY <1>1 DEF Drop, Without
    <2> HIDE DEF gone
    <2> QED BY <1>0, <2>1, <2>2
  <1>2. ASSUME i \notin DOMAIN m.by_id PROVE Drop(m, i) = d
    <2>1. gone = {} /\ DOMAIN m.by_id \ {i} = DOMAIN m.by_id
      BY <1>2
    <2>2. DOMAIN m.by_obj \ gone = DOMAIN m.by_obj
      BY <2>1
    <2> HIDE DEF gone
    <2>3. d = [by_id |-> m.by_id, by_obj |-> m.by_obj, next |-> m.next]
      <3>1. [j \in DOMAIN m.by_id \ {i} |-> m.by_id[j]] = m.by_id
        BY <2>1 DEF IsIds
      <3>2. [o \in DOMAIN m.by_obj \ gone |-> m.by_obj[o]] = m.by_obj
        BY <2>2 DEF IsIds
      <3> QED BY <1>0, <3>1, <3>2
    <2> QED BY <1>2, <2>3 DEF Drop, IsIds
  <1> QED BY <1>1, <1>2 DEF d

PutLearned(m, i, o) == PutId(m, i, o, TRUE)

(***************************************************************************)
(* put of a learned id, when the map knows neither the id nor the node.    *)
(***************************************************************************)
LEMMA PutFacts ==
    ASSUME NEW Objs, NEW m, IsIds(m, Objs), IsInverse(m),
           NEW i \in Nat \ {0}, NEW o \in Objs,
           i \notin DOMAIN m.by_id, o \notin DOMAIN m.by_obj
    PROVE  /\ IsIds(PutLearned(m, i, o), Objs)
           /\ IsInverse(PutLearned(m, i, o))
           /\ PutLearned(m, i, o).next = m.next
           /\ DOMAIN PutLearned(m, i, o).by_id = DOMAIN m.by_id \cup {i}
           /\ PutLearned(m, i, o).by_id[i] = [obj |-> o, learned |-> TRUE]
           /\ \A j \in DOMAIN m.by_id : PutLearned(m, i, o).by_id[j] = m.by_id[j]
PROOF
  <1> DEFINE p == PutLearned(m, i, o)
  <1>1. p = [by_id |-> [j \in DOMAIN m.by_id \cup {i} |->
                          IF j = i THEN [obj |-> o, learned |-> TRUE] ELSE m.by_id[j]],
             by_obj |-> [q \in DOMAIN m.by_obj \cup {o} |->
                          IF q = o THEN i ELSE m.by_obj[q]],
             next |-> m.next]
    BY DEF PutLearned, PutId, With
  <1> HIDE DEF p
  <1>2. IsIds(p, Objs)
    <2>1. p = [by_id |-> p.by_id, by_obj |-> p.by_obj, next |-> p.next]
      BY <1>1
    <2>2. p.by_id = [j \in DOMAIN p.by_id |-> p.by_id[j]] /\ DOMAIN p.by_id \subseteq Nat \ {0}
      BY <1>1 DEF IsIds
    <2>3. \A j \in DOMAIN p.by_id : p.by_id[j] \in [obj : Objs, learned : BOOLEAN]
      BY <1>1 DEF IsIds
    <2>4. p.by_obj = [q \in DOMAIN p.by_obj |-> p.by_obj[q]] /\ DOMAIN p.by_obj \subseteq Objs
      BY <1>1 DEF IsIds
    <2>5. \A q \in DOMAIN p.by_obj : p.by_obj[q] \in Nat \ {0}
      BY <1>1 DEF IsIds
    <2>6. p.next \in Nat \ {0}
      BY <1>1 DEF IsIds
    <2> QED BY <2>1, <2>2, <2>3, <2>4, <2>5, <2>6 DEF IsIds
  <1>3. IsInverse(p)
    <2>1. ASSUME NEW j \in DOMAIN p.by_id
          PROVE  /\ p.by_id[j].obj \in DOMAIN p.by_obj
                 /\ p.by_obj[p.by_id[j].obj] = j
      <3>1. CASE j = i
        BY <1>1, <3>1
      <3>2. CASE j # i
        <4>1. j \in DOMAIN m.by_id /\ p.by_id[j] = m.by_id[j]
          BY <1>1, <2>1, <3>2
        <4>2. m.by_id[j].obj \in DOMAIN m.by_obj /\ m.by_obj[m.by_id[j].obj] = j
          BY <4>1 DEF IsInverse
        <4> QED BY <1>1, <4>1, <4>2
      <3> QED BY <3>1, <3>2
    <2>2. ASSUME NEW q \in DOMAIN p.by_obj
          PROVE  /\ p.by_obj[q] \in DOMAIN p.by_id
                 /\ p.by_id[p.by_obj[q]].obj = q
      <3>1. CASE q = o
        BY <1>1, <3>1
      <3>2. CASE q # o
        <4>1. q \in DOMAIN m.by_obj /\ p.by_obj[q] = m.by_obj[q]
          BY <1>1, <2>2, <3>2
        <4>2. m.by_obj[q] \in DOMAIN m.by_id /\ m.by_id[m.by_obj[q]].obj = q
          BY <4>1 DEF IsInverse
        <4> QED BY <1>1, <4>1, <4>2
      <3> QED BY <3>1, <3>2
    <2> QED BY <2>1, <2>2 DEF IsInverse
  <1> QED BY <1>1, <1>2, <1>3 DEF p

(***************************************************************************)
(* bind, whatever the id and the node went by before.                      *)
(***************************************************************************)
LEMMA BindFacts ==
    ASSUME NEW Objs, NEW m, IsIds(m, Objs), IsInverse(m),
           NEW i \in Nat \ {0}, NEW o \in Objs
    PROVE  /\ IsIds(Bind(m, i, o), Objs)
           /\ IsInverse(Bind(m, i, o))
           /\ Bind(m, i, o).next = m.next
           /\ DOMAIN Bind(m, i, o).by_id \subseteq DOMAIN m.by_id \cup {i}
           /\ Bind(m, i, o).by_id[i] = [obj |-> o, learned |-> TRUE]
           /\ \A j \in DOMAIN Bind(m, i, o).by_id \ {i} :
                 Bind(m, i, o).by_id[j] = m.by_id[j]
PROOF
  <1> DEFINE d == DropEach(m, {i})
             r == DropEach(d, {Id(d, o)})
  <1>1. /\ IsIds(d, Objs) /\ IsInverse(d) /\ d.next = m.next
        /\ DOMAIN d.by_id = DOMAIN m.by_id \ {i}
        /\ \A j \in DOMAIN d.by_id : d.by_id[j] = m.by_id[j]
    BY DropEachFacts
  <1>2. Drop(m, i) = d
    BY DropIsDropEach
  <1> HIDE DEF d
  <1>3. /\ IsIds(r, Objs) /\ IsInverse(r) /\ r.next = d.next
        /\ DOMAIN r.by_id = DOMAIN d.by_id \ {Id(d, o)}
        /\ \A j \in DOMAIN r.by_id : r.by_id[j] = d.by_id[j]
        /\ DOMAIN r.by_obj = {q \in DOMAIN d.by_obj : d.by_obj[q] # Id(d, o)}
    BY <1>1, DropEachFacts
  <1>4. Release(d, o) = r
    BY <1>1, DropIsDropEach DEF Release
  <1> HIDE DEF r
  <1>5. o \notin DOMAIN r.by_obj
    BY <1>3 DEF Id
  <1>6. Bind(m, i, o) = PutLearned(r, i, o)
    BY <1>2, <1>4 DEF Bind, PutLearned
  <1>7. i \notin DOMAIN r.by_id
    BY <1>1, <1>3
  <1>8. /\ IsIds(PutLearned(r, i, o), Objs)
        /\ IsInverse(PutLearned(r, i, o))
        /\ PutLearned(r, i, o).next = r.next
        /\ DOMAIN PutLearned(r, i, o).by_id = DOMAIN r.by_id \cup {i}
        /\ PutLearned(r, i, o).by_id[i] = [obj |-> o, learned |-> TRUE]
        /\ \A j \in DOMAIN r.by_id : PutLearned(r, i, o).by_id[j] = r.by_id[j]
    BY <1>3, <1>5, <1>7, PutFacts
  <1> QED BY <1>1, <1>3, <1>6, <1>8

(***************************************************************************)
(* A loop of assign, when every id handed out so far is below the next.    *)
(***************************************************************************)
LEMMA AssignEachFacts ==
    ASSUME NEW Objs, NEW m, IsIds(m, Objs), IsInverse(m),
           \A i \in DOMAIN m.by_id : i < m.next,
           NEW S, S \subseteq Objs, IsFiniteSet(S),
           NEW num \in Numberings(m, S)
    PROVE  /\ IsIds(AssignEach(m, num), Objs)
           /\ IsInverse(AssignEach(m, num))
           /\ AssignEach(m, num).next >= m.next
           /\ \A i \in DOMAIN AssignEach(m, num).by_id :
                 i < AssignEach(m, num).next
           /\ \A i \in DOMAIN AssignEach(m, num).by_id \ DOMAIN m.by_id : i >= m.next
           /\ DOMAIN AssignEach(m, num).by_obj = DOMAIN m.by_obj \cup S
           /\ \A o \in DOMAIN m.by_obj :
                 AssignEach(m, num).by_obj[o] = m.by_obj[o]
           /\ \A i \in DOMAIN AssignEach(m, num).by_id :
                 \/ i \in DOMAIN m.by_id /\ AssignEach(m, num).by_id[i] = m.by_id[i]
                 \/ ~AssignEach(m, num).by_id[i].learned
PROOF
  <1> DEFINE U == Unnumbered(m, S)
             k == Cardinality(U)
             new == {num[o] : o \in DOMAIN num}
             a == AssignEach(m, num)
             who(i) == CHOOSE o \in DOMAIN num : num[o] = i
  <1>1. IsFiniteSet(U) /\ k \in Nat /\ U \subseteq Objs
    BY FS_Subset, FS_CardinalityType DEF Unnumbered
  <1>2. num \in [U -> m.next .. (m.next + k - 1)] /\ DOMAIN num = U
    BY DEF Numberings
  <1>3. \A o, p \in U : num[o] = num[p] => o = p
    BY DEF Numberings
  <1>4. a = [by_id  |-> [i \in DOMAIN m.by_id \cup new |->
                            IF i \in new THEN [obj |-> who(i), learned |-> FALSE]
                            ELSE m.by_id[i]],
             by_obj |-> [o \in DOMAIN m.by_obj \cup U |->
                            IF o \in U THEN num[o] ELSE m.by_obj[o]],
             next   |-> m.next + k]
    BY <1>2 DEF AssignEach
  <1>5. m.next \in Nat \ {0}
    BY DEF IsIds
  <1>6. \A i \in new : i \in Nat \ {0} /\ m.next <= i /\ i < m.next + k
    <2>1. ASSUME NEW o \in U
          PROVE  num[o] \in Nat /\ m.next <= num[o] /\ num[o] <= m.next + k - 1
      BY <1>1, <1>2, <1>5
    <2>2. ASSUME NEW o \in U
          PROVE  num[o] \in Nat \ {0} /\ num[o] < m.next + k
      BY <1>1, <1>5, <2>1
    <2> HIDE DEF k
    <2> QED BY <1>2, <2>1, <2>2
  <1>7. \A i \in new : who(i) \in U /\ num[who(i)] = i
    BY <1>2
  <1>8. \A i \in new : i \notin DOMAIN m.by_id
    BY <1>5, <1>6 DEF IsIds
  <1>9. \A o \in U : o \notin DOMAIN m.by_obj /\ o \in Objs
    BY <1>1 DEF Unnumbered
  <1>10. \A o \in U : num[o] \in new /\ who(num[o]) = o
    BY <1>2, <1>3, <1>7
  <1>11. DOMAIN m.by_obj \cup U = DOMAIN m.by_obj \cup S
    BY DEF Unnumbered
  <1> HIDE DEF U, k, new, a, who
  <1>12. IsIds(a, Objs)
    <2>1. a = [by_id |-> a.by_id, by_obj |-> a.by_obj, next |-> a.next]
      BY <1>4
    <2>2. a.by_id = [j \in DOMAIN a.by_id |-> a.by_id[j]] /\ DOMAIN a.by_id \subseteq Nat \ {0}
      BY <1>4, <1>6 DEF IsIds
    <2>3. \A j \in DOMAIN a.by_id : a.by_id[j] \in [obj : Objs, learned : BOOLEAN]
      BY <1>4, <1>7, <1>9 DEF IsIds
    <2>4. a.by_obj = [q \in DOMAIN a.by_obj |-> a.by_obj[q]] /\ DOMAIN a.by_obj \subseteq Objs
      BY <1>4, <1>9 DEF IsIds
    <2>5. \A q \in DOMAIN a.by_obj : a.by_obj[q] \in Nat \ {0}
      BY <1>4, <1>6, <1>10 DEF IsIds
    <2>6. a.next \in Nat \ {0}
      BY <1>1, <1>4, <1>5
    <2> QED BY <2>1, <2>2, <2>3, <2>4, <2>5, <2>6 DEF IsIds
  <1>13. IsInverse(a)
    <2>1. ASSUME NEW i \in DOMAIN a.by_id
          PROVE  /\ a.by_id[i].obj \in DOMAIN a.by_obj
                 /\ a.by_obj[a.by_id[i].obj] = i
      <3>1. CASE i \in new
        BY <1>4, <1>7, <3>1
      <3>2. CASE i \notin new
        <4>1. i \in DOMAIN m.by_id /\ a.by_id[i] = m.by_id[i]
          BY <1>4, <2>1, <3>2
        <4>2. m.by_id[i].obj \in DOMAIN m.by_obj /\ m.by_obj[m.by_id[i].obj] = i
          BY <4>1 DEF IsInverse
        <4>3. m.by_id[i].obj \notin U
          BY <1>9, <4>2
        <4> QED BY <1>4, <4>1, <4>2, <4>3
      <3> QED BY <3>1, <3>2
    <2>2. ASSUME NEW q \in DOMAIN a.by_obj
          PROVE  /\ a.by_obj[q] \in DOMAIN a.by_id
                 /\ a.by_id[a.by_obj[q]].obj = q
      <3>1. CASE q \in U
        BY <1>4, <1>10, <3>1
      <3>2. CASE q \notin U
        <4>1. q \in DOMAIN m.by_obj /\ a.by_obj[q] = m.by_obj[q]
          BY <1>4, <2>2, <3>2
        <4>2. m.by_obj[q] \in DOMAIN m.by_id /\ m.by_id[m.by_obj[q]].obj = q
          BY <4>1 DEF IsInverse
        <4>3. m.by_obj[q] \notin new
          BY <1>8, <4>2
        <4> QED BY <1>4, <4>1, <4>2, <4>3
      <3> QED BY <3>1, <3>2
    <2> QED BY <2>1, <2>2 DEF IsInverse
  <1>14. a.next >= m.next /\ \A i \in DOMAIN a.by_id : i < a.next
    BY <1>1, <1>4, <1>5, <1>6 DEF IsIds
  <1>18. \A i \in DOMAIN a.by_id \ DOMAIN m.by_id : i >= m.next
    BY <1>4, <1>5, <1>6
  <1>15. \A o \in DOMAIN m.by_obj : a.by_obj[o] = m.by_obj[o]
    BY <1>4, <1>9
  <1>16. \A i \in DOMAIN a.by_id :
            \/ i \in DOMAIN m.by_id /\ a.by_id[i] = m.by_id[i]
            \/ ~a.by_id[i].learned
    BY <1>4
  <1>17. DOMAIN a.by_obj = DOMAIN m.by_obj \cup S
    BY <1>4, <1>11
  <1> QED BY <1>12, <1>13, <1>14, <1>15, <1>16, <1>17, <1>18 DEF a

(***************************************************************************)
(* release of a node: it alone loses its id.                               *)
(***************************************************************************)
LEMMA ReleaseFacts ==
    ASSUME NEW Objs, NEW m, IsIds(m, Objs), IsInverse(m), NEW o
    PROVE  /\ IsIds(Release(m, o), Objs)
           /\ IsInverse(Release(m, o))
           /\ Release(m, o).next = m.next
           /\ DOMAIN Release(m, o).by_id = DOMAIN m.by_id \ {Id(m, o)}
           /\ \A i \in DOMAIN m.by_id \ {Id(m, o)} :
                 Release(m, o).by_id[i] = m.by_id[i]
           /\ DOMAIN Release(m, o).by_obj = DOMAIN m.by_obj \ {o}
           /\ \A q \in DOMAIN m.by_obj \ {o} : Release(m, o).by_obj[q] = m.by_obj[q]
PROOF
  <1> DEFINE d == DropEach(m, {Id(m, o)})
  <1>1. Release(m, o) = d
    BY DropIsDropEach DEF Release
  <1>2. /\ IsIds(d, Objs) /\ IsInverse(d) /\ d.next = m.next
        /\ DOMAIN d.by_id = DOMAIN m.by_id \ {Id(m, o)}
        /\ \A i \in DOMAIN m.by_id \ {Id(m, o)} : d.by_id[i] = m.by_id[i]
        /\ DOMAIN d.by_obj = {q \in DOMAIN m.by_obj : m.by_obj[q] \notin {Id(m, o)}}
        /\ \A q \in DOMAIN d.by_obj : d.by_obj[q] = m.by_obj[q]
    BY DropEachFacts
  <1> HIDE DEF d
  <1>3. \A q \in DOMAIN m.by_obj : m.by_obj[q] = Id(m, o) <=> q = o
    BY DEF Id, IsInverse, IsIds
  <1>4. DOMAIN d.by_obj = DOMAIN m.by_obj \ {o}
    BY <1>2, <1>3
  <1> QED BY <1>1, <1>2, <1>4

(***************************************************************************)
(* The binds of one snapshot, of ids and nodes each once: they name what   *)
(* the records say, and of the rest what is in neither's way stays.        *)
(***************************************************************************)
LEMMA BindEachFacts ==
    ASSUME NEW Objs, NEW m, IsIds(m, Objs), IsInverse(m),
           NEW new, DOMAIN new \subseteq Nat \ {0},
           \A i \in DOMAIN new : new[i] \in Objs,
           \A i, j \in DOMAIN new : new[i] = new[j] => i = j
    PROVE  /\ IsIds(BindEach(m, new), Objs)
           /\ IsInverse(BindEach(m, new))
           /\ BindEach(m, new).next = m.next
           /\ \A i \in DOMAIN new :
                 /\ i \in DOMAIN BindEach(m, new).by_id
                 /\ BindEach(m, new).by_id[i].obj = new[i]
           /\ \A i \in DOMAIN BindEach(m, new).by_id \ DOMAIN new :
                 /\ i \in DOMAIN m.by_id
                 /\ BindEach(m, new).by_id[i] = m.by_id[i]
           /\ \A i \in DOMAIN m.by_id \ DOMAIN new :
                 (\A j \in DOMAIN new : new[j] # m.by_id[i].obj)
                     => i \in DOMAIN BindEach(m, new).by_id
PROOF
  <1> DEFINE objs == {new[i] : i \in DOMAIN new}
             kept == {i \in DOMAIN m.by_id \ DOMAIN new : m.by_id[i].obj \notin objs}
             who(o) == CHOOSE i \in DOMAIN new : new[i] = o
             b == BindEach(m, new)
  <1>1. b = [by_id  |-> [i \in kept \cup DOMAIN new |->
                            IF i \in DOMAIN new THEN [obj |-> new[i], learned |-> TRUE]
                            ELSE m.by_id[i]],
             by_obj |-> [o \in {m.by_id[i].obj : i \in kept} \cup objs |->
                            IF o \in objs THEN who(o) ELSE m.by_obj[o]],
             next   |-> m.next]
    BY DEF BindEach
  <1>2. \A o \in objs : who(o) \in DOMAIN new /\ new[who(o)] = o /\ o \in Objs
    OBVIOUS
  <1>3. \A i \in DOMAIN new : new[i] \in objs /\ who(new[i]) = i
    BY <1>2
  <1>4. \A i \in kept : /\ i \in DOMAIN m.by_id \ DOMAIN new
                       /\ m.by_id[i].obj \notin objs
                       /\ m.by_id[i].obj \in DOMAIN m.by_obj
                       /\ m.by_obj[m.by_id[i].obj] = i
    BY DEF IsInverse
  <1>5. \A i \in DOMAIN m.by_id \ DOMAIN new :
           (\A j \in DOMAIN new : new[j] # m.by_id[i].obj) => i \in kept
    OBVIOUS
  <1> DEFINE rest == {m.by_id[i].obj : i \in kept}
  <1>6. \A o \in rest : /\ o \in DOMAIN m.by_obj /\ o \notin objs
                       /\ m.by_obj[o] \in kept /\ m.by_id[m.by_obj[o]].obj = o
    BY <1>4
  <1>7. \A i \in kept : m.by_id[i].obj \in rest
    OBVIOUS
  <1> HIDE DEF objs, kept, who, b, rest
  <1>8. IsIds(b, Objs)
    <2>1. b = [by_id |-> b.by_id, by_obj |-> b.by_obj, next |-> b.next]
      BY <1>1
    <2>2. b.by_id = [j \in DOMAIN b.by_id |-> b.by_id[j]] /\ DOMAIN b.by_id \subseteq Nat \ {0}
      BY <1>1, <1>4 DEF IsIds
    <2>3. \A j \in DOMAIN b.by_id : b.by_id[j] \in [obj : Objs, learned : BOOLEAN]
      BY <1>1, <1>4 DEF IsIds
    <2>4. b.by_obj = [q \in DOMAIN b.by_obj |-> b.by_obj[q]] /\ DOMAIN b.by_obj \subseteq Objs
      BY <1>1, <1>2, <1>6 DEF IsIds, rest
    <2>5. \A q \in DOMAIN b.by_obj : b.by_obj[q] \in Nat \ {0}
      BY <1>1, <1>2, <1>6 DEF IsIds, rest
    <2>6. b.next \in Nat \ {0}
      BY <1>1 DEF IsIds
    <2> QED BY <2>1, <2>2, <2>3, <2>4, <2>5, <2>6 DEF IsIds
  <1>9. IsInverse(b)
    <2>0. DOMAIN b.by_id = kept \cup DOMAIN new /\ DOMAIN b.by_obj = rest \cup objs
      BY <1>1 DEF rest
    <2>1. ASSUME NEW i \in DOMAIN b.by_id
          PROVE  /\ b.by_id[i].obj \in DOMAIN b.by_obj
                 /\ b.by_obj[b.by_id[i].obj] = i
      <3>1. CASE i \in DOMAIN new
        <4>1. b.by_id[i].obj = new[i]
          BY <1>1, <2>0, <3>1
        <4>2. b.by_obj[new[i]] = who(new[i])
          BY <1>1, <1>3, <3>1
        <4> QED BY <1>3, <2>0, <3>1, <4>1, <4>2
      <3>2. CASE i \in kept
        <4>1. b.by_id[i] = m.by_id[i]
          BY <1>1, <1>4, <3>2
        <4>2. m.by_id[i].obj \in rest /\ m.by_id[i].obj \notin objs
          BY <1>4, <1>7, <3>2
        <4>3. b.by_obj[m.by_id[i].obj] = m.by_obj[m.by_id[i].obj]
          BY <1>1, <4>2 DEF rest
        <4> QED BY <1>4, <2>0, <3>2, <4>1, <4>2, <4>3
      <3> QED BY <2>0, <2>1, <3>1, <3>2
    <2>2. ASSUME NEW q \in DOMAIN b.by_obj
          PROVE  /\ b.by_obj[q] \in DOMAIN b.by_id
                 /\ b.by_id[b.by_obj[q]].obj = q
      <3>1. CASE q \in objs
        <4>1. b.by_obj[q] = who(q)
          BY <1>1, <3>1
        <4> QED BY <1>1, <1>2, <2>0, <3>1, <4>1
      <3>2. CASE q \in rest
        <4>1. b.by_obj[q] = m.by_obj[q]
          BY <1>1, <1>6, <3>2 DEF rest
        <4>2. b.by_id[m.by_obj[q]] = m.by_id[m.by_obj[q]]
          BY <1>1, <1>4, <1>6, <3>2
        <4> QED BY <1>6, <2>0, <3>2, <4>1, <4>2
      <3> QED BY <2>0, <2>2, <3>1, <3>2
    <2> QED BY <2>1, <2>2 DEF IsInverse
  <1>10. /\ DOMAIN b.by_id = kept \cup DOMAIN new /\ b.next = m.next
         /\ \A i \in DOMAIN new : b.by_id[i].obj = new[i]
         /\ \A i \in kept : b.by_id[i] = m.by_id[i]
    BY <1>1, <1>4
  <1>11. \A i \in DOMAIN new : i \in DOMAIN b.by_id /\ b.by_id[i].obj = new[i]
    BY <1>10
  <1>12. \A i \in DOMAIN b.by_id \ DOMAIN new :
            i \in DOMAIN m.by_id /\ b.by_id[i] = m.by_id[i]
    BY <1>4, <1>10
  <1>13. \A i \in DOMAIN m.by_id \ DOMAIN new :
            (\A j \in DOMAIN new : new[j] # m.by_id[i].obj) => i \in DOMAIN b.by_id
    BY <1>5, <1>10
  <1> QED BY <1>8, <1>9, <1>10, <1>11, <1>12, <1>13 DEF b
=============================================================================
