-------------------------- MODULE TimedMapTheorems --------------------------
(***************************************************************************)
(* What the operations of the map do, for maps of any capacity, life time, *)
(* keys and values: each keeps MapInv at the second it is called in, and   *)
(* touches the entry of its own key only.                                  *)
(***************************************************************************)
EXTENDS TimedMap, TLAPS, FiniteSetTheorems, WellFoundedInduction

\* A non-empty set of slots has a first one, which the loops of map.c find.
LEMMA LeastExists ==
  ASSUME NEW S, S \subseteq Nat, S # {}
  PROVE  Least(S) \in S /\ \A j \in S : Least(S) <= j
<1> DEFINE R == OpToRel(<, Nat)
<1>1. IsWellFoundedOn(R, Nat)
  BY NatLessThanWellFounded
<1>2. PICK x \in S : \A y \in S : ~ (<<y, x>> \in R)
  <2> HIDE DEF R
  <2> QED BY <1>1, WFMin
<1>3. \A y \in S : ~ (y < x)
  BY <1>2 DEF OpToRel
<1>4. \A y \in S : x <= y
  BY <1>3
<1>5. QED
  BY <1>4 DEF Least

\* The live slots are finitely many, at most max of them.
LEMMA LiveFinite ==
  ASSUME NEW m, NEW now, m.max \in Nat
  PROVE  /\ IsFiniteSet(Live(m, now))
         /\ Cardinality(Live(m, now)) \in Nat
         /\ Cardinality(Live(m, now)) <= m.max
<1> DEFINE n == m.max - 1
<1>1. IsFiniteSet(0..(m.max - 1)) /\ Cardinality(0..(m.max - 1)) = m.max
  <2>1. n \in Int /\ 0 \in Int
    OBVIOUS
  <2>2. IsFiniteSet(0..n) /\ Cardinality(0..n) = IF 0 > n THEN 0 ELSE n - 0 + 1
    <3> HIDE DEF n
    <3> QED BY <2>1, FS_Interval, Zenon
  <2>3. QED
    BY <2>2
<1>2. Live(m, now) \in SUBSET (0..(m.max - 1))
  BY DEF Live
<1>3. IsFiniteSet(Live(m, now)) /\ Cardinality(Live(m, now)) <= m.max
  BY <1>1, <1>2, FS_Subset
<1>4. QED
  BY <1>3, FS_CardinalityType

\* Writing one slot and the counter: the others keep their state.
Write(m, i, e, s) == [m EXCEPT !.slots[i] = e, !.size = s]
Stamped(K, V, now) == {Vacant} \cup [key : K, val : V, time : {now}]

LEMMA WriteSlot ==
  ASSUME NEW K, NEW V, NEW now \in Nat \ {0}, NEW m, MapTyped(m, K, V, now),
         NEW i \in 0..(m.max - 1), NEW s \in Int,
         NEW e \in Stamped(K, V, now),
         NEW w, w = Write(m, i, e, s)
  PROVE  /\ MapTyped(w, K, V, now)
         /\ w.max = m.max /\ w.timeout = m.timeout /\ w.size = s
         /\ w.slots[i] = e
         /\ \A j \in 0..(m.max - 1) : j # i => w.slots[j] = m.slots[j]
         /\ Live(w, now) = IF e = Vacant THEN Live(m, now) \ {i} ELSE Live(m, now) \cup {i}
<1> DEFINE Entries == {Vacant} \cup [key : K, val : V, time : 1..now]
<1>0. e # Vacant => e.time = now
  BY DEF Stamped
<1>1. e \in Entries
  BY DEF Stamped
<1>2. /\ w = [slots |-> w.slots, size |-> w.size, max |-> w.max, timeout |-> w.timeout]
      /\ w.max = m.max /\ w.timeout = m.timeout /\ w.size = s
      /\ w.slots = [m.slots EXCEPT ![i] = e]
  BY DEF MapTyped, Write
<1>3. w.slots \in [0..(m.max - 1) -> Entries]
  BY <1>1, <1>2 DEF MapTyped
<1>4. /\ w.slots[i] = e
      /\ \A j \in 0..(m.max - 1) : j # i => w.slots[j] = m.slots[j]
  BY <1>2, <1>3 DEF MapTyped
<1>5. MapTyped(w, K, V, now)
  BY <1>2, <1>3 DEF MapTyped
<1>6. \A j \in 0..(m.max - 1) : j # i => (Valid(w, j, now) <=> Valid(m, j, now))
  BY <1>2, <1>4 DEF Valid
<1>7. CASE e = Vacant
  <2>1. ~ Valid(w, i, now)
    BY <1>4, <1>7 DEF Valid, Vacant
  <2>2. QED
    BY <1>2, <1>4, <1>5, <1>6, <1>7, <2>1 DEF Live
<1>8. CASE e # Vacant
  <2>1. e.time = now
    BY <1>0, <1>8
  <2>2. Valid(w, i, now)
    BY <1>2, <1>4, <2>1 DEF Valid, MapTyped
  <2>3. QED
    BY <1>2, <1>4, <1>5, <1>6, <1>8, <2>2 DEF Live
<1>9. QED
  BY <1>7, <1>8

\* The slots of a key are slot numbers.
LEMMA WhereSlots ==
  ASSUME NEW m, NEW now, NEW k
  PROVE  Where(m, k, now) \subseteq Nat
BY DEF Where, Live

\* The slot of a present key.
LEMMA HasSlot ==
  ASSUME NEW m, NEW now, NEW k, MapHas(m, k, now)
  PROVE  /\ Least(Where(m, k, now)) \in Live(m, now)
         /\ m.slots[Least(Where(m, k, now))].key = k
<1>1. Least(Where(m, k, now)) \in Where(m, k, now)
  BY WhereSlots, LeastExists DEF MapHas
<1>2. QED
  BY <1>1 DEF Where

\* One live slot of k is the slot all operations on k work on.
LEMMA WhereIsOne ==
  ASSUME NEW m, NEW now, MapUnique(m, now), NEW k, NEW i,
         i \in Live(m, now), m.slots[i].key = k
  PROVE  /\ Where(m, k, now) = {i}
         /\ Least(Where(m, k, now)) = i
         /\ MapHas(m, k, now)
<1>1. Where(m, k, now) = {i}
  BY DEF MapUnique, Where
<1>2. Least(Where(m, k, now)) = i
  BY <1>1, WhereSlots, LeastExists
<1>3. QED
  BY <1>1, <1>2 DEF MapHas

\* Everything a key's client can see of it in m is the same in w.
SameFor(k, m, w, now) ==
  /\ MapHas(w, k, now) <=> MapHas(m, k, now)
  /\ MapHas(m, k, now) =>
       w.slots[Least(Where(w, k, now))] = m.slots[Least(Where(m, k, now))]

\* What the operations have in common: w is well formed, with the capacity, the
\* life time and the drift of m; and the keys outside Q do not notice.
Kept(K, V, m, w, now) ==
  /\ MapInv(w, K, V, now)
  /\ w.max = m.max /\ w.timeout = m.timeout
  /\ MapDrift(w, now) = MapDrift(m, now)
Others(K, Q, m, w, now) == \A q \in K \ Q : SameFor(q, m, w, now)
Stores(w, k, e, now) ==
  MapHas(w, k, now) /\ w.slots[Least(Where(w, k, now))] = e

\* Writing a slot that is not live for q, with an entry that is not q's, does
\* not show to the clients of q.
LEMMA OtherKeys ==
  ASSUME NEW m, NEW w, NEW now, NEW q, w.max = m.max,
         NEW i, NEW L,
         L = Live(w, now), L \ {i} = Live(m, now) \ {i},
         i \in L => w.slots[i].key # q,
         i \in Live(m, now) => m.slots[i].key # q,
         \A j \in 0..(m.max - 1) : j # i => w.slots[j] = m.slots[j]
  PROVE  SameFor(q, m, w, now)
<1>1. Where(w, q, now) = Where(m, q, now)
  BY DEF Where, Live
<1>2. MapHas(m, q, now) => Least(Where(m, q, now)) \in Where(m, q, now)
  BY WhereSlots, LeastExists DEF MapHas
<1>3. \A j \in Where(m, q, now) : j # i /\ j \in 0..(m.max - 1)
  BY DEF Where, Live
<1>4. QED
  BY <1>1, <1>2, <1>3 DEF SameFor, MapHas

\* w is what the operation makes of m.  The theorems below speak of the result by
\* a name, so that a prover does not apply an operation to its own result.
AfterSet(m, k, v, now, w) == w = MapSet(m, k, v, now)
AfterDelete(m, k, now, w) == w = MapDelete(m, k, now)
AfterRevise(m, k, v, now, w) == w = MapRevise(m, k, v, now)
AfterSweep(m, Q, now, w) == w = MapSweep(m, Q, now)

\* map_set of an admissible key and value keeps the map well formed and its
\* drift, stores the value under the key with the present stamp unless it
\* refuses (then nothing changes), and shows to no other key.
THEOREM MapSetEffect ==
  ASSUME NEW K, NEW V, NEW now \in Nat \ {0}, NEW m, MapInv(m, K, V, now),
         NEW k \in K, NEW v \in V, NEW w, AfterSet(m, k, v, now, w)
  PROVE  /\ Kept(K, V, m, w, now)
         /\ MapRefuses(m, k, now) => w = m
         /\ ~ MapRefuses(m, k, now) => Stores(w, k, Entry(k, v, now), now)
         /\ Others(K, {k}, m, w, now)
<1> DEFINE e == Entry(k, v, now)
<1>0. MapTyped(m, K, V, now) /\ MapUnique(m, now) /\ MapCounted(m, now)
  BY DEF MapInv
<1>e. e \in Stamped(K, V, now) /\ e # Vacant /\ e.key = k
  <2>1. e.time # 0
    BY DEF Entry
  <2>2. Vacant.time = 0
    BY DEF Vacant
  <2>3. QED
    BY <2>1, <2>2 DEF Stamped, Entry
<1>c. /\ IsFiniteSet(Live(m, now)) /\ Cardinality(Live(m, now)) \in Nat
      /\ m.max \in Nat /\ m.size \in Int /\ m.timeout \in Nat
  BY <1>0, LiveFinite DEF MapTyped
<1>1. CASE MapHas(m, k, now)
  <2> DEFINE i == Least(Where(m, k, now))
  <2>1. i \in Live(m, now) /\ m.slots[i].key = k /\ i \in 0..(m.max - 1)
    <3>1. i \in Live(m, now) /\ m.slots[i].key = k
      BY <1>1, HasSlot
    <3>2. QED
      BY <3>1 DEF Live
  <2>2. w = Write(m, i, e, m.size)
    BY <1>0, <1>1 DEF AfterSet, MapSet, MapTyped, Write
  <2> HIDE DEF e, i
  <2>3. /\ MapTyped(w, K, V, now)
        /\ w.max = m.max /\ w.timeout = m.timeout /\ w.size = m.size
        /\ w.slots[i] = e
        /\ \A j \in 0..(m.max - 1) : j # i => w.slots[j] = m.slots[j]
        /\ Live(w, now) = Live(m, now) \cup {i}
    BY <1>0, <1>e, <1>c, <2>1, <2>2, WriteSlot
  <2>l. Live(w, now) = Live(m, now)
    BY <2>1, <2>3
  <2>4. MapUnique(w, now)
    BY <1>0, <1>e, <2>1, <2>3, <2>l DEF MapUnique, Live
  <2>5. MapDrift(w, now) = MapDrift(m, now) /\ MapCounted(w, now)
    BY <1>0, <2>3, <2>l DEF MapDrift, MapCounted
  <2>6. MapHas(w, k, now) /\ w.slots[Least(Where(w, k, now))] = e
    <3>1. i \in Live(w, now) /\ w.slots[i].key = k
      BY <1>e, <2>1, <2>3, <2>l
    <3>2. QED
      BY <2>3, <2>4, <3>1, WhereIsOne
  <2>7. ASSUME NEW q \in K \ {k} PROVE SameFor(q, m, w, now)
    BY <1>e, <2>1, <2>3, <2>l, OtherKeys
  <2>8. ~ MapRefuses(m, k, now)
    BY <1>1 DEF MapRefuses
  <2>9. QED
    BY <2>3, <2>4, <2>5, <2>6, <2>7, <2>8 DEF MapInv, Kept, Stores, Others, e
<1>2. CASE ~ MapHas(m, k, now) /\ ~ MapRefuses(m, k, now)
  <2> DEFINE i == Least(Free(m, now))
  <2>1. i \in 0..(m.max - 1) /\ i \notin Live(m, now)
    <3>1. Free(m, now) # {} /\ Free(m, now) \subseteq Nat
      BY <1>2 DEF MapRefuses, Free
    <3>2. i \in Free(m, now)
      BY <3>1, LeastExists
    <3>3. QED
      BY <3>2 DEF Free, Live
  <2>2. w = Write(m, i, e, m.size + 1) /\ m.size + 1 \in Int
    BY <1>0, <1>2 DEF AfterSet, MapSet, MapTyped, Write
  <2> HIDE DEF e, i
  <2>3. /\ MapTyped(w, K, V, now)
        /\ w.max = m.max /\ w.timeout = m.timeout /\ w.size = m.size + 1
        /\ w.slots[i] = e
        /\ \A j \in 0..(m.max - 1) : j # i => w.slots[j] = m.slots[j]
        /\ Live(w, now) = Live(m, now) \cup {i}
    BY <1>0, <1>e, <1>c, <2>1, <2>2, WriteSlot
  <2>4. \A j \in Live(m, now) : m.slots[j].key # k
    BY <1>2 DEF MapHas, Where
  <2>5. MapUnique(w, now)
    <3>1. \A j \in Live(m, now) : j # i /\ w.slots[j] = m.slots[j]
      BY <2>1, <2>3 DEF Live
    <3>2. QED
      BY <1>0, <1>e, <2>3, <2>4, <3>1 DEF MapUnique
  <2>6. Cardinality(Live(w, now)) = Cardinality(Live(m, now)) + 1
    BY <1>c, <2>1, <2>3, FS_AddElement
  <2>7. m.size < m.max
    BY <1>0, <1>c, <1>2 DEF MapRefuses, MapCounted
  <2>8. MapDrift(w, now) = MapDrift(m, now) /\ MapCounted(w, now)
    BY <1>0, <1>c, <2>3, <2>6, <2>7 DEF MapDrift, MapCounted
  <2>9. MapHas(w, k, now) /\ w.slots[Least(Where(w, k, now))] = e
    <3>1. i \in Live(w, now) /\ w.slots[i].key = k
      BY <1>e, <2>3
    <3>2. QED
      BY <2>3, <2>5, <3>1, WhereIsOne
  <2>10. ASSUME NEW q \in K \ {k} PROVE SameFor(q, m, w, now)
    <3>1. Live(w, now) \ {i} = Live(m, now) \ {i}
      BY <2>3
    <3>2. QED
      BY <1>e, <2>1, <2>3, <3>1, OtherKeys
  <2>11. QED
    BY <1>2, <2>3, <2>5, <2>8, <2>9, <2>10 DEF MapInv, Kept, Stores, Others, e
<1>3. CASE ~ MapHas(m, k, now) /\ MapRefuses(m, k, now)
  <2>1. w = m
    BY <1>3 DEF AfterSet, MapSet
  <2>2. QED
    BY <1>0, <1>3, <2>1 DEF MapInv, Kept, Others, SameFor
<1>4. QED
  BY <1>1, <1>2, <1>3

\* map_delete keeps the map well formed and its drift, leaves nothing live
\* under the key, and shows to no other key.
THEOREM MapDeleteEffect ==
  ASSUME NEW K, NEW V, NEW now \in Nat \ {0}, NEW m, MapInv(m, K, V, now),
         NEW k \in K, NEW w, AfterDelete(m, k, now, w)
  PROVE  /\ Kept(K, V, m, w, now)
         /\ ~ MapHas(w, k, now)
         /\ Others(K, {k}, m, w, now)
<1>0. MapTyped(m, K, V, now) /\ MapUnique(m, now) /\ MapCounted(m, now)
  BY DEF MapInv
<1>v. Vacant \in Stamped(K, V, now)
  BY DEF Stamped
<1>c. /\ IsFiniteSet(Live(m, now)) /\ Cardinality(Live(m, now)) \in Nat
      /\ m.max \in Nat /\ m.size \in Int /\ m.timeout \in Nat
  BY <1>0, LiveFinite DEF MapTyped
<1>1. CASE MapHas(m, k, now)
  <2> DEFINE i == Least(Where(m, k, now))
  <2>1. i \in Live(m, now) /\ m.slots[i].key = k /\ i \in 0..(m.max - 1)
    <3>1. i \in Live(m, now) /\ m.slots[i].key = k
      BY <1>1, HasSlot
    <3>2. QED
      BY <3>1 DEF Live
  <2>2. w = Write(m, i, Vacant, m.size - 1) /\ m.size - 1 \in Int
    BY <1>0, <1>1 DEF AfterDelete, MapDelete, MapTyped, Write
  <2> HIDE DEF i
  <2>3. /\ MapTyped(w, K, V, now)
        /\ w.max = m.max /\ w.timeout = m.timeout /\ w.size = m.size - 1
        /\ \A j \in 0..(m.max - 1) : j # i => w.slots[j] = m.slots[j]
        /\ Live(w, now) = Live(m, now) \ {i}
    BY <1>0, <1>c, <1>v, <2>1, <2>2, WriteSlot
  <2>4. \A j \in Live(w, now) : j \in Live(m, now) /\ j # i /\ w.slots[j] = m.slots[j]
    BY <2>3 DEF Live
  <2>5. MapUnique(w, now)
    BY <1>0, <2>4 DEF MapUnique
  <2>6. Cardinality(Live(w, now)) = Cardinality(Live(m, now)) - 1
    BY <1>c, <2>1, <2>3, FS_RemoveElement
  <2>7. MapDrift(w, now) = MapDrift(m, now) /\ MapCounted(w, now)
    BY <1>0, <1>c, <2>3, <2>6 DEF MapDrift, MapCounted
  <2>8. ~ MapHas(w, k, now)
    <3>1. \A j \in Live(m, now) : m.slots[j].key = k => j = i
      BY <1>0, <2>1 DEF MapUnique
    <3>2. QED
      BY <2>4, <3>1 DEF MapHas, Where
  <2>9. ASSUME NEW q \in K \ {k} PROVE SameFor(q, m, w, now)
    <3>1. Live(w, now) \ {i} = Live(m, now) \ {i} /\ i \notin Live(w, now)
      BY <2>3
    <3>2. QED
      BY <2>1, <2>3, <3>1, OtherKeys
  <2>10. QED
    BY <2>3, <2>5, <2>7, <2>8, <2>9 DEF MapInv, Kept, Others
<1>2. CASE ~ MapHas(m, k, now)
  <2>1. w = m
    BY <1>2 DEF AfterDelete, MapDelete
  <2>2. QED
    BY <1>0, <1>2, <2>1 DEF MapInv, Kept, Others, SameFor
<1>3. QED
  BY <1>1, <1>2

\* Writing through the pointer map_get returned keeps the map well formed and
\* changes the value of that key only; its stamp stays.
THEOREM MapReviseEffect ==
  ASSUME NEW K, NEW V, NEW now \in Nat \ {0}, NEW m, MapInv(m, K, V, now),
         NEW k \in K, NEW v \in V, MapHas(m, k, now),
         NEW w, AfterRevise(m, k, v, now, w)
  PROVE  /\ Kept(K, V, m, w, now)
         /\ Stores(w, k, Entry(k, v, m.slots[Least(Where(m, k, now))].time), now)
         /\ Others(K, {k}, m, w, now)
<1> DEFINE i == Least(Where(m, k, now))
           e == Entry(k, v, m.slots[i].time)
           Entries == {Vacant} \cup [key : K, val : V, time : 1..now]
<1>0. MapTyped(m, K, V, now) /\ MapUnique(m, now) /\ MapCounted(m, now)
  BY DEF MapInv
<1>1. i \in Live(m, now) /\ m.slots[i].key = k
  BY HasSlot
<1>2. i \in 0..(m.max - 1) /\ m.slots[i] # Vacant
  BY <1>1 DEF Live, Valid, Vacant
<1>3. m.slots \in [0..(m.max - 1) -> Entries]
  BY <1>0 DEF MapTyped
<1>4. m.slots[i] \in [key : K, val : V, time : 1..now]
  BY <1>2, <1>3
<1>5. e \in Entries /\ e.key = k /\ e.time = m.slots[i].time
  BY <1>1, <1>4 DEF Entry
<1>6. w = [m EXCEPT !.slots[i] = e]
  <2>1. e = [m.slots[i] EXCEPT !.val = v]
    BY <1>1, <1>4 DEF Entry
  <2>2. QED
    BY <2>1 DEF AfterRevise, MapRevise
<1> HIDE DEF e, i, Entries
<1>7. /\ w = [slots |-> w.slots, size |-> w.size, max |-> w.max, timeout |-> w.timeout]
      /\ w.max = m.max /\ w.timeout = m.timeout /\ w.size = m.size
      /\ w.slots = [m.slots EXCEPT ![i] = e]
  BY <1>0, <1>6 DEF MapTyped
<1>8. /\ w.slots \in [0..(m.max - 1) -> Entries] /\ w.slots[i] = e
      /\ \A j \in 0..(m.max - 1) : j # i => w.slots[j] = m.slots[j]
  BY <1>2, <1>3, <1>5, <1>7
<1>9. MapTyped(w, K, V, now)
  BY <1>0, <1>7, <1>8 DEF MapTyped, Entries
<1>10. \A j \in 0..(m.max - 1) : Valid(w, j, now) <=> Valid(m, j, now)
  BY <1>5, <1>7, <1>8 DEF Valid
<1>11. Live(w, now) = Live(m, now)
  BY <1>7, <1>10 DEF Live
<1>12. MapUnique(w, now)
  BY <1>0, <1>1, <1>5, <1>8, <1>11 DEF MapUnique, Live
<1>13. MapDrift(w, now) = MapDrift(m, now) /\ MapCounted(w, now)
  BY <1>0, <1>7, <1>11 DEF MapDrift, MapCounted
<1>14. MapHas(w, k, now) /\ w.slots[Least(Where(w, k, now))] = e
  BY <1>1, <1>5, <1>8, <1>11, <1>12, WhereIsOne
<1>15. ASSUME NEW q \in K \ {k} PROVE SameFor(q, m, w, now)
  BY <1>1, <1>5, <1>7, <1>8, <1>11, OtherKeys
<1>16. QED
  BY <1>7, <1>9, <1>12, <1>13, <1>14, <1>15 DEF MapInv, Kept, Stores, Others, e, i

\* map_foreach with a deleting handler keeps the map well formed and its
\* drift; no key of Q is left, and the other keys do not notice.
THEOREM MapSweepEffect ==
  ASSUME NEW K, NEW V, NEW now \in Nat \ {0}, NEW m, MapInv(m, K, V, now),
         NEW Q, NEW w, AfterSweep(m, Q, now, w)
  PROVE  /\ Kept(K, V, m, w, now)
         /\ \A k \in K \cap Q : ~ MapHas(w, k, now)
         /\ Others(K, Q, m, w, now)
<1> DEFINE gone == {i \in Live(m, now) : m.slots[i].key \in Q}
           Entries == {Vacant} \cup [key : K, val : V, time : 1..now]
<1>0. MapTyped(m, K, V, now) /\ MapUnique(m, now) /\ MapCounted(m, now)
  BY DEF MapInv
<1>c. /\ IsFiniteSet(Live(m, now)) /\ Cardinality(Live(m, now)) \in Nat
      /\ m.max \in Nat /\ m.size \in Int /\ m.timeout \in Nat
  BY <1>0, LiveFinite DEF MapTyped
<1>g. /\ gone \subseteq Live(m, now) /\ IsFiniteSet(gone) /\ Cardinality(gone) \in Nat
      /\ Cardinality(Live(m, now) \ gone) = Cardinality(Live(m, now)) - Cardinality(gone)
  <2>1. gone \subseteq Live(m, now) /\ Live(m, now) \cap gone = gone
    OBVIOUS
  <2>2. IsFiniteSet(gone)
    BY <1>c, <2>1, FS_Subset
  <2>3. QED
    BY <1>c, <2>1, <2>2, FS_Difference, FS_CardinalityType
<1>1. w = [m EXCEPT !.slots = [i \in 0..(m.max - 1) |-> IF i \in gone THEN Vacant ELSE m.slots[i]],
                    !.size = m.size - Cardinality(gone)]
  BY <1>0 DEF AfterSweep, MapSweep
<1> HIDE DEF gone
<1>2. /\ w = [slots |-> w.slots, size |-> w.size, max |-> w.max, timeout |-> w.timeout]
      /\ w.max = m.max /\ w.timeout = m.timeout /\ w.size = m.size - Cardinality(gone)
      /\ w.slots = [i \in 0..(m.max - 1) |-> IF i \in gone THEN Vacant ELSE m.slots[i]]
  BY <1>0, <1>1 DEF MapTyped
<1>3. /\ w.slots \in [0..(m.max - 1) -> Entries]
      /\ \A j \in 0..(m.max - 1) : w.slots[j] = IF j \in gone THEN Vacant ELSE m.slots[j]
  BY <1>0, <1>2 DEF MapTyped
<1>4. MapTyped(w, K, V, now)
  BY <1>c, <1>g, <1>2, <1>3 DEF MapTyped
<1>5. Live(w, now) = Live(m, now) \ gone
  BY <1>2, <1>3 DEF Live, Valid, Vacant
<1>6. \A j \in Live(w, now) : j \in Live(m, now) /\ w.slots[j] = m.slots[j]
  BY <1>3, <1>5 DEF Live
<1>7. MapUnique(w, now)
  BY <1>0, <1>6 DEF MapUnique
<1>8. MapDrift(w, now) = MapDrift(m, now) /\ MapCounted(w, now)
  BY <1>0, <1>c, <1>g, <1>2, <1>5 DEF MapDrift, MapCounted
<1>9. ASSUME NEW k \in K \cap Q PROVE ~ MapHas(w, k, now)
  BY <1>5, <1>6 DEF MapHas, Where, gone
<1>10. ASSUME NEW q \in K \ Q PROVE SameFor(q, m, w, now)
  <2>1. Where(w, q, now) = Where(m, q, now)
    BY <1>5, <1>6 DEF Where, gone
  <2>2. MapHas(m, q, now) => Least(Where(w, q, now)) \in Live(w, now)
    BY <2>1, HasSlot DEF MapHas
  <2>3. QED
    BY <1>6, <2>1, <2>2 DEF SameFor, MapHas
<1>11. QED
  BY <1>2, <1>4, <1>7, <1>8, <1>9, <1>10 DEF MapInv, Kept, Others

\* A second passes: entries can only drop out, so the counter can only run
\* further ahead, and in a map without life time nothing happens.
THEOREM MapLaterEffect ==
  ASSUME NEW K, NEW V, NEW now \in Nat \ {0}, NEW m, MapInv(m, K, V, now)
  PROVE  /\ MapInv(m, K, V, now + 1)
         /\ Live(m, now + 1) =
              {i \in Live(m, now) : m.timeout = 0 \/ m.slots[i].time + m.timeout >= now + 1}
<1>0. MapTyped(m, K, V, now) /\ MapUnique(m, now) /\ MapCounted(m, now)
  BY DEF MapInv
<1>c. /\ IsFiniteSet(Live(m, now)) /\ Cardinality(Live(m, now)) \in Nat
      /\ m.max \in Nat /\ m.size \in Int /\ m.timeout \in Nat
  BY <1>0, LiveFinite DEF MapTyped
<1>1. \A i \in 0..(m.max - 1) : m.slots[i] = Vacant \/ m.slots[i].time \in Nat
  BY <1>0 DEF MapTyped
<1>2. Live(m, now + 1) =
        {i \in Live(m, now) : m.timeout = 0 \/ m.slots[i].time + m.timeout >= now + 1}
  BY <1>c, <1>1 DEF Live, Valid, Vacant
<1>3. MapTyped(m, K, V, now + 1)
  <2>1. [key : K, val : V, time : 1..now] \subseteq [key : K, val : V, time : 1..(now + 1)]
    OBVIOUS
  <2>2. QED
    BY <1>0, <2>1 DEF MapTyped
<1>4. MapUnique(m, now + 1)
  BY <1>0, <1>2 DEF MapUnique
<1>5. /\ Cardinality(Live(m, now + 1)) \in Nat
      /\ Cardinality(Live(m, now + 1)) <= Cardinality(Live(m, now))
      /\ m.timeout = 0 => Live(m, now + 1) = Live(m, now)
  BY <1>c, <1>2, FS_Subset, FS_CardinalityType
<1>6. MapCounted(m, now + 1)
  BY <1>0, <1>c, <1>5 DEF MapCounted, MapDrift
<1>7. QED
  BY <1>2, <1>3, <1>4, <1>6 DEF MapInv

\* The slot a client of k reads.
SlotOf(m, k, now) == m.slots[Least(Where(m, k, now))]

\* A key that is present reads a filled slot of its own, stamped in the past and
\* not expired.
LEMMA SlotFilled ==
  ASSUME NEW K, NEW V, NEW now \in Nat \ {0}, NEW m, MapTyped(m, K, V, now),
         NEW k, MapHas(m, k, now), NEW s, s = SlotOf(m, k, now)
  PROVE  /\ s \in [key : K, val : V, time : 1..now]
         /\ s.key = k /\ s.val \in V /\ s.time \in 1..now
         /\ m.timeout = 0 \/ s.time + m.timeout >= now
<1>1. Least(Where(m, k, now)) \in Live(m, now) /\ s.key = k
  BY HasSlot DEF SlotOf
<1>2. /\ s.time # 0 /\ Least(Where(m, k, now)) \in 0..(m.max - 1)
      /\ m.timeout = 0 \/ s.time + m.timeout >= now
  BY <1>1 DEF Live, Valid, SlotOf
<1>3. s \in {Vacant} \cup [key : K, val : V, time : 1..now]
  BY <1>2 DEF MapTyped, SlotOf
<1>4. s \in [key : K, val : V, time : 1..now]
  BY <1>2, <1>3 DEF Vacant
<1>5. QED
  BY <1>1, <1>2, <1>4

\* A map of values of V is one of values of any larger set.
LEMMA MapWidens ==
  ASSUME NEW K, NEW V, NEW W, V \subseteq W, NEW now, NEW m, MapInv(m, K, V, now)
  PROVE  MapInv(m, K, W, now)
<1>1. [key : K, val : V, time : 1..now] \subseteq [key : K, val : W, time : 1..now]
  OBVIOUS
<1>2. QED
  BY <1>1 DEF MapInv, MapTyped

\* What is present a second later was present in the same slot before.
LEMMA LaterSlot ==
  ASSUME NEW K, NEW V, NEW now \in Nat \ {0}, NEW m, MapInv(m, K, V, now),
         NEW k, MapHas(m, k, now + 1)
  PROVE  MapHas(m, k, now) /\ SlotOf(m, k, now) = SlotOf(m, k, now + 1)
<1> DEFINE i == Least(Where(m, k, now + 1))
<1>1. i \in Live(m, now + 1) /\ m.slots[i].key = k
  BY HasSlot
<1>2. i \in Live(m, now)
  BY <1>1, MapLaterEffect
<1>3. MapUnique(m, now)
  BY DEF MapInv
<1> HIDE DEF i
<1>4. Least(Where(m, k, now)) = i /\ MapHas(m, k, now)
  BY <1>1, <1>2, <1>3, WhereIsOne
<1>5. QED
  BY <1>4 DEF i, SlotOf

\* After map_set a key is absent or reads what was set: a refused key was not
\* there.
LEMMA SetShows ==
  ASSUME NEW K, NEW V, NEW now \in Nat \ {0}, NEW m, MapInv(m, K, V, now),
         NEW k \in K, NEW v \in V, NEW w, AfterSet(m, k, v, now, w),
         MapHas(w, k, now)
  PROVE  SlotOf(w, k, now) = Entry(k, v, now)
<1>1. ~ MapRefuses(m, k, now)
  <2> SUFFICES ASSUME MapRefuses(m, k, now) PROVE FALSE
    OBVIOUS
  <2>1. ~ MapHas(m, k, now)
    BY DEF MapRefuses
  <2>2. w = m
    BY <2>1 DEF AfterSet, MapSet
  <2>3. QED
    BY <2>1, <2>2
<1>2. Stores(w, k, Entry(k, v, now), now)
  BY <1>1, MapSetEffect
<1>3. QED
  BY <1>2 DEF Stores, SlotOf

\* A map as map_init leaves it holds nothing and is well formed.
LEMMA NewMap ==
  ASSUME NEW n \in Nat, NEW life \in Nat, NEW K, NEW V,
         NEW m, m = MapInit(n, life)
  PROVE  /\ MapInv(m, K, V, 1) /\ m.max = n /\ m.timeout = life
         /\ \A k : ~ MapHas(m, k, 1)
<1>1. /\ m = [slots |-> m.slots, size |-> 0, max |-> n, timeout |-> life]
      /\ m.slots = [i \in 0..(n - 1) |-> Vacant]
      /\ m.size = 0 /\ m.max = n /\ m.timeout = life
  BY DEF MapInit
<1>2. \A i \in 0..(n - 1) : m.slots[i] = Vacant
  BY <1>1
<1>3. Live(m, 1) = {}
  BY <1>1, <1>2 DEF Live, Valid, Vacant
<1>4. Cardinality(Live(m, 1)) = 0
  BY <1>3, FS_EmptySet
<1>5. MapTyped(m, K, V, 1)
  BY <1>1 DEF MapTyped
<1>6. MapUnique(m, 1) /\ MapCounted(m, 1)
  BY <1>1, <1>3, <1>4 DEF MapUnique, MapCounted, MapDrift
<1>7. QED
  BY <1>1, <1>3, <1>5, <1>6 DEF MapInv, MapHas, Where
=============================================================================
