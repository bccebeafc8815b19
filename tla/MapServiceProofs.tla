-------------------------- MODULE MapServiceProofs --------------------------
(***************************************************************************)
(* The map for every capacity, life time, key and value set: its           *)
(* invariants, and that it implements the store.                           *)
(***************************************************************************)
EXTENDS MapService, TimedMapTheorems

\* The inductive invariant: the map is well formed at the present second and
\* keeps the capacity and life time it was made with.
IInv ==
  /\ now \in Nat \ {0}
  /\ MapInv(map, Keys, Values, now)
  /\ map.max = Capacity
  /\ map.timeout \in Lives

LEMMA InitInv == Init => IInv
<1> SUFFICES ASSUME Init PROVE IInv
  OBVIOUS
<1>1. PICK life \in Lives : map = MapInit(Capacity, life)
  BY DEF Init
<1>2. /\ map = [slots |-> map.slots, size |-> 0, max |-> Capacity, timeout |-> life]
      /\ map.slots = [i \in 0..(Capacity - 1) |-> Vacant]
      /\ map.size = 0 /\ map.max = Capacity /\ map.timeout = life
  BY <1>1 DEF MapInit
<1>3. now = 1
  BY DEF Init
<1>4. \A i \in 0..(Capacity - 1) : map.slots[i] = Vacant
  BY <1>2
<1>5. Live(map, now) = {}
  BY <1>2, <1>4 DEF Live, Valid, Vacant
<1>6. Cardinality(Live(map, now)) = 0
  BY <1>5, FS_EmptySet
<1>7. MapTyped(map, Keys, Values, now)
  BY <1>2, CapacityAssumption, LivesAssumption DEF MapTyped
<1>8. MapUnique(map, now) /\ MapCounted(map, now)
  BY <1>2, <1>5, <1>6, CapacityAssumption DEF MapUnique, MapCounted, MapDrift
<1>9. QED
  BY <1>2, <1>3, <1>7, <1>8 DEF IInv, MapInv

LEMMA NextInv == IInv /\ [Next]_vars => IInv'
<1> SUFFICES ASSUME IInv, [Next]_vars PROVE IInv'
  OBVIOUS
<1>0. now \in Nat \ {0} /\ MapInv(map, Keys, Values, now)
  BY DEF IInv
<1>1. ASSUME NEW k \in Keys, NEW v \in Values, Set(k, v) PROVE IInv'
  <2>1. AfterSet(map, k, v, now, map') /\ now' = now
    BY <1>1 DEF Set, AfterSet
  <2>2. Kept(Keys, Values, map, map', now)
    BY <1>0, <2>1, MapSetEffect
  <2>3. QED
    BY <1>0, <2>1, <2>2 DEF IInv, Kept
<1>2. ASSUME NEW k \in Keys, NEW v \in Values, Revise(k, v) PROVE IInv'
  <2>1. AfterRevise(map, k, v, now, map') /\ now' = now /\ MapHas(map, k, now)
    BY <1>2 DEF Revise, AfterRevise
  <2>2. Kept(Keys, Values, map, map', now)
    BY <1>0, <2>1, MapReviseEffect
  <2>3. QED
    BY <1>0, <2>1, <2>2 DEF IInv, Kept
<1>3. ASSUME NEW k \in Keys, Get(k) PROVE IInv'
  BY <1>3 DEF IInv, Get
<1>4. ASSUME NEW k \in Keys, Delete(k) PROVE IInv'
  <2>1. AfterDelete(map, k, now, map') /\ now' = now
    BY <1>4 DEF Delete, AfterDelete
  <2>2. Kept(Keys, Values, map, map', now)
    BY <1>0, <2>1, MapDeleteEffect
  <2>3. QED
    BY <1>0, <2>1, <2>2 DEF IInv, Kept
<1>5. ASSUME NEW K \in SUBSET Keys, Sweep(K) PROVE IInv'
  <2>1. AfterSweep(map, K, now, map') /\ now' = now
    BY <1>5 DEF Sweep, AfterSweep
  <2>2. Kept(Keys, Values, map, map', now)
    BY <1>0, <2>1, MapSweepEffect
  <2>3. QED
    BY <1>0, <2>1, <2>2 DEF IInv, Kept
<1>6. CASE Tick
  BY <1>0, <1>6, MapLaterEffect DEF IInv, Tick
<1>7. CASE UNCHANGED vars
  BY <1>7 DEF IInv, vars
<1>8. QED
  BY <1>1, <1>2, <1>3, <1>4, <1>5, <1>6, <1>7 DEF Next

\* The inductive invariant holds in every reachable state.
THEOREM Invariance == Spec => []IInv
BY InitInv, NextInv, PTL DEF Spec

\* The map keeps the shape of map_t with the capacity and the life time of
\* map_init (map.c:15-30).
THEOREM TypeCorrect == Spec => []TypeOK
<1>1. IInv => TypeOK
  BY DEF IInv, MapInv, TypeOK
<1>2. QED
  BY <1>1, Invariance, PTL

\* No key ever occupies two live slots: map_get, map_set and map_delete of a key
\* (map.c:74-128) always mean the same entry.
THEOREM KeysUnique == Spec => []UniqueLive
<1>1. IInv => UniqueLive
  BY DEF IInv, MapInv, UniqueLive
<1>2. QED
  BY <1>1, Invariance, PTL

\* The counter lies between the number of live entries and the capacity, so
\* that it never wraps below zero and map.c:113 is unreachable.
THEOREM SizeBounds == Spec => []SizeCoversLive
<1>1. IInv => SizeCoversLive
  <2> SUFFICES ASSUME IInv PROVE SizeCoversLive
    OBVIOUS
  <2>1. MapTyped(map, Keys, Values, now) /\ MapCounted(map, now)
    BY DEF IInv, MapInv
  <2>2. map.size \in Int /\ Cardinality(Live(map, now)) \in Nat
    BY <2>1, LiveFinite DEF MapTyped
  <2>3. QED
    BY <2>1, <2>2 DEF MapCounted, MapDrift, SizeCoversLive
<1>2. QED
  BY <1>1, Invariance, PTL

\* Without a life time the counter is the number of entries.
THEOREM SizeExact == Spec => []SizeExactWithoutTimeout
<1>1. IInv => SizeExactWithoutTimeout
  <2> SUFFICES ASSUME IInv PROVE SizeExactWithoutTimeout
    OBVIOUS
  <2>1. MapTyped(map, Keys, Values, now) /\ MapCounted(map, now)
    BY DEF IInv, MapInv
  <2>2. map.size \in Int /\ Cardinality(Live(map, now)) \in Nat
    BY <2>1, LiveFinite DEF MapTyped
  <2>3. QED
    BY <2>1, <2>2 DEF MapCounted, MapDrift, SizeExactWithoutTimeout
<1>2. QED
  BY <1>1, Invariance, PTL

-----------------------------------------------------------------------------

\* A key whose slot did not change reads the same in the store.
LEMMA SameView ==
  ASSUME NEW k \in Keys, now' = now, SameFor(k, map, map', now)
  PROVE  StoreView'[k] = StoreView[k]
BY DEF SameFor, StoreView, Slot

LEMMA InitStore == Init => Promise!Init
<1> SUFFICES ASSUME Init PROVE Promise!Init
  OBVIOUS
<1>1. PICK life \in Lives : map = MapInit(Capacity, life)
  BY DEF Init
<1>2. /\ map.slots = [i \in 0..(Capacity - 1) |-> Vacant]
      /\ map.max = Capacity /\ map.timeout = life
  BY <1>1 DEF MapInit
<1>3. \A i \in 0..(map.max - 1) : map.slots[i] = Vacant
  BY <1>2
<1>4. \A k \in Keys : ~ MapHas(map, k, now)
  BY <1>3 DEF MapHas, Where, Live, Valid, Vacant
<1>5. StoreView = [k \in Keys |-> Vacant]
  BY <1>4 DEF StoreView
<1>6. QED
  BY <1>2, <1>5 DEF Init, Promise!Init, Promise!Absent, Vacant

\* A key is in the store exactly when the map has it; its slot is filled.
LEMMA ViewOf ==
  ASSUME IInv, NEW k \in Keys
  PROVE  /\ MapHas(map, k, now) => /\ StoreView[k] = [val |-> Slot(k).val, time |-> Slot(k).time]
                                   /\ Slot(k).time \in Nat \ {0}
                                   /\ Slot(k).val \in Values
                                   /\ StoreView[k] # Vacant
         /\ ~ MapHas(map, k, now) => StoreView[k] = Vacant
<1>1. ~ MapHas(map, k, now) => StoreView[k] = Vacant
  BY DEF StoreView
<1>2. ASSUME MapHas(map, k, now)
      PROVE  /\ StoreView[k] = [val |-> Slot(k).val, time |-> Slot(k).time]
             /\ Slot(k).time \in Nat \ {0} /\ Slot(k).val \in Values
             /\ StoreView[k] # Vacant
  <2> DEFINE i == Least(Where(map, k, now))
  <2>1. i \in Live(map, now)
    BY <1>2, HasSlot
  <2>2. map.slots[i].time # 0 /\ i \in 0..(map.max - 1)
    BY <2>1 DEF Live, Valid
  <2>3. MapTyped(map, Keys, Values, now)
    BY DEF IInv, MapInv
  <2>4. map.slots[i] \in [key : Keys, val : Values, time : 1..now]
    BY <2>2, <2>3 DEF MapTyped, Vacant
  <2>5. Slot(k).time \in Nat \ {0} /\ Slot(k).val \in Values
    BY <2>4 DEF Slot
  <2>6. StoreView[k] = [val |-> Slot(k).val, time |-> Slot(k).time]
    BY <1>2 DEF StoreView
  <2>7. StoreView[k].time # Vacant.time
    BY <2>5, <2>6 DEF Vacant
  <2>8. QED
    BY <2>5, <2>6, <2>7
<1>3. QED
  BY <1>1, <1>2

\* A stored entry shows in the store, and nothing else changes there.
LEMMA ViewAfterStore ==
  ASSUME NEW k \in Keys, NEW v, NEW t, now' = now,
         Stores(map', k, Entry(k, v, t), now), Others(Keys, {k}, map, map', now)
  PROVE  StoreView' = [StoreView EXCEPT ![k] = [val |-> v, time |-> t]]
<1>1. StoreView'[k] = [val |-> v, time |-> t]
  BY DEF StoreView, Stores, Slot, Entry
<1>2. \A q \in Keys \ {k} : StoreView'[q] = StoreView[q]
  BY SameView DEF Others
<1>3. StoreView' = [q \in Keys |-> StoreView'[q]]
  BY DEF StoreView
<1>4. StoreView = [q \in Keys |-> StoreView[q]]
  BY DEF StoreView
<1>5. QED
  BY <1>1, <1>2, <1>3, <1>4

\* When nothing expires and the map refuses, Capacity keys are present.
LEMMA RefusalMeansFull ==
  ASSUME IInv, NEW k \in Keys, MapRefuses(map, k, now), map.timeout = 0
  PROVE  Cardinality(Promise!Present) = Capacity
<1> DEFINE L == Live(map, now)
           f == [i \in L |-> map.slots[i].key]
<1>0. /\ MapTyped(map, Keys, Values, now) /\ MapUnique(map, now) /\ MapCounted(map, now)
      /\ map.max = Capacity
  BY DEF IInv, MapInv
<1>1. map.max \in Nat /\ map.size \in Int /\ IsFiniteSet(L) /\ Cardinality(L) \in Nat
  BY <1>0, LiveFinite DEF MapTyped
<1>2. Cardinality(L) = Capacity
  <2>1. CASE map.size = map.max
    BY <1>0, <1>1, <2>1 DEF MapCounted, MapDrift
  <2>2. CASE Free(map, now) = {}
    <3>1. L = 0..(map.max - 1)
      BY <2>2 DEF Live, Free
    <3>2. 0 \in Int /\ map.max - 1 \in Int
      BY <1>1
    <3>3. Cardinality(L) = IF 0 > map.max - 1 THEN 0 ELSE map.max - 1 - 0 + 1
      BY <3>1, <3>2, FS_Interval, Zenon
    <3>4. QED
      BY <1>0, <1>1, <3>3
  <2>3. QED
    BY <2>1, <2>2 DEF MapRefuses
<1>3. Promise!Present = {q \in Keys : MapHas(map, q, now)}
  <2>1. \A q \in Keys : StoreView[q] # Vacant <=> MapHas(map, q, now)
    BY ViewOf
  <2>2. QED
    BY <2>1 DEF Promise!Present, Promise!Absent, Vacant
<1>4. \A i \in L : map.slots[i].key \in Keys
  BY <1>0 DEF MapTyped, Live, Valid, Vacant
<1>5. f \in Bijection(L, Promise!Present)
  <2>1. ASSUME NEW i \in L PROVE f[i] \in Promise!Present
    BY <1>3, <1>4 DEF MapHas, Where
  <2>2. f \in Injection(L, Promise!Present)
    BY <1>0, <2>1 DEF Injection, IsInjective, MapUnique
  <2>3. ASSUME NEW q \in Promise!Present PROVE \E i \in L : f[i] = q
    BY <1>3 DEF MapHas, Where
  <2>4. QED
    BY <2>1, <2>2, <2>3 DEF Bijection, Surjection
<1>6. QED
  <2>1. ExistsBijection(L, Promise!Present)
    BY <1>5 DEF ExistsBijection
  <2>2. QED
    BY <1>1, <1>2, <2>1, FS_Bijection

LEMMA NextStore == IInv /\ [Next]_vars => [Promise!Next]_(Promise!vars)
<1> SUFFICES ASSUME IInv, [Next]_vars PROVE [Promise!Next]_(Promise!vars)
  OBVIOUS
<1>0. now \in Nat \ {0} /\ MapInv(map, Keys, Values, now) /\ map.timeout \in Nat
  BY DEF IInv, MapInv, MapTyped
<1>1. ASSUME NEW k \in Keys, NEW v \in Values, Set(k, v) PROVE Promise!Next
  <2>1. AfterSet(map, k, v, now, map') /\ now' = now
    BY <1>1 DEF Set, AfterSet
  <2>2. /\ Kept(Keys, Values, map, map', now)
        /\ MapRefuses(map, k, now) => map' = map
        /\ ~ MapRefuses(map, k, now) => Stores(map', k, Entry(k, v, now), now)
        /\ Others(Keys, {k}, map, map', now)
    BY <1>0, <2>1, MapSetEffect
  <2>3. CASE MapRefuses(map, k, now)
    <3>1. map' = map /\ now' = now /\ reply' = "refused" /\ StoreView' = StoreView
      BY <1>1, <2>1, <2>2, <2>3 DEF Set, StoreView, Slot
    <3>2. StoreView[k] = Vacant
      BY <2>3, ViewOf DEF MapRefuses
    <3>3. map.timeout = 0 => Cardinality(Promise!Present) = Capacity
      BY <2>3, RefusalMeansFull
    <3>4. Promise!Refuse(k)
      <4>1. map.timeout = 0 => Promise!Cardinality(Promise!Present) = Capacity
        BY <3>3, Zenon DEF Cardinality, Promise!Cardinality
      <4>2. map'.timeout = map.timeout
        BY <3>1
      <4>3. QED
        BY <3>1, <3>2, <4>1, <4>2 DEF Promise!Refuse, Promise!Absent, Vacant
    <3>5. QED
      BY <3>4 DEF Promise!Next
  <2>4. CASE ~ MapRefuses(map, k, now)
    <3>1. reply' = "stored" /\ map'.timeout = map.timeout
      BY <1>1, <2>2, <2>4 DEF Set, Kept
    <3>2. StoreView' = [StoreView EXCEPT ![k] = [val |-> v, time |-> now]]
      BY <2>1, <2>2, <2>4, ViewAfterStore
    <3>3. Promise!Put(k, v)
      BY <2>1, <3>1, <3>2 DEF Promise!Put
    <3>4. QED
      BY <3>3 DEF Promise!Next
  <2>5. QED
    BY <2>3, <2>4
<1>2. ASSUME NEW k \in Keys, NEW v \in Values, Revise(k, v) PROVE Promise!Next
  <2>1. AfterRevise(map, k, v, now, map') /\ now' = now /\ MapHas(map, k, now) /\ reply' = "none"
    BY <1>2 DEF Revise, AfterRevise
  <2>2. /\ Kept(Keys, Values, map, map', now)
        /\ Stores(map', k, Entry(k, v, Slot(k).time), now)
        /\ Others(Keys, {k}, map, map', now)
    BY <1>0, <2>1, MapReviseEffect DEF Slot
  <2>3. StoreView' = [StoreView EXCEPT ![k] = [val |-> v, time |-> Slot(k).time]]
    BY <2>1, <2>2, ViewAfterStore
  <2>4. StoreView[k] = [val |-> Slot(k).val, time |-> Slot(k).time] /\ StoreView[k] # Vacant
    BY <2>1, ViewOf
  <2>5. StoreView' = [StoreView EXCEPT ![k].val = v]
    <3>1. [StoreView[k] EXCEPT !.val = v] = [val |-> v, time |-> Slot(k).time]
      BY <2>4
    <3>2. QED
      BY <2>3, <3>1
  <2>6. Promise!Revise(k, v)
    BY <2>1, <2>2, <2>4, <2>5 DEF Promise!Revise, Promise!Absent, Vacant, Kept
  <2>7. QED
    BY <2>6 DEF Promise!Next
<1>3. ASSUME NEW k \in Keys, Get(k) PROVE Promise!Next
  <2>1. map' = map /\ now' = now /\ StoreView' = StoreView
    BY <1>3 DEF Get, StoreView, Slot
  <2>2. reply' = IF StoreView[k] = Vacant THEN "missing" ELSE StoreView[k].val
    <3>1. MapHas(map, k, now) => StoreView[k].val = MapGet(map, k, now)
      <4>1. MapHas(map, k, now) => StoreView[k] = [val |-> Slot(k).val, time |-> Slot(k).time]
        BY ViewOf
      <4>2. MapGet(map, k, now) = Slot(k).val
        BY DEF MapGet, Slot
      <4>3. QED
        BY <4>1, <4>2
    <3>2. QED
      BY <1>3, <3>1, ViewOf DEF Get
  <2>3. Promise!Fetch(k)
    BY <2>1, <2>2 DEF Promise!Fetch, Promise!Absent, Vacant
  <2>4. QED
    BY <2>3 DEF Promise!Next
<1>4. ASSUME NEW k \in Keys, Delete(k) PROVE Promise!Next
  <2>1. AfterDelete(map, k, now, map') /\ now' = now /\ reply' = "none"
    BY <1>4 DEF Delete, AfterDelete
  <2>2. /\ Kept(Keys, Values, map, map', now) /\ ~ MapHas(map', k, now)
        /\ Others(Keys, {k}, map, map', now)
    BY <1>0, <2>1, MapDeleteEffect
  <2>3. StoreView' = [q \in Keys |-> IF q \in {k} THEN Vacant ELSE StoreView[q]]
    <3>1. \A q \in Keys \ {k} : StoreView'[q] = StoreView[q]
      BY <2>1, <2>2, SameView DEF Others
    <3>2. StoreView'[k] = Vacant
      BY <2>1, <2>2 DEF StoreView
    <3>3. StoreView' = [q \in Keys |-> StoreView'[q]]
      BY DEF StoreView
    <3>4. QED
      BY <3>1, <3>2, <3>3
  <2>4. Promise!Remove({k})
    BY <2>1, <2>2, <2>3 DEF Promise!Remove, Promise!Absent, Vacant, Kept
  <2>5. QED
    BY <2>4 DEF Promise!Next
<1>5. ASSUME NEW K \in SUBSET Keys, Sweep(K) PROVE Promise!Next
  <2>1. AfterSweep(map, K, now, map') /\ now' = now /\ reply' = "none"
    BY <1>5 DEF Sweep, AfterSweep
  <2>2. /\ Kept(Keys, Values, map, map', now) /\ \A q \in Keys \cap K : ~ MapHas(map', q, now)
        /\ Others(Keys, K, map, map', now)
    BY <1>0, <2>1, MapSweepEffect
  <2>3. StoreView' = [q \in Keys |-> IF q \in K THEN Vacant ELSE StoreView[q]]
    <3>1. \A q \in Keys \ K : StoreView'[q] = StoreView[q]
      BY <2>1, <2>2, SameView DEF Others
    <3>2. \A q \in K : StoreView'[q] = Vacant
      BY <2>1, <2>2 DEF StoreView
    <3>3. StoreView' = [q \in Keys |-> StoreView'[q]]
      BY DEF StoreView
    <3>4. QED
      BY <3>1, <3>2, <3>3
  <2>4. Promise!Remove(K)
    BY <2>1, <2>2, <2>3 DEF Promise!Remove, Promise!Absent, Vacant, Kept
  <2>5. QED
    BY <2>4 DEF Promise!Next
<1>6. CASE Tick
  <2>1. map' = map /\ now' = now + 1 /\ now < Horizon /\ reply' = "none"
    BY <1>6 DEF Tick
  <2>2. Live(map, now + 1) =
          {i \in Live(map, now) : map.timeout = 0 \/ map.slots[i].time + map.timeout >= now + 1}
    BY <1>0, MapLaterEffect
  <2>3. ASSUME NEW k \in Keys
        PROVE  StoreView'[k] = IF map.timeout # 0 /\ StoreView[k].time + map.timeout < now + 1
                               THEN Vacant ELSE StoreView[k]
    <3>1. CASE ~ MapHas(map, k, now)
      <4>1. ~ MapHas(map, k, now + 1)
        BY <2>2, <3>1 DEF MapHas, Where
      <4>2. QED
        BY <2>1, <3>1, <4>1 DEF StoreView
    <3>2. CASE MapHas(map, k, now)
      <4> DEFINE i == Least(Where(map, k, now))
      <4>1. i \in Live(map, now) /\ map.slots[i].key = k
        BY <3>2, HasSlot
      <4>2. MapUnique(map, now)
        BY <1>0 DEF MapInv
      <4>3. StoreView[k] = [val |-> map.slots[i].val, time |-> map.slots[i].time]
            /\ map.slots[i].time \in Nat
        BY <3>2, ViewOf DEF Slot
      <4> HIDE DEF i
      <4>4. CASE i \in Live(map, now + 1)
        <5>1. MapUnique(map, now + 1)
          BY <2>2, <4>2 DEF MapUnique
        <5>2. Least(Where(map, k, now + 1)) = i /\ MapHas(map, k, now + 1)
          BY <4>1, <4>4, <5>1, WhereIsOne
        <5>3. StoreView'[k] = StoreView[k]
          BY <2>1, <4>3, <5>2 DEF StoreView, Slot
        <5>4. map.timeout = 0 \/ map.slots[i].time + map.timeout >= now + 1
          BY <2>2, <4>4
        <5>5. QED
          BY <1>0, <4>3, <5>3, <5>4
      <4>5. CASE i \notin Live(map, now + 1)
        <5>1. ~ MapHas(map, k, now + 1)
          BY <2>2, <4>1, <4>2, <4>5 DEF MapHas, Where, MapUnique
        <5>2. StoreView'[k] = Vacant
          BY <2>1, <5>1 DEF StoreView
        <5>3. map.timeout # 0 /\ ~ (map.slots[i].time + map.timeout >= now + 1)
          BY <2>2, <4>1, <4>5
        <5>4. QED
          BY <1>0, <4>3, <5>2, <5>3
      <4>6. QED
        BY <4>4, <4>5
    <3>3. QED
      BY <3>1, <3>2
  <2>4. StoreView' = [k \in Keys |->
          IF map.timeout # 0 /\ StoreView[k].time + map.timeout < now + 1
          THEN Vacant ELSE StoreView[k]]
    <3>1. StoreView' = [q \in Keys |-> StoreView'[q]]
      BY DEF StoreView
    <3>2. QED
      BY <2>3, <3>1
  <2>5. Promise!Second
    BY <2>1, <2>4 DEF Promise!Second, Promise!Absent, Vacant
  <2>6. QED
    BY <2>5 DEF Promise!Next
<1>7. CASE UNCHANGED vars
  BY <1>7 DEF vars, Promise!vars, StoreView, Slot
<1>8. QED
  BY <1>1, <1>2, <1>3, <1>4, <1>5, <1>6, <1>7 DEF Next

\* Every behaviour of the map is one of the store that TimedStore promises:
\* map.c keeps its promise to its clients for every capacity and life time.
THEOREM Refinement == Spec => ImplementsStore
<1>1. Spec => Promise!Spec
  BY InitStore, NextStore, Invariance, PTL DEF Spec, Promise!Spec
<1>2. QED
  BY <1>1 DEF ImplementsStore
=============================================================================
