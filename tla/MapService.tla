----------------------------- MODULE MapService -----------------------------
(***************************************************************************)
(* One map and the clock: any sequence of the calls of map.h on it.        *)
(* "reply" is what the last call returned.                                 *)
(***************************************************************************)
EXTENDS TimedMap

CONSTANTS Keys, Values,
          Capacity,   \* max_size
          Lives,      \* the life times map_init may be given, 0 for none
          Horizon     \* bound on the clock

ASSUME CapacityAssumption == Capacity \in Nat \ {0}
ASSUME LivesAssumption == Lives \subseteq Nat
ASSUME HorizonAssumption == Horizon \in Nat

VARIABLES map, now, reply

vars == <<map, now, reply>>

Init ==
  /\ \E life \in Lives : map = MapInit(Capacity, life)
  /\ now = 1
  /\ reply = "none"

Set(k, v) ==
  /\ map' = MapSet(map, k, v, now)
  /\ reply' = IF MapRefuses(map, k, now) THEN "refused" ELSE "stored"
  /\ UNCHANGED now

Get(k) ==
  /\ reply' = IF MapHas(map, k, now) THEN MapGet(map, k, now) ELSE "missing"
  /\ UNCHANGED <<map, now>>

Revise(k, v) ==
  /\ MapHas(map, k, now)
  /\ map' = MapRevise(map, k, v, now)
  /\ reply' = "none"
  /\ UNCHANGED now

Delete(k) ==
  /\ map' = MapDelete(map, k, now)
  /\ reply' = "none"
  /\ UNCHANGED now

Sweep(K) ==
  /\ map' = MapSweep(map, K, now)
  /\ reply' = "none"
  /\ UNCHANGED now

Tick ==
  /\ now < Horizon
  /\ now' = now + 1
  /\ reply' = "none"
  /\ UNCHANGED map

Next ==
  \/ \E k \in Keys, v \in Values : Set(k, v) \/ Revise(k, v)
  \/ \E k \in Keys : Get(k) \/ Delete(k)
  \/ \E K \in SUBSET Keys : Sweep(K)
  \/ Tick

Spec == Init /\ [][Next]_vars

-----------------------------------------------------------------------------

\* Type invariant: the struct map_t, each slot vacant or filled with a stamp
\* that is not in the future; capacity and life time are those of map_init.
TypeOK ==
  /\ now \in Nat \ {0}
  /\ MapTyped(map, Keys, Values, now)
  /\ map.max = Capacity
  /\ map.timeout \in Lives

\* No key is live in two slots, however often it expired, was deleted and came
\* back through another slot: what map_get, map_delete and map_set of one key
\* work on is one entry.
UniqueLive == MapUnique(map, now)

\* The counter never falls below the number of live entries (size-- in
\* map_delete cannot wrap the size_t, the search of map_set cannot fail after
\* the capacity test passed) and never passes the capacity.
SizeCoversLive ==
  /\ Cardinality(Live(map, now)) <= map.size
  /\ map.size <= map.max

\* In a map without a life time (UDP ports, TCP connections, protocol table)
\* the counter is exactly the number of entries.
SizeExactWithoutTimeout ==
  map.timeout = 0 => map.size = Cardinality(Live(map, now))

\* The store a map stands for: the live entry of each key.
Slot(k) == map.slots[Least(Where(map, k, now))]
StoreView ==
  [k \in Keys |-> IF MapHas(map, k, now)
                  THEN [val |-> Slot(k).val, time |-> Slot(k).time]
                  ELSE Vacant]

Promise ==
  INSTANCE TimedStore
    WITH store <- StoreView, life <- map.timeout, clock <- now, answer <- reply

\* Every call on the map is a step the store allows, with the reply it gives.
ImplementsStore == Promise!Spec

\* What map.h says of max_size ("capacity") and of size ("current size"): a
\* key is refused only when that many entries are there.
RefusedOnlyWhenFull ==
  reply = "refused" => Cardinality(Live(map, now)) = map.max
=============================================================================
