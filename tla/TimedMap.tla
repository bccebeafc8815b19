------------------------------ MODULE TimedMap ------------------------------
(***************************************************************************)
(* The generic map of the stack (src/map.c): a fixed array of slots, a     *)
(* capacity, a counter of occupied slots and a life time.  Every table of  *)
(* the stack (ARP cache, ARP buffer, UDP ports, TCP connections, IP        *)
(* reassembly, outstanding pings) is one of these, so it is written as     *)
(* operators on a record and used by the modules of its clients.           *)
(*                                                                         *)
(* A slot holds a key, a value and a time stamp; a zero stamp marks a slot *)
(* that was never used or was deleted, whatever bytes are left in it.      *)
(* "now" is time(NULL): the calls made inside one map operation read the   *)
(* same second.  An entry that is not live at one second is not live at a  *)
(* later one, so a second boundary inside map_set cannot change what it    *)
(* does to a key.                                                          *)
(***************************************************************************)
EXTENDS Integers, FiniteSets

Vacant == [time |-> 0]
Entry(k, v, t) == [key |-> k, val |-> v, time |-> t]

MapInit(n, timeout) ==
  [slots |-> [i \in 0..(n - 1) |-> Vacant], size |-> 0, max |-> n, timeout |-> timeout]

\* map_entry_valid: stamped, and not older than the life time.
Valid(m, i, now) ==
  /\ m.slots[i].time # 0
  /\ m.timeout = 0 \/ m.slots[i].time + m.timeout >= now

Live(m, now) == {i \in 0..(m.max - 1) : Valid(m, i, now)}
Free(m, now) == {i \in 0..(m.max - 1) : ~Valid(m, i, now)}

\* The live slots that hold k; map_get takes the first one.
Where(m, k, now) == {i \in Live(m, now) : m.slots[i].key = k}
Least(S) == CHOOSE i \in S : \A j \in S : i <= j

MapHas(m, k, now) == Where(m, k, now) # {}
MapGet(m, k, now) == m.slots[Least(Where(m, k, now))].val

\* map_set returns -1: a new key, and the counter is at the capacity (or the
\* search for a free slot comes back empty-handed).
MapRefuses(m, k, now) ==
  /\ ~MapHas(m, k, now)
  /\ m.size = m.max \/ Free(m, now) = {}

\* Three mutants of map_set: it inserts without looking the key up; an update
\* keeps the old stamp; the stamp is the second the entry will expire in.
MapSetBlind(m, k, v, now) ==
  IF m.size = m.max \/ Free(m, now) = {} THEN m
  ELSE [m EXCEPT !.slots[Least(Free(m, now))] = Entry(k, v, now), !.size = @ + 1]
MapSetKeepsStamp(m, k, v, now) ==
  IF MapHas(m, k, now) THEN [m EXCEPT !.slots[Least(Where(m, k, now))].val = v]
  ELSE IF MapRefuses(m, k, now) THEN m
  ELSE [m EXCEPT !.slots[Least(Free(m, now))] = Entry(k, v, now), !.size = @ + 1]
MapSetExpiry(m, k, v, now) ==
  IF MapHas(m, k, now)
  THEN [m EXCEPT !.slots[Least(Where(m, k, now))] = Entry(k, v, now + m.timeout)]
  ELSE IF MapRefuses(m, k, now) THEN m
  ELSE [m EXCEPT !.slots[Least(Free(m, now))] = Entry(k, v, now + m.timeout), !.size = @ + 1]

\* map_set: overwrite a live entry and restamp it, else take the first slot
\* that is not live.  A slot whose entry expired is taken over, and counted,
\* a second time.
MapSet(m, k, v, now) ==
  IF MapHas(m, k, now)
  THEN [m EXCEPT !.slots[Least(Where(m, k, now))] = Entry(k, v, now)]
  ELSE IF MapRefuses(m, k, now) THEN m
  ELSE [m EXCEPT !.slots[Least(Free(m, now))] = Entry(k, v, now),
                 !.size = @ + 1]

\* A client writes through the pointer map_get returned: the value changes, the
\* stamp does not.
MapRevise(m, k, v, now) ==
  IF MapHas(m, k, now) THEN [m EXCEPT !.slots[Least(Where(m, k, now))].val = v] ELSE m

\* Two mutants of map_delete: it forgets the counter; it discounts a key that is
\* not there.
MapDeleteUncounted(m, k, now) ==
  IF MapHas(m, k, now) THEN [m EXCEPT !.slots[Least(Where(m, k, now))] = Vacant] ELSE m
MapDeleteAnyway(m, k, now) ==
  IF MapHas(m, k, now)
  THEN [m EXCEPT !.slots[Least(Where(m, k, now))] = Vacant, !.size = @ - 1]
  ELSE [m EXCEPT !.size = IF @ = 0 THEN @ ELSE @ - 1]

\* map_delete: only a live entry is deleted and discounted.
MapDelete(m, k, now) ==
  IF MapHas(m, k, now)
  THEN [m EXCEPT !.slots[Least(Where(m, k, now))] = Vacant, !.size = @ - 1]
  ELSE m

\* map_foreach with a handler that deletes the keys of K, as tcp_close uses it.
MapSweep(m, K, now) ==
  LET gone == {i \in Live(m, now) : m.slots[i].key \in K}
  IN  [m EXCEPT !.slots = [i \in 0..(m.max - 1) |-> IF i \in gone THEN Vacant ELSE @[i]],
                !.size = @ - Cardinality(gone)]
-----------------------------------------------------------------------------

\* The struct map_t with keys of K and values of V: each slot vacant or filled
\* and stamped with a second of the past.
MapTyped(m, K, V, now) ==
  /\ m = [slots |-> m.slots, size |-> m.size, max |-> m.max, timeout |-> m.timeout]
  /\ m.max \in Nat
  /\ m.slots \in [0..(m.max - 1) -> {Vacant} \cup [key : K, val : V, time : 1..now]]
  /\ m.size \in Int
  /\ m.timeout \in Nat

\* No key is live in two slots.
MapUnique(m, now) ==
  \A i, j \in Live(m, now) : m.slots[i].key = m.slots[j].key => i = j

\* How far the counter is ahead of the entries it counts.
MapDrift(m, now) == m.size - Cardinality(Live(m, now))

MapCounted(m, now) ==
  /\ MapDrift(m, now) >= 0
  /\ m.size <= m.max
  /\ m.timeout = 0 => MapDrift(m, now) = 0

MapInv(m, K, V, now) ==
  MapTyped(m, K, V, now) /\ MapUnique(m, now) /\ MapCounted(m, now)
=============================================================================
