----------------------------- MODULE TimedStore -----------------------------
(***************************************************************************)
(* What the map promises its clients, without slots or counter: for every  *)
(* key at most one value, the last one stored, which disappears when it is *)
(* removed or when it has not been stored again for longer than its life   *)
(* time.  A new key may be refused; an update of a present key may not.    *)
(***************************************************************************)
EXTENDS Integers, FiniteSets

CONSTANTS Keys, Values, Capacity, Lives, Horizon

VARIABLES store, life, clock, answer

Absent == [time |-> 0]
Present == {k \in Keys : store[k] # Absent}

Init ==
  /\ store = [k \in Keys |-> Absent]
  /\ life \in Lives
  /\ clock = 1
  /\ answer = "none"

Put(k, v) ==
  /\ store' = [store EXCEPT ![k] = [val |-> v, time |-> clock]]
  /\ answer' = "stored"
  /\ UNCHANGED <<life, clock>>

\* A refusal concerns a key that is absent; a store whose entries never
\* expire refuses only when Capacity keys are present.
Refuse(k) ==
  /\ store[k] = Absent
  /\ life = 0 => Cardinality(Present) = Capacity
  /\ answer' = "refused"
  /\ UNCHANGED <<store, life, clock>>

Fetch(k) ==
  /\ answer' = IF store[k] = Absent THEN "missing" ELSE store[k].val
  /\ UNCHANGED <<store, life, clock>>

Revise(k, v) ==
  /\ store[k] # Absent
  /\ store' = [store EXCEPT ![k].val = v]
  /\ answer' = "none"
  /\ UNCHANGED <<life, clock>>

Remove(K) ==
  /\ store' = [k \in Keys |-> IF k \in K THEN Absent ELSE store[k]]
  /\ answer' = "none"
  /\ UNCHANGED <<life, clock>>

Second ==
  /\ clock < Horizon
  /\ clock' = clock + 1
  /\ store' = [k \in Keys |->
       IF life # 0 /\ store[k].time + life < clock + 1 THEN Absent ELSE store[k]]
  /\ answer' = "none"
  /\ UNCHANGED life

Next ==
  \/ \E k \in Keys, v \in Values : Put(k, v) \/ Revise(k, v)
  \/ \E k \in Keys : Refuse(k) \/ Fetch(k)
  \/ \E K \in SUBSET Keys : Remove(K)
  \/ Second

vars == <<store, life, clock, answer>>
Spec == Init /\ [][Next]_vars
=============================================================================
