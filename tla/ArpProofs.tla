----------------------------- MODULE ArpProofs -----------------------------
(***************************************************************************)
(* Address resolution for any number of peers and hardware addresses, any  *)
(* capacities and life times of the two maps: from what one operation does *)
(* to a map (TimedMapTheorems) to what the two maps promise together.      *)
(***************************************************************************)
EXTENDS Arp, TimedMapTheorems

\* What the table knows of an address is what the address last said.
KnownAsHeard ==
  \A ip \in Ips : MapHas(arp_table, ip, now) =>
    /\ SlotOf(arp_table, ip, now).val = heard[ip].mac
    /\ SlotOf(arp_table, ip, now).time = heard[ip].time

MapsInv ==
  /\ MapInv(arp_table, Ips, Macs, now)
  /\ arp_table.max = TableSlots /\ arp_table.timeout = ArpTimeout
  /\ MapInv(arp_buf, Ips, 1..handed, now)
  /\ arp_buf.max = BufferSlots /\ arp_buf.timeout = MinInterval

GhostsOK ==
  /\ now \in Nat \ {0} /\ handed \in Nat
  /\ asked \in [Ips -> 0..now]
  /\ heard \in [Ips -> {Vacant} \cup [mac : Macs, time : 1..now]]
  /\ lastOut \in [Ips -> 0..handed]

\* A packet that waits was not overtaken, and the address was asked for when it
\* began to wait.
HeldSlots ==
  \A ip \in Ips : MapHas(arp_buf, ip, now) =>
    /\ SlotOf(arp_buf, ip, now).time = asked[ip]
    /\ SlotOf(arp_buf, ip, now).val > lastOut[ip]

\* The inductive invariant.
IInv ==
  GhostsOK /\ MapsInv /\ KnownAsHeard /\ NotHeldWhileKnown /\ HeldSlots /\ FreshAddress

LEMMA InitInv == Init => IInv
<1> SUFFICES ASSUME Init PROVE IInv
  OBVIOUS
<1>1. now = 1 /\ handed = 0
  BY DEF Init
<1>2. GhostsOK
  BY <1>1 DEF Init, GhostsOK
<1>3. /\ MapsInv
      /\ \A ip \in Ips : ~ MapHas(arp_table, ip, now) /\ ~ MapHas(arp_buf, ip, now)
  <2>1. arp_table = MapInit(TableSlots, ArpTimeout) /\ arp_buf = MapInit(BufferSlots, MinInterval)
    BY DEF Init
  <2>2. /\ MapInv(arp_table, Ips, Macs, 1)
        /\ arp_table.max = TableSlots /\ arp_table.timeout = ArpTimeout
        /\ \A k : ~ MapHas(arp_table, k, 1)
    BY <2>1, SlotsAssumption, TimesAssumption, NewMap
  <2>3. /\ MapInv(arp_buf, Ips, 1..handed, 1)
        /\ arp_buf.max = BufferSlots /\ arp_buf.timeout = MinInterval
        /\ \A k : ~ MapHas(arp_buf, k, 1)
    BY <2>1, SlotsAssumption, TimesAssumption, NewMap
  <2>4. QED
    BY <1>1, <2>2, <2>3 DEF MapsInv
<1>4. FreshAddress
  BY DEF Init, FreshAddress
<1>5. QED
  BY <1>2, <1>3, <1>4 DEF IInv, KnownAsHeard, NotHeldWhileKnown, HeldSlots

\* The waiting packet of an address has a number, later than what went out to it.
LEMMA Waiting ==
  ASSUME IInv, NEW ip \in Ips, MapHas(arp_buf, ip, now)
  PROVE  /\ MapGet(arp_buf, ip, now) \in 1..handed
         /\ MapGet(arp_buf, ip, now) > lastOut[ip]
<1>1. MapTyped(arp_buf, Ips, 1..handed, now) /\ now \in Nat \ {0}
  BY DEF IInv, MapsInv, MapInv, GhostsOK
<1>2. SlotOf(arp_buf, ip, now).val \in 1..handed
  BY <1>1, SlotFilled
<1>3. SlotOf(arp_buf, ip, now).val > lastOut[ip]
  BY DEF IInv, HeldSlots
<1>4. QED
  BY <1>2, <1>3 DEF SlotOf, MapGet

\* arp_in in its two halves: what is learnt, and what goes out.
LEMMA HearInv ==
  ASSUME IInv, NEW op, NEW sip \in Ips, NEW smac \in Macs, NEW toMe \in BOOLEAN,
         arp_in(op, sip, smac, toMe)
  PROVE  IInv'
<1>0. /\ now \in Nat \ {0} /\ now' = now /\ handed \in Nat /\ handed' = handed
      /\ asked' = asked /\ heard' = [heard EXCEPT ![sip] = [mac |-> smac, time |-> now]]
      /\ MapInv(arp_table, Ips, Macs, now) /\ MapInv(arp_buf, Ips, 1..handed, now)
  BY DEF arp_in, IInv, GhostsOK, MapsInv
<1>1. AfterSet(arp_table, sip, smac, now, arp_table')
  BY DEF arp_in, AfterSet
<1>2. /\ Kept(Ips, Macs, arp_table, arp_table', now)
      /\ Others(Ips, {sip}, arp_table, arp_table', now)
  BY <1>0, <1>1, MapSetEffect
<1>3. /\ Kept(Ips, 1..handed, arp_buf, arp_buf', now)
      /\ Others(Ips, {sip}, arp_buf, arp_buf', now)
      /\ ~ MapHas(arp_buf', sip, now)
  <2>1. CASE MapHas(arp_buf, sip, now)
    <3>1. AfterDelete(arp_buf, sip, now, arp_buf')
      BY <2>1 DEF arp_in, AfterDelete
    <3>2. QED
      BY <1>0, <3>1, MapDeleteEffect
  <2>2. CASE ~ MapHas(arp_buf, sip, now)
    <3>1. arp_buf' = arp_buf
      BY <2>2 DEF arp_in
    <3>2. QED
      BY <1>0, <2>2, <3>1 DEF Kept, Others, SameFor
  <2>3. QED
    BY <2>1, <2>2
<1>4. \A q \in Ips : q # sip =>
        /\ MapHas(arp_table', q, now) <=> MapHas(arp_table, q, now)
        /\ MapHas(arp_table', q, now) => SlotOf(arp_table', q, now) = SlotOf(arp_table, q, now)
        /\ MapHas(arp_buf', q, now) <=> MapHas(arp_buf, q, now)
        /\ MapHas(arp_buf', q, now) => SlotOf(arp_buf', q, now) = SlotOf(arp_buf, q, now)
  BY <1>2, <1>3 DEF Others, SameFor, SlotOf
<1>5. lastOut' \in [Ips -> 0..handed] /\ \A q \in Ips : q # sip => lastOut'[q] = lastOut[q]
  <2>1. CASE MapHas(arp_buf, sip, now)
    <3>1. lastOut' = [lastOut EXCEPT ![sip] = MapGet(arp_buf, sip, now)]
      BY <2>1 DEF arp_in
    <3>2. MapGet(arp_buf, sip, now) \in 1..handed
      BY <2>1, Waiting
    <3>3. QED
      BY <1>0, <3>1, <3>2 DEF IInv, GhostsOK
  <2>2. CASE ~ MapHas(arp_buf, sip, now)
    BY <2>2 DEF arp_in, IInv, GhostsOK
  <2>3. QED
    BY <2>1, <2>2
<1>6. GhostsOK'
  <2>1. heard' \in [Ips -> {Vacant} \cup [mac : Macs, time : 1..now]]
    BY <1>0 DEF IInv, GhostsOK
  <2>2. QED
    BY <1>0, <1>5, <2>1 DEF IInv, GhostsOK
<1>7. MapsInv'
  BY <1>0, <1>2, <1>3 DEF IInv, MapsInv, Kept
<1>8. KnownAsHeard'
  <2> SUFFICES ASSUME NEW q \in Ips, MapHas(arp_table', q, now)
               PROVE  /\ SlotOf(arp_table', q, now).val = heard'[q].mac
                      /\ SlotOf(arp_table', q, now).time = heard'[q].time
    BY <1>0 DEF KnownAsHeard
  <2>h. heard'[q] = IF q = sip THEN [mac |-> smac, time |-> now] ELSE heard[q]
    BY <1>0 DEF IInv, GhostsOK
  <2>1. CASE q = sip
    <3>1. SlotOf(arp_table', sip, now) = Entry(sip, smac, now)
      BY <1>0, <1>1, <2>1, SetShows
    <3>2. QED
      BY <2>h, <2>1, <3>1 DEF Entry
  <2>2. CASE q # sip
    BY <1>4, <2>h, <2>2 DEF IInv, KnownAsHeard
  <2>3. QED
    BY <2>1, <2>2
<1>9. NotHeldWhileKnown'
  BY <1>0, <1>3, <1>4 DEF IInv, NotHeldWhileKnown
<1>10. HeldSlots'
  BY <1>0, <1>3, <1>4, <1>5 DEF IInv, HeldSlots
<1>11. FreshAddress'
  <2>1. heard'[sip] = [mac |-> smac, time |-> now]
    BY <1>0 DEF IInv, GhostsOK
  <2>2. \/ frame' = Packet(MapGet(arp_buf, sip, now), sip, smac)
        \/ frame' = Reply(sip, smac)
        \/ frame' = Silence
    BY DEF arp_in
  <2>3. QED
    BY <1>0, <2>1, <2>2, TimesAssumption DEF FreshAddress, Packet, Reply, Silence
<1>12. QED
  BY <1>6, <1>7, <1>8, <1>9, <1>10, <1>11 DEF IInv

\* arp_out: sent, dropped, or left to wait.
LEMMA SendInv ==
  ASSUME IInv, NEW ip \in Ips, arp_out(ip)
  PROVE  IInv'
<1> DEFINE p == handed + 1
<1>0. /\ now \in Nat \ {0} /\ now' = now /\ handed \in Nat /\ handed' = p
      /\ p \in 1..p /\ 1..handed \subseteq 1..p
      /\ arp_table' = arp_table /\ heard' = heard
      /\ MapInv(arp_table, Ips, Macs, now) /\ MapInv(arp_buf, Ips, 1..p, now)
  <2>1. /\ now \in Nat \ {0} /\ now' = now /\ handed \in Nat /\ handed' = p
        /\ arp_table' = arp_table /\ heard' = heard
        /\ MapInv(arp_table, Ips, Macs, now) /\ MapInv(arp_buf, Ips, 1..handed, now)
    BY DEF arp_out, IInv, GhostsOK, MapsInv
  <2>2. p \in 1..p /\ 1..handed \subseteq 1..p
    BY <2>1
  <2>3. MapInv(arp_buf, Ips, 1..p, now)
    BY <2>1, <2>2, MapWidens
  <2>4. QED
    BY <2>1, <2>2, <2>3
<1> HIDE DEF p
<1>1. lastOut \in [Ips -> 0..handed] /\ \A q \in Ips : p > lastOut[q]
  BY DEF IInv, GhostsOK, p
<1>2. KnownAsHeard'
  BY <1>0 DEF IInv, KnownAsHeard
<1>3. CASE MapHas(arp_table, ip, now)
  <2>1. /\ frame' = Packet(p, ip, MapGet(arp_table, ip, now))
        /\ lastOut' = [lastOut EXCEPT ![ip] = p]
        /\ arp_buf' = arp_buf /\ asked' = asked
    BY <1>3 DEF arp_out, p
  <2>2. GhostsOK' /\ \A q \in Ips : q # ip => lastOut'[q] = lastOut[q]
    <3>1. lastOut' \in [Ips -> 0..p]
      BY <1>0, <1>1, <2>1 DEF p
    <3>2. QED
      BY <1>0, <1>1, <2>1, <3>1 DEF IInv, GhostsOK, p
  <2>3. MapsInv'
    BY <1>0, <2>1 DEF IInv, MapsInv
  <2>4. ~ MapHas(arp_buf, ip, now)
    BY <1>3 DEF IInv, NotHeldWhileKnown
  <2>5. NotHeldWhileKnown'
    BY <1>0, <2>1 DEF IInv, NotHeldWhileKnown
  <2>6. HeldSlots'
    BY <1>0, <2>1, <2>2, <2>4 DEF IInv, HeldSlots
  <2>7. FreshAddress'
    <3>1. /\ SlotOf(arp_table, ip, now).val = heard[ip].mac
          /\ SlotOf(arp_table, ip, now).time = heard[ip].time
      BY <1>3 DEF IInv, KnownAsHeard
    <3>2. /\ SlotOf(arp_table, ip, now).time \in 1..now
          /\ SlotOf(arp_table, ip, now).time + ArpTimeout >= now
      <4>1. MapTyped(arp_table, Ips, Macs, now) /\ arp_table.timeout = ArpTimeout
        BY DEF IInv, MapsInv, MapInv
      <4>2. /\ SlotOf(arp_table, ip, now).time \in 1..now
            /\ \/ arp_table.timeout = 0
               \/ SlotOf(arp_table, ip, now).time + arp_table.timeout >= now
        BY <1>0, <1>3, <4>1, SlotFilled
      <4>3. QED
        BY <4>1, <4>2, TimesAssumption
    <3>3. MapGet(arp_table, ip, now) = heard[ip].mac /\ now <= heard[ip].time + ArpTimeout
      BY <1>0, <3>1, <3>2, TimesAssumption DEF MapGet, SlotOf
    <3>4. QED
      BY <1>0, <2>1, <3>3 DEF FreshAddress, Packet
  <2>8. QED
    BY <1>2, <2>2, <2>3, <2>5, <2>6, <2>7 DEF IInv
<1>4. CASE ~ MapHas(arp_table, ip, now) /\ MapHas(arp_buf, ip, now)
  <2>1. frame' = Silence /\ arp_buf' = arp_buf /\ asked' = asked /\ lastOut' = lastOut
    BY <1>4 DEF arp_out
  <2>2. GhostsOK'
    BY <1>0, <1>1, <2>1 DEF IInv, GhostsOK, p
  <2>3. QED
    BY <1>0, <1>2, <2>1, <2>2
       DEF IInv, MapsInv, NotHeldWhileKnown, HeldSlots, FreshAddress, Silence
<1>5. CASE ~ MapHas(arp_table, ip, now) /\ ~ MapHas(arp_buf, ip, now)
  <2>1. /\ frame' = Request(ip) /\ lastOut' = lastOut
        /\ asked' = [asked EXCEPT ![ip] = now]
        /\ AfterSet(arp_buf, ip, p, now, arp_buf')
    BY <1>5 DEF arp_out, AfterSet, p
  <2>2. /\ Kept(Ips, 1..p, arp_buf, arp_buf', now)
        /\ Others(Ips, {ip}, arp_buf, arp_buf', now)
    BY <1>0, <2>1, MapSetEffect
  <2>3. \A q \in Ips : q # ip =>
          /\ MapHas(arp_buf', q, now) <=> MapHas(arp_buf, q, now)
          /\ MapHas(arp_buf', q, now) => SlotOf(arp_buf', q, now) = SlotOf(arp_buf, q, now)
    BY <2>2 DEF Others, SameFor, SlotOf
  <2>4. MapHas(arp_buf', ip, now) =>
          SlotOf(arp_buf', ip, now).time = now /\ SlotOf(arp_buf', ip, now).val = p
    <3>1. SUFFICES ASSUME MapHas(arp_buf', ip, now)
                   PROVE  SlotOf(arp_buf', ip, now) = Entry(ip, p, now)
      BY DEF Entry
    <3>2. QED
      BY <1>0, <2>1, <3>1, SetShows
  <2>5. asked' \in [Ips -> 0..now] /\ asked'[ip] = now
        /\ \A q \in Ips : q # ip => asked'[q] = asked[q]
    BY <1>0, <2>1 DEF IInv, GhostsOK
  <2>6. GhostsOK'
    <3>1. lastOut' \in [Ips -> 0..p]
      BY <1>0, <1>1, <2>1 DEF p
    <3>2. QED
      BY <1>0, <2>5, <3>1 DEF IInv, GhostsOK, p
  <2>7. MapsInv'
    BY <1>0, <2>2 DEF IInv, MapsInv, Kept
  <2>8. NotHeldWhileKnown'
    BY <1>0, <1>5, <2>3 DEF IInv, NotHeldWhileKnown
  <2>9. HeldSlots'
    BY <1>0, <1>1, <2>1, <2>3, <2>4, <2>5 DEF IInv, HeldSlots
  <2>10. FreshAddress'
    BY <2>1 DEF FreshAddress, Request
  <2>11. QED
    BY <1>2, <2>6, <2>7, <2>8, <2>9, <2>10 DEF IInv
<1>6. QED
  BY <1>3, <1>4, <1>5

\* Time only takes entries away.
LEMMA TickInv ==
  ASSUME IInv, Tick
  PROVE  IInv'
<1>0. /\ now \in Nat \ {0} /\ now' = now + 1 /\ frame' = Silence
      /\ arp_table' = arp_table /\ arp_buf' = arp_buf /\ handed' = handed
      /\ asked' = asked /\ heard' = heard /\ lastOut' = lastOut
      /\ MapInv(arp_table, Ips, Macs, now) /\ MapInv(arp_buf, Ips, 1..handed, now)
  BY DEF Tick, IInv, GhostsOK, MapsInv
<1>1. MapInv(arp_table, Ips, Macs, now + 1) /\ MapInv(arp_buf, Ips, 1..handed, now + 1)
  BY <1>0, MapLaterEffect
<1>2. \A q \in Ips : MapHas(arp_table, q, now + 1) =>
        /\ MapHas(arp_table, q, now)
        /\ SlotOf(arp_table, q, now) = SlotOf(arp_table, q, now + 1)
  BY <1>0, LaterSlot
<1>3. \A q \in Ips : MapHas(arp_buf, q, now + 1) =>
        /\ MapHas(arp_buf, q, now)
        /\ SlotOf(arp_buf, q, now) = SlotOf(arp_buf, q, now + 1)
  BY <1>0, LaterSlot
<1>4. GhostsOK'
  <2>1. 0..now \subseteq 0..(now + 1) /\ 1..now \subseteq 1..(now + 1)
    BY <1>0
  <2>2. [mac : Macs, time : 1..now] \subseteq [mac : Macs, time : 1..(now + 1)]
    BY <2>1
  <2>3. asked' \in [Ips -> 0..now']
    BY <1>0, <2>1 DEF IInv, GhostsOK
  <2>4. heard' \in [Ips -> {Vacant} \cup [mac : Macs, time : 1..now']]
    BY <1>0, <2>2 DEF IInv, GhostsOK
  <2>5. QED
    BY <1>0, <2>3, <2>4 DEF IInv, GhostsOK
<1>5. MapsInv'
  BY <1>0, <1>1 DEF IInv, MapsInv
<1>6. KnownAsHeard'
  BY <1>0, <1>2 DEF IInv, KnownAsHeard
<1>7. NotHeldWhileKnown'
  BY <1>0, <1>2, <1>3 DEF IInv, NotHeldWhileKnown
<1>8. HeldSlots'
  BY <1>0, <1>3 DEF IInv, HeldSlots
<1>9. FreshAddress'
  BY <1>0 DEF FreshAddress, Silence
<1>10. QED
  BY <1>4, <1>5, <1>6, <1>7, <1>8, <1>9 DEF IInv

LEMMA NextInv == IInv /\ [Next]_vars => IInv'
<1> SUFFICES ASSUME IInv, [Next]_vars PROVE IInv'
  OBVIOUS
<1>1. CASE Hear
  BY <1>1, HearInv DEF Hear
<1>2. CASE Send
  BY <1>2, SendInv DEF Send
<1>3. CASE Tick
  BY <1>3, TickInv
<1>4. CASE UNCHANGED vars
  BY <1>4 DEF vars, IInv, GhostsOK, MapsInv, KnownAsHeard, NotHeldWhileKnown,
              HeldSlots, FreshAddress
<1>5. QED
  BY <1>1, <1>2, <1>3, <1>4 DEF Next

\* The inductive invariant holds in every reachable state.
THEOREM Invariance == Spec => []IInv
BY InitInv, NextInv, PTL DEF Spec

\* Both maps of arp.c and the record of the past stay well formed.
THEOREM TypeCorrect == Spec => []TypeOK
<1>1. IInv => TypeOK
  BY DEF IInv, GhostsOK, MapsInv, MapInv, TypeOK
<1>2. QED
  BY <1>1, Invariance, PTL

\* No packet is left waiting for an address that is known (arp.c:100-162).
THEOREM NothingHeldWhileKnown == Spec => []NotHeldWhileKnown
<1>1. IInv => NotHeldWhileKnown
  BY DEF IInv
<1>2. QED
  BY <1>1, Invariance, PTL

\* A waiting packet was asked for when it began to wait and was not overtaken.
THEOREM WaitingWasAsked == Spec => []HeldWasAsked
<1>1. IInv => HeldWasAsked
  BY DEF IInv, HeldSlots, HeldWasAsked, SlotOf, MapGet
<1>2. QED
  BY <1>1, Invariance, PTL

\* A packet leaves only for what its destination last said, while that is fresh.
THEOREM AddressesFresh == Spec => []FreshAddress
<1>1. IInv => FreshAddress
  BY DEF IInv
<1>2. QED
  BY <1>1, Invariance, PTL

\* Packets for one destination leave in the order they were handed over, each at
\* most once.
THEOREM LeaveInOrder == Spec => InOrder
<1>1. IInv /\ [Next]_vars => [frame'.kind = "ip" => frame'.pkt > lastOut[frame'.ip]]_vars
  <2> SUFFICES ASSUME IInv, Next
               PROVE  frame'.kind = "ip" => frame'.pkt > lastOut[frame'.ip]
    OBVIOUS
  <2>1. ASSUME NEW op, NEW sip \in Ips, NEW smac \in Macs, NEW toMe \in BOOLEAN,
               arp_in(op, sip, smac, toMe)
        PROVE  frame'.kind = "ip" => frame'.pkt > lastOut[frame'.ip]
    <3>1. CASE MapHas(arp_buf, sip, now)
      <4>1. frame' = Packet(MapGet(arp_buf, sip, now), sip, smac)
        BY <2>1, <3>1 DEF arp_in
      <4>2. MapGet(arp_buf, sip, now) > lastOut[sip]
        BY <3>1, Waiting
      <4>3. QED
        BY <4>1, <4>2 DEF Packet
    <3>2. CASE ~ MapHas(arp_buf, sip, now)
      BY <2>1, <3>2 DEF arp_in, Reply, Silence
    <3>3. QED
      BY <3>1, <3>2
  <2>2. ASSUME NEW ip \in Ips, arp_out(ip)
        PROVE  frame'.kind = "ip" => frame'.pkt > lastOut[frame'.ip]
    <3>1. \/ frame' = Packet(handed + 1, ip, MapGet(arp_table, ip, now))
          \/ frame' = Silence
          \/ frame' = Request(ip)
      BY <2>2 DEF arp_out
    <3>2. handed + 1 > lastOut[ip]
      BY DEF IInv, GhostsOK
    <3>3. QED
      BY <3>1, <3>2 DEF Packet, Silence, Request
  <2>3. CASE Tick
    BY <2>3 DEF Tick, Silence
  <2>4. QED
    BY <2>1, <2>2, <2>3 DEF Next, Hear, Send
<1>2. QED
  BY <1>1, Invariance, PTL DEF Spec, InOrder
=============================================================================
