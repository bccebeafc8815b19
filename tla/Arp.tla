-------------------------------- MODULE Arp --------------------------------
(***************************************************************************)
(* Address resolution (src/arp.c) of one stack on a LAN.                   *)
(*                                                                         *)
(* arp_table maps an address to the hardware address it was last heard     *)
(* with; arp_buf keeps, for an address that is being resolved, the one     *)
(* packet that waits for it.  Both are timed maps: an entry of the table   *)
(* lives ArpTimeout seconds, a waiting packet MinInterval.  The peers are  *)
(* the environment: any ARP message may arrive at any time, so answers may *)
(* be late, lost, repeated, out of order, and a peer may change its        *)
(* hardware address.  Packets are numbered in the order the IP layer hands *)
(* them to arp_out.                                                        *)
(*                                                                         *)
(* Each handler reads the clock as one second.                             *)
(***************************************************************************)
EXTENDS TimedMap

CONSTANTS Ips, Macs,
          TableSlots, BufferSlots,   \* capacities of arp_table and arp_buf
          ArpTimeout, MinInterval,   \* ARP_TIMEOUT_SEC, ARP_MIN_INTERVAL
          Horizon, MaxPackets        \* bounds on the clock and on the packets

ASSUME SlotsAssumption == TableSlots \in Nat \ {0} /\ BufferSlots \in Nat \ {0}
ASSUME TimesAssumption == ArpTimeout \in Nat \ {0} /\ MinInterval \in Nat \ {0}

VARIABLES
  now,
  arp_table, arp_buf,
  frame,      \* what the last step put on the wire
  handed,     \* packets handed to arp_out so far
  asked,      \* ghost: second of the last request for an address, 0 for none
  heard,      \* ghost: what the last ARP message of an address said, and when
  lastOut     \* ghost: the last packet sent to an address

vars == <<now, arp_table, arp_buf, frame, handed, asked, heard, lastOut>>

Packets == Nat \ {0}
Silence == [kind |-> "none"]
Packet(p, ip, mac) == [kind |-> "ip", pkt |-> p, ip |-> ip, mac |-> mac]
Request(ip) == [kind |-> "request", ip |-> ip]
Reply(ip, mac) == [kind |-> "reply", ip |-> ip, mac |-> mac]

Init ==
  /\ now = 1
  /\ arp_table = MapInit(TableSlots, ArpTimeout)
  /\ arp_buf = MapInit(BufferSlots, MinInterval)
  /\ frame = [kind |-> "announce"]
  /\ handed = 0
  /\ asked = [ip \in Ips |-> 0]
  /\ heard = [ip \in Ips |-> Vacant]
  /\ lastOut = [ip \in Ips |-> 0]

\* Mutant: the waiting packet is sent but stays in the buffer.
arp_in_keeps(op, sip, smac, toMe) ==
  /\ arp_table' = MapSet(arp_table, sip, smac, now)
  /\ heard' = [heard EXCEPT ![sip] = [mac |-> smac, time |-> now]]
  /\ UNCHANGED <<now, handed, asked, arp_buf>>
  /\ IF MapHas(arp_buf, sip, now)
     THEN /\ frame' = Packet(MapGet(arp_buf, sip, now), sip, smac)
          /\ lastOut' = [lastOut EXCEPT ![sip] = MapGet(arp_buf, sip, now)]
     ELSE /\ frame' = IF op = "request" /\ toMe THEN Reply(sip, smac) ELSE Silence
          /\ UNCHANGED lastOut

\* Mutant: a known address is not overwritten.
arp_in_first(op, sip, smac, toMe) ==
  /\ arp_table' = IF MapHas(arp_table, sip, now) THEN arp_table
                  ELSE MapSet(arp_table, sip, smac, now)
  /\ heard' = [heard EXCEPT ![sip] = [mac |-> smac, time |-> now]]
  /\ UNCHANGED <<now, handed, asked>>
  /\ IF MapHas(arp_buf, sip, now)
     THEN /\ frame' = Packet(MapGet(arp_buf, sip, now), sip, smac)
          /\ lastOut' = [lastOut EXCEPT ![sip] = MapGet(arp_buf, sip, now)]
          /\ arp_buf' = MapDelete(arp_buf, sip, now)
     ELSE /\ frame' = IF op = "request" /\ toMe THEN Reply(sip, smac) ELSE Silence
          /\ UNCHANGED <<arp_buf, lastOut>>

\* arp_in of a well-formed message: learn the sender, then send the packet that
\* waits for it, or else answer a request for the own address.
arp_in(op, sip, smac, toMe) ==
  /\ arp_table' = MapSet(arp_table, sip, smac, now)
  /\ heard' = [heard EXCEPT ![sip] = [mac |-> smac, time |-> now]]
  /\ UNCHANGED <<now, handed, asked>>
  /\ IF MapHas(arp_buf, sip, now)
     THEN /\ frame' = Packet(MapGet(arp_buf, sip, now), sip, smac)
          /\ lastOut' = [lastOut EXCEPT ![sip] = MapGet(arp_buf, sip, now)]
          /\ arp_buf' = MapDelete(arp_buf, sip, now)
     ELSE /\ frame' = IF op = "request" /\ toMe THEN Reply(sip, smac) ELSE Silence
          /\ UNCHANGED <<arp_buf, lastOut>>

\* Mutant: a packet that finds another waiting takes its place.
arp_out_replaces(ip) ==
  LET p == handed + 1 IN
  /\ handed' = p
  /\ UNCHANGED <<now, arp_table, heard>>
  /\ IF MapHas(arp_table, ip, now)
     THEN /\ frame' = Packet(p, ip, MapGet(arp_table, ip, now))
          /\ lastOut' = [lastOut EXCEPT ![ip] = p]
          /\ UNCHANGED <<arp_buf, asked>>
     ELSE /\ arp_buf' = MapSet(arp_buf, ip, p, now)
          /\ frame' = IF MapHas(arp_buf, ip, now) THEN Silence ELSE Request(ip)
          /\ asked' = IF MapHas(arp_buf, ip, now) THEN asked ELSE [asked EXCEPT ![ip] = now]
          /\ UNCHANGED lastOut

\* arp_out: send to a known address; drop while a packet waits for the address;
\* else let the packet wait (the buffer may refuse it, which nobody looks at)
\* and broadcast a request.
arp_out(ip) ==
  LET p == handed + 1 IN
  /\ handed' = p
  /\ UNCHANGED <<now, arp_table, heard>>
  /\ IF MapHas(arp_table, ip, now)
     THEN /\ frame' = Packet(p, ip, MapGet(arp_table, ip, now))
          /\ lastOut' = [lastOut EXCEPT ![ip] = p]
          /\ UNCHANGED <<arp_buf, asked>>
     ELSE IF MapHas(arp_buf, ip, now)
     THEN frame' = Silence /\ UNCHANGED <<arp_buf, asked, lastOut>>
     ELSE /\ arp_buf' = MapSet(arp_buf, ip, p, now)
          /\ frame' = Request(ip)
          /\ asked' = [asked EXCEPT ![ip] = now]
          /\ UNCHANGED lastOut

Tick ==
  /\ now < Horizon
  /\ now' = now + 1
  /\ frame' = Silence
  /\ UNCHANGED <<arp_table, arp_buf, handed, asked, heard, lastOut>>

Hear == \E op \in {"request", "reply"}, sip \in Ips, smac \in Macs, toMe \in BOOLEAN :
          arp_in(op, sip, smac, toMe)
Send == handed < MaxPackets /\ \E ip \in Ips : arp_out(ip)

Next == Hear \/ Send \/ Tick

Spec == Init /\ [][Next]_vars

-----------------------------------------------------------------------------

\* Type invariant: both maps well formed, the ghosts about the past.
TypeOK ==
  /\ now \in Nat \ {0} /\ handed \in Nat
  /\ MapTyped(arp_table, Ips, Macs, now)
  /\ arp_table.max = TableSlots /\ arp_table.timeout = ArpTimeout
  /\ MapTyped(arp_buf, Ips, 1..handed, now)
  /\ arp_buf.max = BufferSlots /\ arp_buf.timeout = MinInterval
  /\ asked \in [Ips -> 0..now]
  /\ heard \in [Ips -> {Vacant} \cup [mac : Macs, time : 1..now]]
  /\ lastOut \in [Ips -> 0..handed]

\* No packet is left waiting for an address that is known: what arp_in learns
\* it uses at once, and arp_out never parks a packet it could send.
NotHeldWhileKnown ==
  \A ip \in Ips : ~ (MapHas(arp_table, ip, now) /\ MapHas(arp_buf, ip, now))

\* A waiting packet is the last one the address was asked for, in the second
\* it began to wait, and none handed over later has gone out before it.
HeldWasAsked ==
  \A ip \in Ips : MapHas(arp_buf, ip, now) =>
    /\ arp_buf.slots[Least(Where(arp_buf, ip, now))].time = asked[ip]
    /\ MapGet(arp_buf, ip, now) > lastOut[ip]

\* A packet leaves only for the hardware address its destination was last heard
\* with, at most ArpTimeout seconds ago.
FreshAddress ==
  frame.kind = "ip" =>
    /\ frame.mac = heard[frame.ip].mac
    /\ now <= heard[frame.ip].time + ArpTimeout

\* The packets for one destination leave in the order they were handed over,
\* none twice: a packet that waited is never overtaken and never repeated.
InOrder ==
  [][frame'.kind = "ip" => frame'.pkt > lastOut[frame'.ip]]_vars

\* config.h:26 calls ARP_MIN_INTERVAL the least interval between requests to
\* one address.
RequestsPaced ==
  [][frame'.kind = "request" =>
       asked[frame'.ip] = 0 \/ now >= asked[frame'.ip] + MinInterval]_vars
=============================================================================
