------------------------------- MODULE Stack -------------------------------
(***************************************************************************)
(* The polling thread from the driver to the handlers: src/driver.c,       *)
(* ethernet.c, net.c, the unfragmented path of ip.c, icmp.c, udp.c, and    *)
(* the main loops of app/icmp_server.c and app/udp_server.c.  ARP, the     *)
(* reassembly and TCP have modules of their own.                           *)
(*                                                                         *)
(* One step of the model is one call from a main loop: net_init (in two    *)
(* parts), ping_req, or net_poll with all a frame causes.  Frames are what *)
(* other hosts may send, each at most once per poll; a request of this     *)
(* process is answered never, late or many times.                          *)
(*                                                                         *)
(* Of the bytes in rxbuf the source address in the IP header is kept:      *)
(* ip_in passes on a pointer to it, and what is sent there reads it again. *)
(***************************************************************************)
EXTENDS Buf, Checksum, Ping

CONSTANTS
  Apps,                       \* programs: "icmp_server", "udp_server"
  SelfIp, LoopbackIp, Peers,  \* addresses, each one word of a checksum
  Targets,                    \* to_ping_ip of icmp_server, in order
  SelfBits, InterfaceLists,   \* net_if_ip in bits; what pcap_findalldevs may find
  ServerPort, Ports,          \* the port udp_server opens; those datagrams go to
  Payloads,                   \* what they carry, one word each
  EthLen, IpLen, UdpLen, PseudoLen, FrameMax, ShortLen,  \* scaled lengths
  HdrLens, HdrLenMax,         \* hdr_len * 4 as IP headers may state it; the most four bits give
  TicksPerSecond,
  MaxFrames                   \* bound on the frames a program gets

ASSUME LengthsAssumption ==
  /\ {EthLen, IpLen, UdpLen, PseudoLen, FrameMax, ShortLen, HdrLenMax} \subseteq Nat
  /\ IpLen \in HdrLens /\ HdrLens \subseteq 0..HdrLenMax
  /\ PseudoLen <= EthLen
  /\ EthLen <= ShortLen /\ ShortLen <= FrameMax
  /\ EthLen + HdrLenMax + UdpLen <= FrameMax /\ FrameMax <= Origin

ASSUME PortsAssumption == IsFiniteSet(Ports) /\ ServerPort \in Ports

ASSUME PingsAssumption ==
  /\ TicksPerSecond \in Nat \ {0}
  /\ Targets \in Seq({Targets[t] : t \in DOMAIN Targets})
  /\ \A t, u \in DOMAIN Targets : Targets[t] = Targets[u] => t = u

ASSUME WordsAssumption ==
  {SelfIp, ServerPort} \cup Peers \cup Ports \cup Payloads \subseteq 0..(WordMod - 1)

VARIABLES
  app,           \* the program built; never changes
  pc,            \* where its main loop is
  interfaces, if_name,
  net_table, udp_table,
  rxbuf,
  map_ping, map_ping_req, target,
  subsec,        \* ticks into the current second
  wire,          \* echo requests of this process that may be answered
  polled,        \* frames so far
  last, out, heard,   \* ghosts: the frame of this step, what was sent, whether a port heard it
  right, fooled  \* ghosts: requests answered while awaited, by their target or by another

setup == <<app, interfaces, if_name>>
pings == <<map_ping, map_ping_req, target, wire, right, fooled>>
shown == <<last, out, heard>>
vars == <<setup, pc, net_table, udp_table, rxbuf, pings, subsec, polled, shown>>

Nothing == [kind |-> "none"]
\* Ethertypes and protocol numbers: both are keys of net_table.
ArpType == 2054
IpType == 2048
OtherType == 34525
IcmpProto == 1
TcpProto == 6
UdpProto == 17
NetSlots == 4   \* as many as are registered at most

Init ==
  /\ app \in Apps
  /\ pc = "open"
  /\ interfaces \in InterfaceLists /\ if_name = 0
  /\ net_table = MapInit(NetSlots, 0)
  /\ udp_table = MapInit(Cardinality(Ports), 0)
  /\ rxbuf = [len |-> 0, data |-> 0, payload |-> SelfIp]
  /\ map_ping = MapInit(Len(Targets), 0)
  /\ map_ping_req = MapInit(PingTestTime, 0)
  /\ target = 1
  /\ subsec = 0
  /\ wire = {} /\ polled = 0
  /\ last = Nothing /\ out = Nothing /\ heard = FALSE
  /\ right = {} /\ fooled = {}

-----------------------------------------------------------------------------
(* driver_open and net_init *)

MaskBits(a) == ip_prefix_match([i \in 1..Len(SelfBits) |-> 1], a.mask)

InetAddresses(d) == SelectSeq(d, LAMBDA a : a.inet)

\* An IPv4 address has as many bits as the stack's own, and its netmask is ones,
\* then zeros.
ASSUME InterfacesAssumption ==
  LET Places == 1..Len(SelfBits)
      Masks == {[i \in Places |-> IF i <= n THEN 1 ELSE 0] : n \in 0..Len(SelfBits)}
  IN  /\ SelfBits \in Seq(0..1)
      /\ \A list \in InterfaceLists :
           /\ list \in Seq({list[d] : d \in DOMAIN list})
           /\ \A d \in DOMAIN list :
                InetAddresses(list[d]) \in
                  Seq({a \in Range(list[d]) : a.inet /\ a.addr \in [Places -> 0..1] /\ a.mask \in Masks})

\* Mutant: the subnet mask is not looked at.
match_any_subnet(d) ==
  IF InetAddresses(d) = <<>> THEN 0
  ELSE ip_prefix_match(SelfBits, Last(InetAddresses(d)).addr)

\* match[if_num]: each IPv4 address of an interface overwrites the one before.
Match(d) ==
  IF InetAddresses(d) = <<>> THEN 0
  ELSE LET a == Last(InetAddresses(d))
           m == ip_prefix_match(SelfBits, a.addr)
       IN  IF m < MaskBits(a) THEN 0 ELSE m

\* driver_find: the first interface of the longest match; 0 for an error, there
\* being none or one that has this stack's own address.
driver_find ==
  LET match == [i \in DOMAIN interfaces |-> Match(interfaces[i])]
      best == {i \in DOMAIN interfaces : \A j \in DOMAIN interfaces : match[j] <= match[i]}
      chosen == Least(best)
  IN  IF best = {} THEN 0
      ELSE IF match[chosen] \in {0, Len(SelfBits)} THEN 0 ELSE chosen

\* Any of the pcap calls after driver_find may fail as well.
driver_open ==
  /\ pc = "open"
  /\ \E opened \in BOOLEAN :
       /\ if_name' = IF opened THEN driver_find ELSE 0
       /\ pc' = IF if_name' = 0 THEN "failed" ELSE "init"
  /\ UNCHANGED <<app, interfaces, net_table, udp_table, rxbuf, pings, subsec, polled, shown>>

LoopStart(i) == IF app = "icmp_server" /\ i <= Len(Targets) THEN "ping" ELSE "poll"

\* The protocols in the order net_init registers them.
net_add_protocol(table, protocol, handler) == MapSet(table, protocol, handler, Stamp)
CommonProtocols ==
  net_add_protocol(
    net_add_protocol(
      net_add_protocol(MapInit(NetSlots, 0), ArpType, "arp_in"), IpType, "ip_in"),
    IcmpProto, "icmp_in")
NetTable ==
  IF app = "udp_server" THEN net_add_protocol(CommonProtocols, UdpProto, "udp_in")
  ELSE CommonProtocols

\* The rest of net_init, and the udp_open of udp_server.  What driver_open
\* saw and chose were its local variables.
net_init ==
  /\ pc = "init"
  /\ net_table' = NetTable
  /\ rxbuf' = buf_init(rxbuf, FrameMax)
  /\ udp_table' = IF app = "udp_server" THEN MapSet(udp_table, ServerPort, "udp_handler", Stamp)
                  ELSE udp_table
  /\ pc' = LoopStart(target)
  /\ interfaces' = <<>> /\ if_name' = 0
  /\ UNCHANGED <<app, pings, subsec, polled, shown>>

-----------------------------------------------------------------------------
(* Frames: a kind, an ethertype, a source, the length the IP header states  *)
(* for itself, and what the layer above needs.                              *)

\* What hosts send has a whole header, with options or without.  ip_in does not
\* look: it takes away what is stated, and buf_remove_header may refuse that.
Whole == {h \in HdrLens : IpLen <= h}

Plain == {[kind |-> k, type |-> t, src |-> p] :
            k \in {"noise"}, t \in {ArpType, IpType, OtherType}, p \in {Min(Peers)}}
Echo == {[kind |-> "echo", type |-> IpType, src |-> p, hlen |-> h] : p \in Peers, h \in Whole}
\* Neither a request nor a reply to icmp_in, be it for a header of a wrong length.
Report == {[kind |-> "report", type |-> IpType, src |-> p, hlen |-> h] :
             p \in {Min(Peers)}, h \in HdrLens}
\* An answer has no options, the request having none.
Answer(w) == [kind |-> "answer", type |-> IpType, seq |-> w.seq, from |-> w.from, hlen |-> IpLen,
              src |-> IF w.from = LoopbackIp THEN SelfIp ELSE w.from]
Foreign == {[kind |-> "tcp", type |-> IpType, src |-> p, hlen |-> h] : p \in Peers, h \in Whole}

\* A datagram as its sender made it, and with one word of it damaged.
Pseudo(src, dst) == <<src, dst, UdpProto % WordMod>>
Datagram(p, h, port, data) ==
  [kind |-> "udp", type |-> IpType, src |-> p, hlen |-> h, port |-> port, data |-> data,
   check |-> PeerChecksum(Pseudo(p, SelfIp) \o <<port, data>>), was |-> <<port, data>>]
Words == 0..(WordMod - 1)
Damaged(f) ==
  {[f EXCEPT !.port = w] : w \in Ports} \cup {[f EXCEPT !.data = w] : w \in Words}
    \cup {[f EXCEPT !.check = w] : w \in Words}
Udp == UNION {Damaged(Datagram(p, h, port, data)) :
                p \in Peers, h \in Whole, port \in Ports, data \in Payloads}

\* To icmp_server a UDP datagram is one of a foreign protocol.
Arrivals ==
  Plain \cup Echo \cup Report \cup Foreign \cup {Answer(w) : w \in wire}
    \cup (IF app = "udp_server" THEN Udp ELSE {})

Protocol(f) ==
  CASE f.kind = "udp" -> UdpProto
    [] f.kind = "tcp" -> TcpProto
    [] OTHER -> IcmpProto
Length(f) == IF f.kind \in {"noise", "report"} THEN ShortLen ELSE FrameMax

-----------------------------------------------------------------------------
(* A frame on its way up.  Each handler ends the step with the buffer left  *)
(* as b, and with one of the following.                                     *)

Leave(b, o, h) ==
  /\ rxbuf' = b /\ out' = o /\ heard' = h
  /\ pc' = LoopStart(target)
Drop(b) == Leave(b, Nothing, FALSE) /\ UNCHANGED pings

Send(kind, to) == [kind |-> kind, to |-> to]

\* icmp_unreachable quotes what the buffer it is given begins with: whole says
\* whether that is the place in the array where the frame's IP header is.
icmp_unreachable(b, kind, recv_buf, to) ==
  /\ Leave(b, [kind |-> kind, to |-> to, whole |-> recv_buf.data = rxbuf.data + EthLen], FALSE)
  /\ UNCHANGED pings

\* Awaiting(s): ping_req has sent request s of the target and not yet checked it.
Awaiting(s) ==
  /\ target <= Len(Targets)
  /\ MapHas(map_ping, Targets[target], Stamp)
  /\ MapGet(map_ping, Targets[target], Stamp).ping_time = s
  /\ ~MapGet(map_ping, Targets[target], Stamp).is_finished

\* icmp_in, with set_ping_req_TTL before it: both follow the pointer map_get
\* returns, whether there is a request of that number or not.
icmp_in(b, f) ==
  CASE f.kind = "echo" -> Leave(b, Send("reply", b.payload), FALSE) /\ UNCHANGED pings
    [] f.kind = "answer" ->
         IF ~MapHas(map_ping_req, f.seq, Stamp)
         THEN /\ pc' = "null" /\ out' = Nothing /\ heard' = FALSE
              /\ UNCHANGED <<rxbuf, pings>>
         ELSE /\ map_ping_req' = ReplyRecorded(map_ping_req, f.seq)
              /\ IF ~Awaiting(f.seq) THEN UNCHANGED <<right, fooled>>
                 ELSE IF f.from = Targets[target]
                 THEN right' = right \cup {<<target, f.seq>>} /\ UNCHANGED fooled
                 ELSE fooled' = fooled \cup {<<target, f.seq>>} /\ UNCHANGED right
              /\ Leave(b, Nothing, FALSE)
              /\ UNCHANGED <<map_ping, target, wire>>
    [] OTHER -> Drop(b)

\* transport_checksum puts the pseudo header over the last bytes of the IP
\* header, sums up, and puts those bytes back.  The source address lies under the
\* destination then; with options in the header it lies under itself, or before.
PseudoHeaderOn(b, hlen) ==
  [buf_add_header(b, PseudoLen) EXCEPT !.payload = IF hlen = IpLen THEN SelfIp ELSE @]
\* Mutant: the bytes are not put back.
header_not_restored(b, backup) == buf_remove_header(b, PseudoLen)
PseudoHeaderOff(b, backup) == [buf_remove_header(b, PseudoLen) EXCEPT !.payload = backup]

Sum(b, f) == checksum16(Pseudo(b.payload, SelfIp) \o <<f.port, f.data>>)

\* Mutant: the sum is taken before the port is filled in.
sum_before_port(port, to, data) ==
  [kind |-> "echo", to |-> to, port |-> port, data |-> data,
   check |-> checksum16(Pseudo(SelfIp, to) \o <<0, data>>)]

\* udp_out from a port of this stack.
udp_out(port, to, data) ==
  [kind |-> "echo", to |-> to, port |-> port, data |-> data,
   check |-> checksum16(Pseudo(SelfIp, to) \o <<port, data>>)]

\* udp_server's handler sends back what it was given, always from its first port.
udp_handler(src, f) == udp_out(ServerPort, src, f.data)

\* A closed port is reported to net_if_ip, not to the sender, and from where an IP
\* header without options would begin.
udp_in(b, f) ==
  LET c == PseudoHeaderOff(PseudoHeaderOn(b, f.hlen), b.payload)
  IN  IF Sum(b, f) # f.check THEN Drop(c)
      ELSE IF ~MapHas(udp_table, f.port, Stamp)
      THEN LET q == buf_add_header(c, IpLen)
           IN  icmp_unreachable(q, "port", q, SelfIp)
      ELSE Leave(buf_remove_header(c, UdpLen), udp_handler(c.payload, f), TRUE) /\ UNCHANGED pings

\* net_in hands a packet to the handler registered for its protocol, if any.
net_in(protocol) ==
  IF MapHas(net_table, protocol, Stamp) THEN MapGet(net_table, protocol, Stamp) ELSE "none"

\* ip_in of a datagram in one piece.  It takes the header away that the header
\* says there is.  A report of an unknown protocol is made of the copy.
ip_in(b, f) ==
  LET up == buf_remove_header(b, f.hlen)
      handler == net_in(Protocol(f))
  IN  IF f.kind = "noise" THEN Drop(b)
      ELSE IF handler = "none"
      THEN icmp_unreachable(up, "protocol", buf_copy(b), up.payload)
      ELSE IF handler = "udp_in" THEN udp_in(up, f)
      ELSE icmp_in(up, f)

\* arp_in changes nothing of this module.
ethernet_in(b, f) ==
  LET up == buf_remove_header(b, EthLen)
  IN  IF net_in(f.type) = "ip_in" THEN ip_in(up, f) ELSE Drop(up)

\* driver_recv copies the frame to where rxbuf was left.  Beyond the array lies
\* other memory, and what the program does then is not known.
driver_recv(f) ==
  LET b == [len |-> Length(f), data |-> rxbuf.data, payload |-> f.src]
  IN  /\ polled' = polled + 1
      /\ last' = f
      /\ IF InArray(b) THEN ethernet_in(b, f)
         ELSE /\ pc' = "overrun" /\ out' = Nothing /\ heard' = FALSE
              /\ UNCHANGED <<rxbuf, pings>>

net_poll ==
  /\ pc = "poll"
  /\ \/ polled < MaxFrames[app] /\ \E f \in Arrivals : driver_recv(f)
     \/ /\ pc' = LoopStart(target)
        /\ last' = Nothing /\ out' = Nothing /\ heard' = FALSE
        /\ UNCHANGED <<rxbuf, pings, polled>>
  /\ UNCHANGED <<setup, net_table, udp_table, subsec>>

-----------------------------------------------------------------------------
(* The pings *)

\* icmp_req_out.  A request to the loopback address runs through ip_in and
\* icmp_in at once; what comes back later is the answer, sent to net_if_ip and
\* captured like any other frame.
icmp_req_out(dst, seq) ==
  /\ map_ping_req' = RequestRecorded(map_ping_req, dst, seq)
  /\ wire' = wire \cup {[from |-> dst, seq |-> seq]}
  /\ out' = IF dst = LoopbackIp THEN Send("reply", SelfIp) ELSE Nothing

\* ping_req's first call for a target.  If the second changes between its two
\* looks at the clock, request 1 is sent, but noted in the local record only.
FirstCall(dst) ==
  /\ map_ping' = MapSet(map_ping, dst, NewPing, Stamp)
  /\ \/ UNCHANGED <<map_ping_req, wire>> /\ out' = Nothing
     \/ subsec = TicksPerSecond - 1 /\ icmp_req_out(dst, 1)

\* Mutant: the request is sent before it is numbered.
next_request_early(dst, p) ==
  /\ map_ping' = MapRevise(map_ping, dst, [p EXCEPT !.ping_time = @ + 1, !.wait = FALSE], Stamp)
  /\ icmp_req_out(dst, p.ping_time)

NextRequest(dst, p) ==
  /\ map_ping' = MapRevise(map_ping, dst, [p EXCEPT !.ping_time = @ + 1, !.wait = FALSE], Stamp)
  /\ icmp_req_out(dst, p.ping_time + 1)

\* Mutant: a ping that has sent its last request is never finished.
finish_forgotten(dst, p) ==
  /\ map_ping' = MapRevise(map_ping, dst, p, Stamp)
  /\ out' = Nothing
  /\ UNCHANGED <<map_ping_req, wire>>

Finish(dst, p) ==
  /\ map_ping' = MapRevise(map_ping, dst, [p EXCEPT !.is_finished = TRUE], Stamp)
  /\ out' = Nothing
  /\ UNCHANGED <<map_ping_req, wire>>

\* Mutant: one request more than there are numbers.
one_request_more(dst, p) ==
  IF ~p.wait
  THEN out' = Nothing /\ UNCHANGED <<map_ping, map_ping_req, wire>>
  ELSE LET q == IF p.ping_time = 0 THEN p
                ELSE ping_req_check(p, MapGet(map_ping_req, p.ping_time, Stamp))
       IN  IF p.ping_time > PingTestTime THEN Finish(dst, q) ELSE NextRequest(dst, q)

\* A later call, with the record p: wait for the next second, then check the
\* request that is out, and send the next or finish.
LaterCall(dst, p) ==
  IF ~p.wait
  THEN out' = Nothing /\ UNCHANGED <<map_ping, map_ping_req, wire>>
  ELSE LET q == IF p.ping_time = 0 THEN p
                ELSE ping_req_check(p, MapGet(map_ping_req, p.ping_time, Stamp))
       IN  IF p.ping_time = PingTestTime THEN Finish(dst, q) ELSE NextRequest(dst, q)

Finished(dst) ==
  MapHas(map_ping, dst, Stamp) /\ MapGet(map_ping, dst, Stamp).is_finished
Unrecorded(dst) ==
  LET p == MapGet(map_ping, dst, Stamp)
  IN  /\ MapHas(map_ping, dst, Stamp)
      /\ p.wait /\ p.ping_time > 0 /\ ~MapHas(map_ping_req, p.ping_time, Stamp)

\* One turn of icmp_server's loop as far as ping_req: 1 moves on to the next
\* target, 0 goes on to net_poll.
ping_req ==
  /\ pc = "ping"
  /\ LET dst == Targets[target] IN
       IF Finished(dst)
       THEN /\ target' = target + 1
            /\ pc' = LoopStart(target + 1)
            /\ out' = Nothing
            /\ UNCHANGED <<map_ping, map_ping_req, wire>>
       ELSE /\ target' = target
            /\ IF Unrecorded(dst)
               THEN pc' = "null" /\ out' = Nothing /\ UNCHANGED <<map_ping, map_ping_req, wire>>
               ELSE /\ pc' = "poll"
                    /\ IF MapHas(map_ping, dst, Stamp)
                       THEN LaterCall(dst, MapGet(map_ping, dst, Stamp))
                       ELSE FirstCall(dst)
  /\ last' = Nothing /\ heard' = FALSE
  /\ UNCHANGED <<setup, net_table, udp_table, rxbuf, subsec, polled, right, fooled>>

\* An application may close and open ports between polls.
udp_open(port) ==
  /\ app = "udp_server" /\ pc = "poll"
  /\ udp_table' = MapSet(udp_table, port, "udp_handler", Stamp)
  /\ last' = Nothing /\ out' = Nothing /\ heard' = FALSE
  /\ UNCHANGED <<setup, pc, net_table, rxbuf, pings, subsec, polled>>
udp_close(port) ==
  /\ app = "udp_server" /\ pc = "poll"
  /\ udp_table' = MapDelete(udp_table, port, Stamp)
  /\ last' = Nothing /\ out' = Nothing /\ heard' = FALSE
  /\ UNCHANGED <<setup, pc, net_table, rxbuf, pings, subsec, polled>>

\* The clock: ticks while the main loop runs.
Tick ==
  /\ pc \in {"ping", "poll"}
  /\ subsec' = (subsec + 1) % TicksPerSecond
  /\ map_ping_req' = Older(map_ping_req)
  /\ map_ping' = IF subsec' = 0 THEN SecondPassed(map_ping) ELSE map_ping
  /\ last' = Nothing /\ out' = Nothing /\ heard' = FALSE
  /\ UNCHANGED <<setup, pc, net_table, udp_table, rxbuf, target, wire, polled, right, fooled>>

Next ==
  \/ driver_open \/ net_init
  \/ net_poll \/ ping_req \/ Tick
  \/ \E port \in Ports : udp_open(port) \/ udp_close(port)

\* The main loop does not stop, and neither does the clock.
Fairness == WF_vars(driver_open) /\ WF_vars(net_init) /\ WF_vars(net_poll)
            /\ WF_vars(ping_req) /\ WF_vars(Tick)

Spec == Init /\ [][Next]_vars /\ Fairness

-----------------------------------------------------------------------------

Pinged == {t \in DOMAIN Targets : MapHas(map_ping, Targets[t], Stamp)}
Record(t) == MapGet(map_ping, Targets[t], Stamp)

\* Type invariant.
TypeOK ==
  /\ app \in Apps
  /\ pc \in {"open", "init", "failed", "ping", "poll", "null", "overrun"}
  /\ if_name \in Nat /\ target \in 1..(Len(Targets) + 1)
  /\ subsec \in 0..(TicksPerSecond - 1)
  /\ rxbuf.data \in Nat /\ rxbuf.len \in Nat
  /\ MapTyped(udp_table, Ports, {"udp_handler"}, Stamp)
  /\ MapTyped(map_ping_req, 1..PingTestTime,
       [dst_ip : {Targets[t] : t \in DOMAIN Targets}, age : 0..Long, got : -1..Long], Stamp)
  /\ \A t \in Pinged : Record(t).ping_time \in 0..PingTestTime
  /\ right \cup fooled \subseteq (DOMAIN Targets) \X (1..PingTestTime)

\* As long as hosts answer only what they were asked, no reply and no check
\* comes to a request that is not in map_ping_req (icmp.c:62 and 215 follow the
\* pointer without a look).
RequestsRecorded == pc # "null"

\* The successes of a ping are the requests that were answered while they were
\* awaited, each once however often the answer came, and never an answer of an
\* earlier ping left in the record of that number.  (What another target's late
\* answer makes of it is in "fooled": the code cannot tell.)
RepliesCountedOnce ==
  \A t \in Pinged :
    LET p == Record(t)
        checked == IF p.is_finished THEN PingTestTime ELSE p.ping_time - 1
    IN  p.success_time = Cardinality({s \in 1..checked : <<t, s>> \in right \cup fooled})

\* The average that ping_req prints lies between the shortest and the longest
\* time it prints.
AverageInRange ==
  \A t \in Pinged :
    LET p == Record(t)
    IN  /\ p.shortest_time * p.success_time <= p.sum_time
        /\ p.sum_time <= p.longest_time * p.success_time

\* What a host asked for goes back to that host: echo replies, echoed data and
\* reports of a protocol, though the address is read again through a pointer
\* into a buffer that was written over and restored meanwhile.
AnswersGoBack ==
  last # Nothing /\ out.kind \in {"reply", "echo", "protocol"} => out.to = last.src

\* One damaged word of a datagram shows: no handler is given it, save for a word
\* changed between zero and all ones, which are the same number to the sum.
SameToTheSum(a, b) == a = b \/ {a, b} = {0, WordMod - 1}
DamageShows ==
  heard =>
    /\ SameToTheSum(last.port, last.was[1])
    /\ SameToTheSum(last.data, last.was[2])
    /\ SameToTheSum(last.check, Datagram(last.src, last.hlen, last.was[1], last.was[2]).check)

\* An undamaged datagram to an open port is heard and echoed, unless its sum
\* works out to zero: the sender writes all ones then (RFC 768), which udp_in
\* compares with its own zero.
Undamaged(f) == f = Datagram(f.src, f.hlen, f.was[1], f.was[2])
UndamagedHeard ==
  /\ last.kind = "udp" /\ app = "udp_server" /\ pc # "overrun"
  /\ Undamaged(last) /\ MapHas(udp_table, last.port, Stamp)
  /\ checksum16(Pseudo(last.src, SelfIp) \o last.was) # 0
  => heard /\ out.kind = "echo" /\ out.to = last.src /\ out.data = last.data

\* What a handler sends is accepted where it arrives: the sum over the addresses
\* as the receiver sees them is right, or is zero, which stands for none (RFC 768).
AnswersVerify ==
  out.kind = "echo" =>
    \/ out.check = 0
    \/ Total(Pseudo(SelfIp, out.to) \o <<out.port, out.data, out.check>>) % (WordMod - 1) = 0

\* A frame is written past the end of rxbuf only after so many frames that the
\* headers taken away (never given back by driver_recv, and of the IP header as
\* much as it states) have used up the half of the array behind the origin.
RxbufLasts ==
  pc = "overrun" => (polled - 1) * (EthLen + HdrLenMax + UdpLen) > BufMaxLen - Origin

\* A report quotes the packet it is about from its IP header on (icmp.c:85): of a
\* closed port, wherever in its array the buffer stands, if the header has no
\* options; of an unknown protocol, if rxbuf is where net_init left it for a frame
\* of this length, for buf_copy does not look where the packet is.
ReportsQuotePacket ==
  /\ out.kind = "port" /\ last.hlen = IpLen => out.whole
  /\ out.kind = "protocol" /\ polled = 1 => out.whole

\* If every interface has one IPv4 address at most, the one opened is the best
\* there is: its subnet holds this stack's address, the address itself is not
\* taken, and no other interface's address agrees with it in more bits.
OnLink(a) ==
  \A i \in 1..Len(SelfBits) : a.mask[i] = 1 => a.addr[i] = SelfBits[i]
Agree(a, n) == SubSeq(a.addr, 1, n) = SubSeq(SelfBits, 1, n)
BestInterface ==
  LET single == \A d \in DOMAIN interfaces : Len(InetAddresses(interfaces[d])) <= 1
      ours(d) == InetAddresses(interfaces[d])[1]
      usable == {d \in DOMAIN interfaces : InetAddresses(interfaces[d]) # <<>> /\ OnLink(ours(d))}
  IN  pc = "init" /\ single =>
        /\ if_name \in usable
        /\ \A d \in usable :
             /\ ours(d).addr # SelfBits
             /\ \A n \in 1..Len(SelfBits) : Agree(ours(d), n) => Agree(ours(if_name), n)

\* icmp_server comes to the end of its pings, whatever is lost, late or
\* repeated.
EveryPingEnds ==
  [](pc = "ping" => <>(target > Len(Targets) \/ pc \in {"null", "overrun"}))
=============================================================================
